--------------------------- MODULE AtomicInventory ---------------------------
(***************************************************************************)
(* What the inventory promises its callers, without locks or transactions: *)
(* a call is invoked, takes effect at most once and in one step on the     *)
(* current row, and is answered.  True is only answered by a call that     *)
(* took effect.  False promises nothing: the code answers False both for   *)
(* a refused operation and for one whose commit went through and whose     *)
(* refresh, or whose acknowledgement, then failed.                         *)
(***************************************************************************)
EXTENDS StockRow, FiniteSets

CONSTANTS Products, Sessions, Quantities, Stocks

VARIABLES listed,  \* products that have a MySQL row
          row,     \* their committed contents
          req,     \* the arguments of each session's last call
          status   \* where that call is

vars == <<listed, row, req, status>>

Status == {"idle", "pending", "applied", "true", "false"}

Request == [op : Ops, product : Products, qty : Quantities]

Init ==
    /\ listed \in SUBSET Products
    /\ row \in [Products -> Row]
    /\ \A p \in Products : Sound(row[p])
    /\ req \in [Sessions -> Request]
    /\ status = [s \in Sessions |-> "idle"]

Invoke(s) ==
    /\ status[s] \in {"idle", "true", "false"}
    /\ \E r \in Request : req' = [req EXCEPT ![s] = r]
    /\ status' = [status EXCEPT ![s] = "pending"]
    /\ UNCHANGED <<listed, row>>

Apply(s) ==
    LET p == req[s].product IN
    /\ status[s] = "pending"
    /\ p \in listed
    /\ Permitted(req[s].op, row[p], req[s].qty)
    /\ row' = [row EXCEPT ![p] = Effect(req[s].op, @, req[s].qty)]
    /\ status' = [status EXCEPT ![s] = "applied"]
    /\ UNCHANGED <<listed, req>>

AnswerTrue(s) ==
    /\ status[s] = "applied"
    /\ status' = [status EXCEPT ![s] = "true"]
    /\ UNCHANGED <<listed, row, req>>

AnswerFalse(s) ==
    /\ status[s] \in {"pending", "applied"}
    /\ status' = [status EXCEPT ![s] = "false"]
    /\ UNCHANGED <<listed, row, req>>

\* The process that made or served the call dies: nobody is answered.
Lose(s) ==
    /\ status' = [status EXCEPT ![s] = "idle"]
    /\ UNCHANGED <<listed, row, req>>

List(p) ==
    /\ p \notin listed
    /\ listed' = listed \cup {p}
    /\ \E n \in Stocks : row' = [row EXCEPT ![p] = [stock |-> n, reserved |-> 0]]
    /\ UNCHANGED <<req, status>>

Next ==
    \/ \E s \in Sessions :
          Invoke(s) \/ Apply(s) \/ AnswerTrue(s) \/ AnswerFalse(s) \/ Lose(s)
    \/ \E p \in Products : List(p)

Spec == Init /\ [][Next]_vars
=============================================================================
