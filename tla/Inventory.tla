------------------------------ MODULE Inventory ------------------------------
(***************************************************************************)
(* The inventory half of the product service: ProductService.              *)
(* _manage_inventory and the three operations that go through it           *)
(* (fastapi_product/app/services/product_service.py), with the MySQL row   *)
(* lock, transaction and session it works on.                              *)
(*                                                                         *)
(* A session is one SQLAlchemy AsyncSession on the write pool with the one *)
(* coroutine that uses it: the gRPC server of a replica, or the            *)
(* ProductService an order_success / order_failed handler creates.  A      *)
(* session serves one call at a time.                                      *)
(*                                                                         *)
(*   select --Select--> locked --Act--> commit --Commit--> refresh --> true *)
(*     |                   v             |       |            |            *)
(*     |                rollback         |       +--> late <--+            *)
(*     |                   |             |             |                   *)
(*     +---> abort <-------|-------------+             |                   *)
(*             +-----------+--------> false <----------+                   *)
(*                                                                         *)
(* `abort` and `late` are both the except clause; `late` is the one a call *)
(* reaches whose commit has gone through.                                  *)
(*                                                                         *)
(* Quantities are those of the calls; the code checks them nowhere on this *)
(* path, the model takes the positive ones (see the README, hazards).      *)
(***************************************************************************)
EXTENDS StockRow, FiniteSets

CONSTANTS Products,      \* product ids the callers name
          Sessions,      \* database sessions
          Quantities,    \* quantities the callers ask for
          Stocks,        \* stocks a product may be created with
          NoSession      \* an unlocked row

ASSUME QuantitiesAssumption == Quantities \subseteq Nat \ {0} /\ Quantities # {}
ASSUME StocksAssumption == Stocks \subseteq Nat /\ Stocks # {}
ASSUME NoSessionAssumption == NoSession \notin Sessions

VARIABLES listed,   \* products that have a row in MySQL
          row,      \* committed contents of the rows
          held,     \* held[p]: the session whose transaction locks row p
          gap,      \* gap[s]: missing products whose gaps s's open transaction locks
          pc,       \* pc[s]: where s's coroutine is in _manage_inventory
          req,      \* req[s]: its arguments
          img       \* img[s]: the ORM object it read and edits

vars == <<listed, row, held, gap, pc, req, img>>

Stage == {"idle", "select", "locked", "commit", "refresh", "rollback",
          "abort", "late", "true", "false"}

Request == [op : Ops, product : Products, qty : Quantities]

EmptyRow == [stock |-> 0, reserved |-> 0]

TypeOK ==
    /\ listed \in SUBSET Products
    /\ row \in [Products -> Row]
    /\ held \in [Products -> Sessions \cup {NoSession}]
    /\ gap \in [Sessions -> SUBSET Products]
    /\ pc \in [Sessions -> Stage]
    /\ req \in [Sessions -> Request]
    /\ img \in [Sessions -> Row]

Init ==
    /\ listed \in SUBSET Products
    /\ \E n \in Stocks :
          row = [p \in Products |-> IF p \in listed
                                    THEN [stock |-> n, reserved |-> 0]
                                    ELSE EmptyRow]
    /\ held = [p \in Products |-> NoSession]
    /\ gap = [s \in Sessions |-> {}]
    /\ pc = [s \in Sessions |-> "idle"]
    /\ \E r \in Request : req = [s \in Sessions |-> r]
    /\ img = [s \in Sessions |-> EmptyRow]

Goto(s, stage) == pc' = [pc EXCEPT ![s] = stage]

\* The end of s's transaction frees the row and the gap it locked; the object
\* read in it is not used again.
EndTransaction(s) ==
    /\ img' = [img EXCEPT ![s] = EmptyRow]
    /\ held' = [p \in Products |-> IF held[p] = s THEN NoSession ELSE held[p]]
    /\ gap' = [gap EXCEPT ![s] = {}]

-----------------------------------------------------------------------------
\* Mutant of Begin: a quantity nobody checked reaches the call.
BeginUnchecked(s, r) ==
    /\ pc[s] \in {"idle", "true", "false"}
    /\ req' = [req EXCEPT ![s] = [r EXCEPT !.qty = 0]]
    /\ Goto(s, "select")
    /\ UNCHANGED <<listed, row, held, gap, img>>

\* A caller enters _manage_inventory with the session idle.
Begin(s, r) ==
    /\ pc[s] \in {"idle", "true", "false"}
    /\ req' = [req EXCEPT ![s] = r]
    /\ Goto(s, "select")
    /\ UNCHANGED <<listed, row, held, gap, img>>

\* Mutant of Select: a plain SELECT, without FOR UPDATE.
SelectPlain(s) ==
    /\ pc[s] = "select"
    /\ req[s].product \in listed
    /\ img' = [img EXCEPT ![s] = row[req[s].product]]
    /\ Goto(s, "locked")
    /\ UNCHANGED <<listed, row, held, gap, req>>

\* SELECT ... FOR UPDATE returns the row: it waits for the lock, takes it and
\* reads the committed contents.
Select(s) ==
    LET p == req[s].product IN
    /\ pc[s] = "select"
    /\ p \in listed
    /\ held[p] = NoSession
    /\ held' = [held EXCEPT ![p] = s]
    /\ img' = [img EXCEPT ![s] = row[p]]
    /\ Goto(s, "locked")
    /\ UNCHANGED <<listed, row, gap, req>>

\* No row: return False at once, leaving the transaction open.  The locking
\* read of a missing key has locked the gap the key falls in.
NotFound(s) ==
    /\ pc[s] = "select"
    /\ req[s].product \notin listed
    /\ gap' = [gap EXCEPT ![s] = @ \cup {req[s].product}]
    /\ Goto(s, "false")
    /\ UNCHANGED <<listed, row, held, req, img>>

\* The lock wait times out, or the connection fails.
SelectFails(s) ==
    /\ pc[s] = "select"
    /\ Goto(s, "abort")
    /\ UNCHANGED <<listed, row, held, gap, req, img>>

\* The operation's closure: test, then edit the object.
Act(s) ==
    /\ pc[s] = "locked"
    /\ IF Permitted(req[s].op, img[s], req[s].qty)
       THEN /\ img' = [img EXCEPT ![s] = Effect(req[s].op, @, req[s].qty)]
            /\ Goto(s, "commit")
       ELSE /\ Goto(s, "rollback")
            /\ UNCHANGED img
    /\ UNCHANGED <<listed, row, held, gap, req>>

\* db.commit(): the UPDATE writes the object's columns, the transaction ends.
\* Either the call returns, or the acknowledgement is lost with the connection.
Commit(s) ==
    /\ pc[s] = "commit"
    /\ row' = [row EXCEPT ![req[s].product] = img[s]]
    /\ EndTransaction(s)
    /\ Goto(s, "refresh") \/ Goto(s, "late")
    /\ UNCHANGED <<listed, req>>

\* db.commit() fails before the server commits; the transaction is still open.
CommitFails(s) ==
    /\ pc[s] = "commit"
    /\ Goto(s, "abort")
    /\ UNCHANGED <<listed, row, held, gap, req, img>>

\* db.refresh() after the commit, and the answer True; when the refresh
\* raises, the answer is False although the commit stands.
Refresh(s) ==
    /\ pc[s] = "refresh"
    /\ Goto(s, "true") \/ Goto(s, "late")
    /\ UNCHANGED <<listed, row, held, gap, req, img>>

\* Mutants of Rollback: the transaction is left open; the refusal is answered True.
RollbackForgotten(s) ==
    /\ pc[s] = "rollback"
    /\ Goto(s, "false")
    /\ UNCHANGED <<listed, row, held, gap, req, img>>

RollbackAnsweredTrue(s) ==
    /\ pc[s] = "rollback"
    /\ EndTransaction(s)
    /\ Goto(s, "true")
    /\ UNCHANGED <<listed, row, req>>

\* The closure refused: db.rollback(), answer False.
Rollback(s) ==
    /\ pc[s] = "rollback"
    /\ EndTransaction(s)
    /\ Goto(s, "false")
    /\ UNCHANGED <<listed, row, req>>

\* Mutant of Abort: the except clause answers without rolling back.
AbortForgotten(s) ==
    /\ pc[s] \in {"abort", "late"}
    /\ Goto(s, "false")
    /\ UNCHANGED <<listed, row, held, gap, req, img>>

\* The except clause: roll back what is open, answer False.
Abort(s) ==
    /\ pc[s] \in {"abort", "late"}
    /\ EndTransaction(s)
    /\ Goto(s, "false")
    /\ UNCHANGED <<listed, row, req>>

\* The process dies, or the session is closed or collected: MySQL rolls the
\* open transaction back.
Crash(s) ==
    /\ EndTransaction(s)
    /\ Goto(s, "idle")
    /\ UNCHANGED <<listed, row, req>>

\* create_product inserts the MySQL row of a new product; the insert waits for
\* every gap lock on its key.
InsertProduct(p, n) ==
    /\ p \notin listed
    /\ \A s \in Sessions : p \notin gap[s]
    /\ listed' = listed \cup {p}
    /\ row' = [row EXCEPT ![p] = [stock |-> n, reserved |-> 0]]
    /\ UNCHANGED <<held, gap, pc, req, img>>

-----------------------------------------------------------------------------
\* The steps of s that follow from a call once it is made.
Step(s) ==
    \/ Select(s) \/ NotFound(s) \/ SelectFails(s) \/ Act(s)
    \/ Commit(s) \/ CommitFails(s) \/ Refresh(s)
    \/ Rollback(s) \/ Abort(s)

Next ==
    \/ \E s \in Sessions : \/ \E r \in Request : Begin(s, r)
                           \/ Step(s)
                           \/ Crash(s)
    \/ \E p \in Products, n \in Stocks : InsertProduct(p, n)

Spec == Init /\ [][Next]_vars

\* A coroutine that was started keeps running, and a lock wait ends with the
\* lock or with innodb_lock_wait_timeout.  Callers and crashes owe nothing.
FairSpec == Spec /\ \A s \in Sessions : WF_vars(Step(s))

-----------------------------------------------------------------------------
\* No overselling: however reservations, releases, confirmations, failures and
\* crashes interleave, the reserved units of a product are between 0 and its
\* stock (product_service.py:326-356; README.md:246-280).
NoOverselling == \A p \in Products : Sound(row[p])

\* No lost update: a coroutine that will roll back or commit holds the row lock,
\* and what it is about to write is the effect of its own operation on the row
\* as it is now, not on the row as it once was (product_service.py:250-268).
NoLostUpdate ==
    \A s \in Sessions :
        LET p == req[s].product IN
        /\ pc[s] \in {"locked", "commit", "rollback"} => held[p] = s
        /\ pc[s] = "locked" => img[s] = row[p]
        /\ pc[s] = "commit" =>
              /\ Permitted(req[s].op, row[p], req[s].qty)
              /\ img[s] = Effect(req[s].op, row[p], req[s].qty)

\* The inductive invariant of the proofs: the above, that only the coroutine at
\* work holds the lock, and that locks are on rows that exist.
LockDiscipline ==
    \A p \in Products : held[p] # NoSession =>
        /\ p \in listed
        /\ req[held[p]].product = p
        /\ pc[held[p]] \in {"locked", "commit", "rollback", "abort"}

\* The rows and the answers are those of an inventory whose calls are atomic:
\* a call takes effect at its commit, once, and True means it did.
AtomicStatus ==
    [s \in Sessions |->
        CASE pc[s] = "idle" -> "idle"
          [] pc[s] = "true" -> "true"
          [] pc[s] = "false" -> "false"
          [] pc[s] \in {"refresh", "late"} -> "applied"
          [] OTHER -> "pending"]

Atomic == INSTANCE AtomicInventory WITH status <- AtomicStatus

\* Refinement (product_service.py:236-292): see AtomicInventory.
ImplementsAtomicInventory == Atomic!Spec

\* A row lock does not outlive the call that took it: every path through
\* _manage_inventory, the refused and the failed ones too, ends the transaction
\* (product_service.py:266-291).
RowLockReleased ==
    \A p \in Products, s \in Sessions : held[p] = s ~> held[p] # s
=============================================================================
