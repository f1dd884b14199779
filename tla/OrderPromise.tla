----------------------------- MODULE OrderPromise -----------------------------
(***************************************************************************)
(* What the saga promises of an order, without services, events, handlers  *)
(* or inventory rows: items are reserved before the order exists, the      *)
(* order is paid at most once and completed only when paid, cancelled only *)
(* when not, both for good, and each of its items is then sold, or freed,  *)
(* at most once.  No product is promised to more orders than there are     *)
(* units of it.                                                            *)
(***************************************************************************)
EXTENDS StockRow, Sequences, FiniteSets, FiniteSetsExt

CONSTANTS Orders, Products, Items, InitialStock

VARIABLES status,    \* the order row, "none" before it exists
          payments,  \* payments of the order
          effects    \* per item: how often reserved, confirmed, released

vars == <<status, payments, effects>>

Untouched == [op \in Ops |-> 0]

Init ==
    /\ status = [o \in Orders |-> "none"]
    /\ payments = [o \in Orders |-> 0]
    /\ effects = [o \in Orders |-> [i \in DOMAIN Items[o] |-> Untouched]]

\* Units of p in the hands of orders: reserved, and not freed again.
Taken(p) ==
    LET lines == {l \in Orders \X (1 .. Max({Len(Items[o]) : o \in Orders})) :
                      l[2] \in DOMAIN Items[l[1]] /\ Items[l[1]][l[2]].product = p}
        units(l) == Items[l[1]][l[2]].qty
                    * (effects[l[1]][l[2]].reserve - effects[l[1]][l[2]].release)
    IN  MapThenSumSet(units, lines)

Effected(o, i, op) == effects' = [effects EXCEPT ![o][i][op] = @ + 1]

Reserve(o, i) ==
    /\ status[o] = "none"
    /\ effects[o][i] = Untouched
    /\ Taken(Items[o][i].product) + Items[o][i].qty <= InitialStock[Items[o][i].product]
    /\ Effected(o, i, "reserve")
    /\ UNCHANGED <<status, payments>>

Place(o) ==
    /\ status[o] = "none"
    /\ \A i \in DOMAIN Items[o] : effects[o][i].reserve = 1
    /\ status' = [status EXCEPT ![o] = "pending"]
    /\ UNCHANGED <<payments, effects>>

Pay(o) ==
    /\ status[o] = "pending"
    /\ payments[o] = 0
    /\ payments' = [payments EXCEPT ![o] = 1]
    /\ UNCHANGED <<status, effects>>

Complete(o) ==
    /\ status[o] = "pending"
    /\ payments[o] = 1
    /\ status' = [status EXCEPT ![o] = "completed"]
    /\ UNCHANGED <<payments, effects>>

Cancel(o) ==
    /\ status[o] = "pending"
    /\ payments[o] = 0
    /\ status' = [status EXCEPT ![o] = "cancelled"]
    /\ UNCHANGED <<payments, effects>>

\* The item is sold, or its reservation given back.
Settle(o, i) ==
    /\ effects[o][i] = [Untouched EXCEPT !.reserve = 1]
    /\ \/ status[o] = "completed" /\ Effected(o, i, "confirm")
       \/ status[o] = "cancelled" /\ Effected(o, i, "release")
    /\ UNCHANGED <<status, payments>>

Next ==
    \E o \in Orders :
        \/ Place(o) \/ Pay(o) \/ Complete(o) \/ Cancel(o)
        \/ \E i \in DOMAIN Items[o] : Reserve(o, i) \/ Settle(o, i)

Spec == Init /\ [][Next]_vars
=============================================================================
