---------------------------- MODULE ProductManager ----------------------------
(***************************************************************************)
(* The product service's part of the saga: ProductManager's handlers of    *)
(* order_success and order_failed                                          *)
(* (fastapi_product/app/services/product_manager.py).  An item whose       *)
(* confirm_inventory or release_inventory answers False is logged and      *)
(* passed over, so the logic methods raise nothing and the retry loop      *)
(* around them, with its compensation, is not entered a second time.  The  *)
(* product_inventory_adjustment event that order_failed leaves in the      *)
(* outbox has no consumer and is left out.                                 *)
(*                                                                         *)
(* settle[o] is the work on the order events of o, of which `pos` are      *)
(* acknowledged.                                                           *)
(***************************************************************************)
EXTENDS SagaState

SettleStage == {"idle", "working", "done"}

ProductTypeOK ==
    settle \in [Orders -> [pos : Nat, stage : SettleStage, item : Nat]]

ProductInit ==
    settle = [o \in Orders |-> [pos |-> 0, stage |-> "idle", item |-> 1]]

\* Mutant of Settlement: the two handlers are swapped.
SettlementSwapped(type) == IF type = "order_failed" THEN "confirm" ELSE "release"

\* The operation the handler of an event carries out on every item.
Settlement(type) == IF type = "order_success" THEN "confirm" ELSE "release"

\* The next order event reaches the loop; order_created has no handler here and
\* is committed as it is.
TakeOutcome(o) ==
    /\ settle[o].stage = "idle"
    /\ settle[o].pos < Len(orderLog[o])
    /\ \/ /\ orderLog[o][settle[o].pos + 1] = "order_created"
          /\ settle' = [settle EXCEPT ![o].pos = @ + 1]
       \/ /\ orderLog[o][settle[o].pos + 1] # "order_created"
          /\ settle' = [settle EXCEPT ![o].stage = "working", ![o].item = 1]
    /\ NoFault
    /\ UNCHANGED <<orderVars, paymentVars, stockVars, logVars, edits>>

\* The handler passes from an item to the next, or ends.
PassItem(o) ==
    settle' = IF settle[o].item = Len(Items[o])
              THEN [settle EXCEPT ![o].stage = "done"]
              ELSE [settle EXCEPT ![o].item = @ + 1]

\* Items without a positive quantity are skipped as invalid.
ValidItem(o, i) == Items[o][i].qty > 0

\* confirm_inventory or release_inventory for the next item, each in a
\* transaction of its own.  The answer False stops nothing.
SettleItem(o) ==
    LET op == Settlement(orderLog[o][settle[o].pos + 1])
        i  == settle[o].item
    IN  /\ settle[o].stage = "working"
        /\ \/ NoFault /\ ValidItem(o, i) /\ Apply(op, o, i)
           \/ NoFault /\ (ValidItem(o, i) => Refuses(op, o, i)) /\ UNCHANGED stockVars
           \/ Fault("call") /\ ValidItem(o, i) /\ UNCHANGED stockVars
        /\ PassItem(o)
        /\ UNCHANGED <<orderVars, paymentVars, logVars, edits>>

\* Mutant of AckOutcome: the offset is not stored, the event comes again.
AckOutcomeForgotten(o) ==
    /\ settle[o].stage = "done"
    /\ settle' = [settle EXCEPT ![o].stage = "idle", ![o].item = 1]
    /\ NoFault
    /\ UNCHANGED <<orderVars, paymentVars, stockVars, logVars, edits>>

\* The consume loop commits the offset.
AckOutcome(o) ==
    /\ settle[o].stage = "done"
    /\ settle' = [settle EXCEPT ![o] = [pos |-> @.pos + 1, stage |-> "idle", item |-> 1]]
    /\ NoFault
    /\ UNCHANGED <<orderVars, paymentVars, stockVars, logVars, edits>>

\* The consumer dies before that: the event is handled again, from its first
\* item, although every item done so far has been committed.
RedeliverOutcome(o) ==
    /\ settle[o].stage # "idle"
    /\ Fault("crash")
    /\ settle' = [settle EXCEPT ![o].stage = "idle", ![o].item = 1]
    /\ UNCHANGED <<orderVars, paymentVars, stockVars, logVars, edits>>

-----------------------------------------------------------------------------
ProductStep(o) == TakeOutcome(o) \/ SettleItem(o) \/ AckOutcome(o)

ProductNext == \E o \in Orders : ProductStep(o) \/ RedeliverOutcome(o)
=============================================================================
