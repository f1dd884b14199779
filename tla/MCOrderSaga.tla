----------------------------- MODULE MCOrderSaga -----------------------------
(* Small instances of OrderSaga for TLC. *)
EXTENDS OrderSaga, TLC

CONSTANTS o1, o2, o3, A, B

\* Orders that compete for product A.
MCItems ==
    [o \in Orders |->
        CASE o = o1 -> <<[product |-> B, qty |-> 1], [product |-> A, qty |-> 1]>>
          [] o = o2 -> <<[product |-> A, qty |-> 2]>>
          [] o = o3 -> <<[product |-> A, qty |-> 1]>>]

\* The same product: o2 and o3 want more of it than there is, and the quantity of
\* o1 is negative.
SignedItems ==
    [o \in Orders |->
        CASE o = o1 -> <<[product |-> A, qty |-> 0 - 1]>>
          [] o = o2 -> <<[product |-> A, qty |-> 3]>>
          [] o = o3 -> <<[product |-> A, qty |-> 1]>>]

\* Enough for o1 and one of the others, not for all three.
MCStock == [p \in Products |-> 3]

\* Faults between the payment service and the order's status.
PaymentFaults == {"db", "uncertain", "crash"}

\* Faults after which nothing is done twice.
PlainFaults == {"user", "lookup", "call", "lostReply", "db", "abort"}

\* Faults that only repeat what was done.
Redeliveries == {"crash", "repeat"}
=============================================================================
