------------------------------ MODULE OrderSaga ------------------------------
(***************************************************************************)
(* The order saga: the order, payment and product services composed over   *)
(* the outbox and Kafka, with the faults of SagaState.                     *)
(*                                                                         *)
(*   order     create_order: reserve the items, store PENDING              *)
(*                |  order_created                                         *)
(*   payment   create_payment, or give up after three attempts             *)
(*                |  payment_success / payment_failed                      *)
(*   order     COMPLETED / CANCELLED                                       *)
(*                |  order_success / order_failed                          *)
(*   product   confirm / release the items                                 *)
(***************************************************************************)
EXTENDS OrderManager, PaymentManager, ProductManager, FiniteSetsExt

Init ==
    /\ OrderInit
    /\ PaymentInit
    /\ ProductInit
    /\ row = [p \in Products |-> [stock |-> InitialStock[p], reserved |-> 0]]
    /\ effects = [o \in Orders |-> [i \in ItemNumbers(o) |-> [op \in Ops |-> 0]]]
    /\ orderLog = [o \in Orders |-> <<>>]
    /\ payLog = [o \in Orders |-> <<>>]
    /\ faults = 0
    /\ edits = 0

Next ==
    \/ OrderNext
    \/ PaymentNext
    \/ ProductNext
    \/ \E o \in Orders : RepeatOrderEvent(o) \/ RepeatPaymentEvent(o)

Spec == Init /\ [][Next]_vars

\* A coroutine that was started keeps running, and a committed outbox row is
\* relayed to a consumer that is alive or restarted (EventConsumer states when
\* that is so).  Requests may never be made, so ValidateUser owes nothing; no
\* fault is ever due.
FairSpec ==
    /\ Spec
    /\ \A o \in Orders :
          /\ WF_vars(request[o].stage # "new" /\ RequestStep(o))
          /\ WF_vars(PaymentStep(o))
          /\ WF_vars(ProductStep(o))
          /\ \A i \in 1 .. MaxPayEvents : WF_vars(HandlerStep(o, i))

-----------------------------------------------------------------------------
SagaTypeOK ==
    /\ OrderTypeOK
    /\ PaymentTypeOK
    /\ ProductTypeOK
    /\ row \in [Products -> Row]
    /\ \A o \in Orders : effects[o] \in [ItemNumbers(o) -> [Ops -> Nat]]
    /\ orderLog \in [Orders -> Seq({"order_created", "order_success", "order_failed"})]
    /\ payLog \in [Orders -> Seq([type : {"payment_success", "payment_failed"}, key : Nat])]
    /\ faults \in 0 .. MaxFaults
    /\ edits \in 0 .. MaxEdits

Types(log) == {log[k].type : k \in DOMAIN log}

\* An order exists only with every item reserved, once: no failure between the
\* reservations and the transaction leads to an order without its stock
\* (order_manager.py:124-219).
OnlyReservedOrdersAreStored ==
    \A o \in Orders : status[o] # "none" =>
        \A i \in ItemNumbers(o) : effects[o][i].reserve = 1

\* Goods leave the stock only for an order with a payment, and are given back
\* only for an order whose payment was given up, whatever is lost, repeated or
\* retried on the way (payment_service.py:131-177, payment_manager.py:206-232,
\* order_manager.py:311-460, product_manager.py:195-312).
SettlementHasCause ==
    \A o \in Orders : \A i \in ItemNumbers(o) :
        /\ effects[o][i].confirm > 0 => payments[o] > 0
        /\ effects[o][i].release > 0 => "payment_failed" \in Types(payLog[o])

\* README.md:160: the transaction and its message are one atomic step, so the
\* status of an order is one its events have announced
\* (order_manager.py:166-219, 328-353, 437-460).
StatusIsAnnounced ==
    \A o \in Orders :
        LET announced == {orderLog[o][k] : k \in DOMAIN orderLog[o]}
        IN  /\ status[o] = "pending" => "order_created" \in announced
            /\ status[o] = "completed" => "order_success" \in announced
            /\ status[o] = "cancelled" => "order_failed" \in announced

\* Units(o, p): what order o wants of product p.
Units(o, p) ==
    LET lines == {i \in ItemNumbers(o) : Items[o][i].product = p}
        units(i) == Items[o][i].qty
    IN  MapThenSumSet(units, lines)

\* README.md:279: the reserved quantity of an order blocks other orders.
\* The units of the orders that wait for their payment are reserved, all of
\* them at the same time (product_service.py:326-356, product_manager.py:260-312).
PendingUnitsAreReserved ==
    \A p \in Products :
        LET units(o) == Units(o, p)
        IN  MapThenSumSet(units, {o \in Orders : status[o] = "pending"})
                <= row[p].reserved

\* An order is sold or freed, never some of each, although its events may be
\* delivered again at any point (order_manager.py:311-460,
\* product_manager.py:195-312).
NoMixedOutcome ==
    \A o \in Orders : \A i, j \in ItemNumbers(o) :
        ~(effects[o][i].confirm > 0 /\ effects[o][j].release > 0)

\* create_payment does not look for an earlier payment of the order, so nothing
\* but the delivery of order_created bounds how often an order is paid: beside
\* the first payment event each has a fault or a request of its own as its cause
\* (payment_manager.py:80-252, payment_service.py:131-177).  One fault that led
\* to two payments would break it.
PaymentEventsAreCaused ==
    \A o \in Orders :
        /\ Len(payLog[o]) <= 1 + faults + edits
        /\ payments[o] <= 1 + faults + edits

\* README.md:229-232: PENDING becomes COMPLETED or CANCELLED.  The handlers set
\* the status whatever it is by then, so what makes a decision final is that the
\* payment service does not announce both outcomes, although it may be asked
\* twice (order_manager.py:311-353, 423-460, payment_manager.py:103-160).
DecisionIsFinal ==
    [][\A o \in Orders : status[o] \in {"completed", "cancelled"} => status'[o] = status[o]]_status

\* Refinement: see OrderPromise.
Promise == INSTANCE OrderPromise
ImplementsOrderPromise == Promise!Spec

\* Every order that is stored is decided in the end, and each of its reservations
\* is sold or given back - the latter as long as nothing was repeated, since a
\* repeated release may have freed its units before; see PendingUnitsAreReserved
\* (order_manager.py:275-481, payment_manager.py:80-252, product_manager.py:195-312).
StoredOrderSettled ==
    \A o \in Orders :
        status[o] # "none" ~>
            /\ status[o] \in {"completed", "cancelled"}
            /\ faults > 0 \/ \A i \in DOMAIN Items[o] :
                                effects[o][i].confirm + effects[o][i].release > 0

\* Nothing is left to be done for order o: the loops of the payment and product
\* services have acknowledged its order events, that of the order service its
\* payment events.
AllHandled(o) ==
    /\ charge[o].stage = "idle" /\ charge[o].pos = Len(orderLog[o])
    /\ settle[o].stage = "idle" /\ settle[o].pos = Len(orderLog[o])
    /\ \A i \in DOMAIN payLog[o] : handler[o][i].stage = "acked"

\* What may lose an order: a failure of every attempt of handle_payment_success
\* (or of those of create_payment, and then of its compensation or of
\* handle_payment_failed), or of the single attempt a refused payment is answered
\* with (order_manager.py:304-383, 469-481, payment_manager.py:204-309).
MayBeLost(o) == faults > MaxRetries \/ (o \in Refused /\ faults > 0)

\* Fewer failures do not lose an order: once its events are handled it is decided,
\* however many commits failed, went unacknowledged, or were repeated.
HandledOrderIsDecided ==
    \A o \in Orders : (status[o] # "none" /\ AllHandled(o) /\ edits = 0) =>
        status[o] \in {"completed", "cancelled"} \/ MayBeLost(o)

\* And so are its items: once its events are handled each of them has been sold or
\* given back (product_manager.py:195-312).  About orders whose inventory calls
\* answer, and that do not compete for units; see PendingUnitsAreReserved.
HandledOrderIsSettled ==
    /\ HandledOrderIsDecided
    /\ \A o \in Orders : (status[o] # "none" /\ AllHandled(o) /\ edits = 0) =>
          \/ \A i \in ItemNumbers(o) : effects[o][i].confirm + effects[o][i].release > 0
          \/ MayBeLost(o)

-----------------------------------------------------------------------------
\* README.md:176-178: a failure runs the compensations backwards.  A request
\* that was answered with a failure holds no stock (order_manager.py:246).
RejectedOrderHoldsNoStock ==
    \A o \in Orders : (request[o].stage = "rejected" /\ status[o] = "none") =>
        \A i \in ItemNumbers(o) : effects[o][i].reserve = effects[o][i].release

\* README.md:232: handle_payment_failed changes the status PENDING -> CANCELLED.
\* A completed order is not cancelled (order_manager.py:423-439).
CompletedOrderIsNotCancelled ==
    [][\A o \in Orders : status'[o] = "cancelled" =>
            status[o] \in {"pending", "cancelled"}]_status

\* README.md:279: an order for more than what is left beside the reserved units
\* is refused.  The units that pending orders want are in stock, whatever the
\* quantities of all orders (schemas/order.py:6, product_service.py:328).
PendingUnitsAreInStock ==
    \A p \in Products :
        LET wanted(o) == IF Units(o, p) > 0 THEN Units(o, p) ELSE 0
        IN  MapThenSumSet(wanted, {o \in Orders : status[o] = "pending"}) <= row[p].stock
=============================================================================
