----------------------------- MODULE OrderManager -----------------------------
(***************************************************************************)
(* The order service: OrderManager.create_order, the handlers of the       *)
(* payment events, and update_order_status                                 *)
(* (fastapi_order/app/services/order_manager.py), with the gRPC product    *)
(* client as create_order sees it.                                         *)
(***************************************************************************)
EXTENDS SagaState

\* handle_payment_success tries max_retries + 1 times (order_manager.py:43,304)
MaxRetries == 3

RequestStage == {"new", "reserving", "pricing", "storing", "failing",
                 "accepted", "rejected", "lost"}

OrderStatus == {"pending", "processing", "completed", "cancelled", "failed"}

HandlerStage == {"queued", "update", "done", "acked"}

OrderTypeOK ==
    /\ request \in [Orders -> [stage : RequestStage, item : Nat]]
    /\ status \in [Orders -> OrderStatus \cup {"none"}]
    /\ handler \in [Orders -> [1 .. MaxPayEvents ->
                       [stage : HandlerStage, tries : 0 .. MaxRetries]]]

OrderInit ==
    /\ request = [o \in Orders |-> [stage |-> "new", item |-> 1]]
    /\ status = [o \in Orders |-> "none"]
    /\ handler = [o \in Orders |-> [i \in 1 .. MaxPayEvents |->
                     [stage |-> "queued", tries |-> 0]]]

RequestTo(o, stage) == request' = [request EXCEPT ![o].stage = stage]

-----------------------------------------------------------------------------
(* create_order *)

\* get_user answers, or any failure of it becomes an HTTPException.
ValidateUser(o) ==
    /\ request[o].stage = "new"
    /\ \/ NoFault /\ RequestTo(o, "reserving")
       \/ Fault("user") /\ RequestTo(o, "failing")
    /\ UNCHANGED <<status, handler, paymentVars, productVars, stockVars, logVars, edits>>

\* Mutant of ReserveItem: the answer of the product service is not looked at.
ReserveItemUnchecked(o) ==
    LET i == request[o].item IN
    /\ request[o].stage = "reserving"
    /\ \/ NoFault /\ Apply("reserve", o, i)
       \/ NoFault /\ Refuses("reserve", o, i) /\ UNCHANGED stockVars
       \/ Fault("call") /\ UNCHANGED stockVars
       \/ Fault("lostReply") /\ Apply("reserve", o, i)
    /\ RequestTo(o, "pricing")
    /\ UNCHANGED <<status, handler, paymentVars, productVars, logVars, edits>>

\* check_and_reserve_inventory for the next item.  The client turns every
\* error, its own timeout included, into (False, message); the server may
\* have reserved all the same, and the item is then not in reserved_items.
ReserveItem(o) ==
    LET i == request[o].item IN
    /\ request[o].stage = "reserving"
    /\ \/ NoFault /\ Apply("reserve", o, i) /\ RequestTo(o, "pricing")
       \/ NoFault /\ Refuses("reserve", o, i) /\ RequestTo(o, "failing") /\ UNCHANGED stockVars
       \/ Fault("call") /\ RequestTo(o, "failing") /\ UNCHANGED stockVars
       \/ Fault("lostReply") /\ Apply("reserve", o, i) /\ RequestTo(o, "failing")
    /\ UNCHANGED <<status, handler, paymentVars, productVars, logVars, edits>>

\* get_product for the item just reserved; then the next item, or the order.
PriceItem(o) ==
    LET i == request[o].item IN
    /\ request[o].stage = "pricing"
    /\ \/ /\ NoFault
          /\ request' = [request EXCEPT ![o] =
                IF i = Len(Items[o]) THEN [stage |-> "storing", item |-> i]
                                     ELSE [stage |-> "reserving", item |-> i + 1]]
       \/ Fault("lookup") /\ RequestTo(o, "failing")
    /\ UNCHANGED <<status, handler, paymentVars, productVars, stockVars, logVars, edits>>

\* One transaction: the order as PENDING, its items, the order_created row.
StoreOrder(o) ==
    /\ request[o].stage = "storing"
    /\ \/ /\ \/ NoFault /\ RequestTo(o, "accepted")
             \/ Fault("uncertain") /\ RequestTo(o, "failing")
          /\ status' = [status EXCEPT ![o] = "pending"]
          /\ EmitOrder(o, "order_created")
       \/ Fault("db") /\ RequestTo(o, "failing") /\ UNCHANGED <<status, orderLog>>
    /\ UNCHANGED <<handler, paymentVars, productVars, stockVars, payLog, edits>>

\* The except clauses: for each reserved item cancel_inventory_reservation is
\* called, which ProductClient does not have; the AttributeError is logged and
\* the client is answered with the failure.
CompensateRequest(o) ==
    /\ request[o].stage = "failing"
    /\ RequestTo(o, "rejected")
    /\ NoFault
    /\ UNCHANGED <<status, handler, paymentVars, productVars, stockVars, logVars, edits>>

\* The process dies with the request, or the client's disconnect cancels it.
LoseRequest(o) ==
    /\ request[o].stage \in {"reserving", "pricing", "storing", "failing"}
    /\ Fault("abort")
    /\ RequestTo(o, "lost")
    /\ UNCHANGED <<status, handler, paymentVars, productVars, stockVars, logVars, edits>>

-----------------------------------------------------------------------------
(* handle_payment_success, handle_payment_failed *)

HandlerTo(o, i, stage) == handler' = [handler EXCEPT ![o][i].stage = stage]

\* What the handler of an event turns the order into, and what it emits.
Target(type)  == IF type = "payment_success" THEN "completed" ELSE "cancelled"
Outcome(type) == IF type = "payment_success" THEN "order_success" ELSE "order_failed"

\* The loop has reached the event when those before it on its partition are
\* acknowledged.
Reached(o, i) ==
    \A j \in 1 .. i - 1 :
        payLog[o][j].key = payLog[o][i].key => handler[o][j].stage = "acked"

\* The handler's transaction begins with a plain SELECT of the order: without
\* the order, or with the order already in the target status, it returns.
ReadOrder(o, i) ==
    /\ i \in DOMAIN payLog[o]
    /\ Reached(o, i)
    /\ handler[o][i].stage = "queued"
    /\ IF status[o] \in {"none", Target(payLog[o][i].type)}
       THEN HandlerTo(o, i, "done")
       ELSE HandlerTo(o, i, "update")
    /\ NoFault
    /\ UNCHANGED <<request, status, paymentVars, productVars, stockVars, logVars, edits>>

\* Mutant of UpdateOrder: the outbox row is forgotten.
UpdateOrderSilently(o, i) ==
    /\ handler[o][i].stage = "update"
    /\ status' = [status EXCEPT ![o] = Target(payLog[o][i].type)]
    /\ HandlerTo(o, i, "done")
    /\ NoFault
    /\ UNCHANGED <<request, paymentVars, productVars, stockVars, logVars, edits>>

\* It commits the new status, whatever the status has become since, with the
\* outbox row.
UpdateOrder(o, i) ==
    /\ handler[o][i].stage = "update"
    /\ status' = [status EXCEPT ![o] = Target(payLog[o][i].type)]
    /\ EmitOrder(o, Outcome(payLog[o][i].type))
    /\ HandlerTo(o, i, "done")
    /\ NoFault
    /\ UNCHANGED <<request, paymentVars, productVars, stockVars, payLog, edits>>

\* Mutant of AfterFailure: one attempt less.
AfterFailureOnceLess(o, i) ==
    handler' = [handler EXCEPT ![o][i] =
        IF payLog[o][i].type = "payment_success" /\ @.tries + 1 < MaxRetries
        THEN [stage |-> "queued", tries |-> @.tries + 1]
        ELSE [@ EXCEPT !.stage = "done"]]

\* The exception of a failed transaction.  payment_success is tried again, from
\* the SELECT; after the last attempt an order_compensation row is written,
\* which has no consumer.  payment_failed is not: the event goes to
\* failed_events, which nobody reads.
AfterFailure(o, i) ==
    handler' = [handler EXCEPT ![o][i] =
        IF payLog[o][i].type = "payment_success" /\ @.tries < MaxRetries
        THEN [stage |-> "queued", tries |-> @.tries + 1]
        ELSE [@ EXCEPT !.stage = "done"]]

UpdateFails(o, i) ==
    /\ handler[o][i].stage = "update"
    /\ \/ Fault("db") /\ UNCHANGED <<status, orderLog>>
       \/ /\ Fault("uncertain")
          /\ status' = [status EXCEPT ![o] = Target(payLog[o][i].type)]
          /\ EmitOrder(o, Outcome(payLog[o][i].type))
    /\ AfterFailure(o, i)
    /\ UNCHANGED <<request, paymentVars, productVars, stockVars, payLog, edits>>

\* The consume loop commits the offset.
AckPayment(o, i) ==
    /\ handler[o][i].stage = "done"
    /\ HandlerTo(o, i, "acked")
    /\ NoFault
    /\ UNCHANGED <<request, status, paymentVars, productVars, stockVars, logVars, edits>>

\* The consumer dies before that: the event is handled again from the start.
RedeliverPayment(o, i) ==
    /\ handler[o][i].stage \in {"update", "done"}
    /\ Fault("crash")
    /\ handler' = [handler EXCEPT ![o][i] = [stage |-> "queued", tries |-> 0]]
    /\ UNCHANGED <<request, status, paymentVars, productVars, stockVars, logVars, edits>>

-----------------------------------------------------------------------------
\* update_order_status: PUT /orders/{id}/status sets any status, emits nothing.
EditStatus(o, s) ==
    /\ edits < MaxEdits
    /\ edits' = edits + 1
    /\ status[o] # "none"
    /\ status' = [status EXCEPT ![o] = s]
    /\ NoFault
    /\ UNCHANGED <<request, handler, paymentVars, productVars, stockVars, logVars>>

-----------------------------------------------------------------------------
\* What the order service does by itself once a request or an event is there.
RequestStep(o) ==
    ValidateUser(o) \/ ReserveItem(o) \/ PriceItem(o) \/ StoreOrder(o)
        \/ CompensateRequest(o)

HandlerStep(o, i) ==
    ReadOrder(o, i) \/ UpdateOrder(o, i) \/ UpdateFails(o, i) \/ AckPayment(o, i)

OrderNext ==
    \E o \in Orders :
        \/ RequestStep(o)
        \/ LoseRequest(o)
        \/ \E i \in 1 .. MaxPayEvents : HandlerStep(o, i) \/ RedeliverPayment(o, i)
        \/ \E s \in OrderStatus : EditStatus(o, s)
=============================================================================
