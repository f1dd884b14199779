---------------------------- MODULE PaymentManager ----------------------------
(***************************************************************************)
(* The payment service's part of the saga: PaymentManager.                 *)
(* handle_order_created (fastapi_payment/app/services/payment_manager.py)  *)
(* and the PaymentService.create_payment it calls (payment_service.py).    *)
(*                                                                         *)
(* charge[o] is the work on the order events of o, which have one key and  *)
(* so one partition: `pos` of them are acknowledged.                       *)
(***************************************************************************)
EXTENDS SagaState

\* handle_order_created calls create_payment max_retries times.
MaxAttempts == 3

ChargeStage == {"idle", "creating", "compensating", "done"}

PaymentTypeOK ==
    /\ payments \in [Orders -> Nat]
    /\ charge \in [Orders ->
           [pos : Nat, stage : ChargeStage, tries : 0 .. MaxAttempts]]

PaymentInit ==
    /\ payments = [o \in Orders |-> 0]
    /\ charge = [o \in Orders |-> [pos |-> 0, stage |-> "idle", tries |-> 0]]

ChargeTo(o, stage) == charge' = [charge EXCEPT ![o].stage = stage]

\* The next order event reaches the loop: only order_created has a handler, the
\* others are committed as they are.
TakeOrderEvent(o) ==
    /\ charge[o].stage = "idle"
    /\ charge[o].pos < Len(orderLog[o])
    /\ \/ /\ orderLog[o][charge[o].pos + 1] = "order_created"
          /\ charge' = [charge EXCEPT ![o].stage = "creating", ![o].tries = 0]
       \/ /\ orderLog[o][charge[o].pos + 1] # "order_created"
          /\ charge' = [charge EXCEPT ![o].pos = @ + 1]
    /\ NoFault
    /\ UNCHANGED <<payments, orderVars, productVars, stockVars, logVars, edits>>

\* create_payment: one transaction for the payment, PENDING, and its
\* payment_success row.  No earlier payment of the order is looked for.
InsertPayment(o) ==
    /\ payments' = [payments EXCEPT ![o] = @ + 1]
    /\ EmitPayment(o, "payment_success", payments[o] + 1)

\* Mutant of CreatePayment: a second payment of the order is taken for a failure.
CreatePaymentOnce(o) ==
    /\ charge[o].stage = "creating"
    /\ o \notin Refused
    /\ IF payments[o] = 0
       THEN InsertPayment(o)
       ELSE EmitPayment(o, "payment_failed", 0) /\ UNCHANGED payments
    /\ ChargeTo(o, "done")
    /\ NoFault
    /\ UNCHANGED <<orderVars, productVars, stockVars, orderLog, edits>>

CreatePayment(o) ==
    /\ charge[o].stage = "creating"
    /\ o \notin Refused
    /\ InsertPayment(o)
    /\ ChargeTo(o, "done")
    /\ NoFault
    /\ UNCHANGED <<orderVars, productVars, stockVars, orderLog, edits>>

\* Mutant of CreateRaises: one attempt too many.
CreateRaisesOnceMore(o) ==
    /\ charge[o].stage = "creating"
    /\ o \in Refused
    /\ charge' = [charge EXCEPT ![o].tries = @ + 1,
                                ![o].stage = IF charge[o].tries = MaxAttempts
                                             THEN "compensating" ELSE "creating"]
    /\ NoFault
    /\ UNCHANGED <<payments, orderVars, productVars, stockVars, logVars, edits>>

\* create_payment raises - the amount is the refused one, or the transaction
\* fails, or commits and is not acknowledged - and is tried again.
CreateRaises(o) ==
    /\ charge[o].stage = "creating"
    /\ \/ o \in Refused /\ NoFault /\ UNCHANGED <<payments, payLog>>
       \/ o \notin Refused /\ Fault("db") /\ UNCHANGED <<payments, payLog>>
       \/ o \notin Refused /\ Fault("uncertain") /\ InsertPayment(o)
    /\ charge' = [charge EXCEPT ![o].tries = @ + 1,
                                ![o].stage = IF charge[o].tries + 1 = MaxAttempts
                                             THEN "compensating" ELSE "creating"]
    /\ UNCHANGED <<orderVars, productVars, stockVars, orderLog, edits>>

\* create_compensation_event: the payment_failed row; its failure is logged.
Compensate(o) ==
    /\ charge[o].stage = "compensating"
    /\ \/ NoFault /\ EmitPayment(o, "payment_failed", 0)
       \/ Fault("db") /\ UNCHANGED payLog
    /\ ChargeTo(o, "done")
    /\ UNCHANGED <<payments, orderVars, productVars, stockVars, orderLog, edits>>

\* Mutant of AckOrderCreated: the next event is taken without storing the offset.
AckOrderCreatedForgotten(o) ==
    /\ charge[o].stage = "done"
    /\ charge' = [charge EXCEPT ![o].stage = "idle", ![o].tries = 0]
    /\ NoFault
    /\ UNCHANGED <<payments, orderVars, productVars, stockVars, logVars, edits>>

\* The consume loop commits the offset.
AckOrderCreated(o) ==
    /\ charge[o].stage = "done"
    /\ charge' = [charge EXCEPT ![o] = [pos |-> @.pos + 1, stage |-> "idle", tries |-> 0]]
    /\ NoFault
    /\ UNCHANGED <<payments, orderVars, productVars, stockVars, logVars, edits>>

\* Mutant of RedeliverOrderCreated: the offset was stored before the event was
\* handled.
SkipOrderCreated(o) ==
    /\ charge[o].stage # "idle"
    /\ Fault("crash")
    /\ charge' = [charge EXCEPT ![o] = [pos |-> @.pos + 1, stage |-> "idle", tries |-> 0]]
    /\ UNCHANGED <<payments, orderVars, productVars, stockVars, logVars, edits>>

\* The consumer dies before that: the event is handled again from the start.
RedeliverOrderCreated(o) ==
    /\ charge[o].stage # "idle"
    /\ Fault("crash")
    /\ charge' = [charge EXCEPT ![o].stage = "idle", ![o].tries = 0]
    /\ UNCHANGED <<payments, orderVars, productVars, stockVars, logVars, edits>>

\* POST /payments and POST /payments/process: create_payment for any order a
\* client names (it learns the id when the order is stored), whatever was paid
\* for it or decided about it before.  The
\* payment_success is out before process_payment asks the gateway; what becomes
\* of the charge (payment_service.py:382-416) is not told to the saga.
PostPayment(o) ==
    /\ status[o] # "none"
    /\ edits < MaxEdits
    /\ edits' = edits + 1
    /\ InsertPayment(o)
    /\ NoFault
    /\ UNCHANGED <<charge, orderVars, productVars, stockVars, orderLog>>

-----------------------------------------------------------------------------
PaymentStep(o) ==
    \/ TakeOrderEvent(o)
    \/ CreatePayment(o)
    \/ CreateRaises(o)
    \/ Compensate(o)
    \/ AckOrderCreated(o)

PaymentNext ==
    \E o \in Orders : PaymentStep(o) \/ RedeliverOrderCreated(o) \/ PostPayment(o)
=============================================================================
