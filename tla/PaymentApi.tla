------------------------------ MODULE PaymentApi ------------------------------
(***************************************************************************)
(* The HTTP interface of the payment service:                              *)
(* fastapi_payment/app/api/endpoints/payment_api.py and the methods of     *)
(* PaymentService it calls (app/services/payment_service.py).  Each        *)
(* request has a session of its own; writes go to the primary, reads to a  *)
(* secondary that replicates its commits in their order.                   *)
(*                                                                         *)
(* Nearly every endpoint reads an attribute its object does not have       *)
(* (created_payment.id, payment.id, payment_update.status, transaction.id, *)
(* p_item.status), or a variable that is bound only for a list with        *)
(* entries, and so answers 500 whatever was stored; charges with data can  *)
(* be stored and not listed.  PaymentService.update_payment and the last   *)
(* part of process_payment are never reached.                              *)
(*                                                                         *)
(* A database is the log of its commits; the id of a payment is the        *)
(* position of its commit.                                                 *)
(***************************************************************************)
EXTENDS Naturals, Sequences, FiniteSets

CONSTANT HttpRequests  \* HTTP requests

ASSUME HttpRequestsAssumption == IsFiniteSet(HttpRequests)

VARIABLES log,        \* commits of the primary
          replicated, \* how many of them the secondary has
          req         \* req[r]: the request r

apiVars == <<log, replicated, req>>

Kinds   == {"create", "process", "charge", "update", "get", "transactions", "list"}
\* round(amount): 35000 and 36000 are the simulated failures
Amounts == {"any", "35000", "36000"}
Ids     == 1 .. 2 * Cardinality(HttpRequests)
Answers == {"none", "200", "400", "404", "500", "lost"}

Request == [kind : Kinds \cup {"none"}, at : {"idle", "service", "gateway", "done"},
            amount : Amounts, payment : Ids, answer : Answers]

\* A commit: a payment, with its payment_success row if it is announced, or a
\* row of payment_transactions, with request or response data (stored as JSON)
\* or without.
PaymentRow(r, announced) ==
    [row |-> "payment", by |-> r, announced |-> announced]
ChargeRow(r, payment, result, data) ==
    [row |-> "charge", by |-> r, payment |-> payment, result |-> result, data |-> data]

ApiTypeOK ==
    /\ log \in Seq([row : {"payment"}, by : HttpRequests, announced : BOOLEAN]
                   \cup [row : {"charge"}, by : HttpRequests, payment : Ids,
                         result : {"success", "failed"}, data : BOOLEAN])
    /\ replicated \in 0 .. Len(log)
    /\ req \in [HttpRequests -> Request]

Payments(n)   == {i \in 1 .. n : log[i].row = "payment"}
Charges(n, p) == {i \in 1 .. n : log[i].row = "charge" /\ log[i].payment = p}

ApiInit ==
    /\ log = <<>>
    /\ replicated = 0
    /\ req = [r \in HttpRequests |-> [kind |-> "none", at |-> "idle", amount |-> "any",
                                     payment |-> 1, answer |-> "none"]]

Store(row) == log' = Append(log, row)

AnswerWith(r, answer) == req' = [req EXCEPT ![r].at = "done", ![r].answer = answer]

-----------------------------------------------------------------------------
\* A client sends a request; a process request is routed like the others.
SendRequest(r) ==
    /\ req[r].at = "idle"
    /\ \E kind \in Kinds, amount \in Amounts, p \in Ids :
         /\ kind \in {"create", "process"} \/ amount = "any"
         /\ kind \in {"charge", "get", "transactions"} \/ p = 1
         /\ req' = [req EXCEPT ![r].kind = kind, ![r].at = "service",
                               ![r].amount = amount, ![r].payment = p]
    /\ UNCHANGED <<log, replicated>>

Creates(r) == req[r].at = "service" /\ req[r].kind \in {"create", "process"}

\* Mutant of SimulateFailure: the amount is looked at after the transaction.
SimulateFailureLate(r) ==
    /\ Creates(r)
    /\ req[r].amount = "35000"
    /\ Store(PaymentRow(r, TRUE))
    /\ AnswerWith(r, "500")
    /\ UNCHANGED replicated

SimulateFailure(r) ==
    /\ Creates(r)
    /\ req[r].amount = "35000"
    /\ AnswerWith(r, "500")
    /\ UNCHANGED <<log, replicated>>

\* After create_payment the endpoint POST /payments fails on created_payment.id;
\* process_payment goes on to the gateway.
AfterCreate(r) ==
    IF req[r].kind = "create" THEN AnswerWith(r, "500")
    ELSE req' = [req EXCEPT ![r].at = "gateway", ![r].payment = Len(log')]

\* Mutant of CreatePayment: the outbox row is written by a transaction of its
\* own, which may fail.
CreatePaymentThenAnnounce(r) ==
    /\ Creates(r)
    /\ req[r].amount # "35000"
    /\ \E announced \in BOOLEAN : Store(PaymentRow(r, announced))
    /\ AfterCreate(r)
    /\ UNCHANGED replicated

\* The payment and its payment_success row are one transaction.
CreatePayment(r) ==
    /\ Creates(r)
    /\ req[r].amount # "35000"
    /\ Store(PaymentRow(r, TRUE))
    /\ AfterCreate(r)
    /\ UNCHANGED replicated

\* The transaction fails, or only its acknowledgement is lost.
CreateFails(r) ==
    /\ Creates(r)
    /\ req[r].amount # "35000"
    /\ \/ UNCHANGED log
       \/ Store(PaymentRow(r, TRUE))
    /\ AnswerWith(r, "500")
    /\ UNCHANGED replicated

\* Mutant of ChargeAtGateway: the charge is stored before the gateway answers.
ChargeAtGatewayPending(r) ==
    /\ req[r].at = "gateway"
    /\ Store(ChargeRow(r, req[r].payment, "pending", TRUE))
    /\ AnswerWith(r, "500")
    /\ UNCHANGED replicated

\* The simulated gateway; then create_transaction commits the charge, with what
\* was sent to the gateway and what it answered, and fails on transaction.id, so
\* update_payment is not reached.
ChargeAtGateway(r) ==
    /\ req[r].at = "gateway"
    /\ LET result == IF req[r].amount = "36000" THEN "failed" ELSE "success"
       IN  \/ Store(ChargeRow(r, req[r].payment, result, TRUE))
           \/ UNCHANGED log
    /\ AnswerWith(r, "500")
    /\ UNCHANGED replicated

\* POST /payments/{id}/transactions, with any result: the payment must exist
\* (foreign key).  A body that names another payment is refused with 400.
AddCharge(r) ==
    /\ req[r].at = "service" /\ req[r].kind = "charge"
    /\ \/ /\ req[r].payment \in Payments(Len(log))
          /\ \E result \in {"success", "failed"}, data \in BOOLEAN :
                 Store(ChargeRow(r, req[r].payment, result, data))
          /\ AnswerWith(r, "500")
       \/ /\ UNCHANGED log
          /\ \E answer \in {"400", "500"} : AnswerWith(r, answer)
    /\ UNCHANGED replicated

\* PUT /payments/{id} fails on payment_update.status before the service.
UpdatePayment(r) ==
    /\ req[r].at = "service" /\ req[r].kind = "update"
    /\ AnswerWith(r, "500")
    /\ UNCHANGED <<log, replicated>>

\* GET /payments/{id}/transactions needs a charge (type_counts_log), and none with
\* data: TransactionResponse.from_orm wants a dict and finds the JSON text.
Listable(charges) == charges # {} /\ \A i \in charges : ~ log[i].data

\* The reads: GET /payments, /payments/{id} and /payments/{id}/transactions.
Read(r) ==
    /\ req[r].at = "service"
    /\ \/ req[r].kind = "list" /\ AnswerWith(r, "500")
       \/ /\ req[r].kind = "get"
          /\ AnswerWith(r, IF req[r].payment \in Payments(replicated) THEN "500" ELSE "404")
       \/ /\ req[r].kind = "transactions"
          /\ AnswerWith(r, IF Listable(Charges(replicated, req[r].payment)) THEN "200" ELSE "500")
    /\ UNCHANGED <<log, replicated>>

\* The process dies, or the client goes away and the request is cancelled.
LoseRequest(r) ==
    /\ req[r].at \in {"service", "gateway"}
    /\ AnswerWith(r, "lost")
    /\ UNCHANGED <<log, replicated>>

Replicate ==
    /\ replicated < Len(log)
    /\ replicated' = replicated + 1
    /\ UNCHANGED <<log, req>>

ApiNext ==
    \/ \E r \in HttpRequests :
         \/ SendRequest(r) \/ SimulateFailure(r) \/ CreatePayment(r) \/ CreateFails(r)
         \/ ChargeAtGateway(r) \/ AddCharge(r) \/ UpdatePayment(r) \/ Read(r) \/ LoseRequest(r)
    \/ Replicate

ApiSpec == ApiInit /\ [][ApiNext]_apiVars

-----------------------------------------------------------------------------
(* Properties *)

\* Wherever process_payment breaks off (payment_service.py:380, 412): a charge
\* is of a stored payment whose payment_success is out, a charge process_payment
\* made is of the payment of the same request, and a try never charges
\* the payment of an earlier try.
ChargesFollowPayments ==
    \A i \in 1 .. Len(log) : log[i].row = "charge" =>
      LET p == log[i].payment IN
        /\ p < i /\ log[p].row = "payment" /\ log[p].announced
        /\ req[log[i].by].kind = "process" =>
             /\ log[p].by = log[i].by
             /\ \A j \in Charges(Len(log), p) : req[log[j].by].kind = "process" => j = i

\* A request that is refused (400, 404, the amount 35000), or that only changes
\* or reads a payment, leaves nothing in the database.
RefusedLeavesNothing ==
    \A i \in 1 .. Len(log) : LET r == req[log[i].by] IN
        /\ r.kind \in {"create", "process", "charge"}
        /\ r.amount # "35000"
        /\ r.answer \notin {"400", "404"}
=============================================================================
