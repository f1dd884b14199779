------------------------------ MODULE SagaState ------------------------------
(***************************************************************************)
(* The state the order saga is made of, and the parts of the environment   *)
(* its services share: the outbox table relayed to Kafka, the inventory    *)
(* rows, and the faults.  OrderManager, PaymentManager and ProductManager  *)
(* extend this module with the actions of one service each; OrderSaga      *)
(* composes them.                                                          *)
(*                                                                         *)
(* Outbox, Debezium and Kafka.  A service commits an outbox row in the     *)
(* transaction that changes its tables; Debezium (external) relays the     *)
(* rows in commit order, keyed by aggregateid; a consumer may be           *)
(* arbitrarily late.  The delay of the relay cannot be told from the delay *)
(* of the consumer, so a committed row is in the log of its key at once:   *)
(*   - order events have the order as key: orderLog[o] is consumed in      *)
(*     order by the payment and by the product group;                      *)
(*   - payment_success has the payment as key, payment_failed the order:   *)
(*     the events of payLog[o] are handled in order when their keys are    *)
(*     equal, and otherwise, lying on different partitions, in any order   *)
(*     and side by side.                                                   *)
(* A consumer acknowledges an event after its handler is done and handles  *)
(* it again when it crashes, or loses the partition, in between; see       *)
(* EventConsumer for the loop that does this.                              *)
(*                                                                         *)
(* Inventory calls take effect in one step, as AtomicInventory promises    *)
(* and Inventory implements.                                               *)
(***************************************************************************)
EXTENDS StockRow, Sequences, FiniteSets

CONSTANTS Orders,        \* one element per POST /orders request
          Products,
          Items,         \* Items[o]: the order's items, [product, qty] each
          InitialStock,  \* InitialStock[p]
          Refused,       \* orders whose amount the payment service refuses (35000)
          Faults,        \* kinds of fault that may occur
          MaxFaults,     \* bound: number of faults
          MaxEdits       \* bound: requests to PUT /orders/{id}/status and POST /payments

FaultKinds == {"user",       \* user service refuses or cannot be reached
               "lookup",     \* GetProduct fails after the reservation
               "call",       \* an inventory call fails without effect
               "lostReply",  \* an inventory call takes effect and is answered False
               "db",         \* a transaction of the order or payment service fails
               "uncertain",  \* a transaction commits and its caller sees an error
               "abort",      \* a request is cancelled, or dies with its process
               "crash",      \* a consumer dies, or loses its partition
               "repeat"}     \* Debezium restarts and relays a row again

\* OrderItemCreate: any integer is a quantity.
Item == [product : Products, qty : Int]

\* One element per request that has been made.
ASSUME OrdersAssumption == IsFiniteSet(Orders)
ASSUME ItemsAssumption ==
    /\ Items \in [Orders -> Seq(Item)]
    /\ \A o \in Orders : Items[o] # <<>>
ASSUME StockAssumption == InitialStock \in [Products -> Nat]
ASSUME RefusedAssumption == Refused \subseteq Orders
ASSUME FaultsAssumption ==
    Faults \subseteq FaultKinds /\ MaxFaults \in Nat /\ MaxEdits \in Nat

VARIABLES
    request,   \* order service, create_order: [stage, item]
    status,    \* order service: the order row's status, "none" before it exists
    handler,   \* order service: handler[o][i] works on payLog[o][i]
    payments,  \* payment service: number of payment rows of the order
    charge,    \* payment service: its work on orderLog[o], [pos, stage, tries]
    row,       \* product service: the inventory rows
    settle,    \* product service: its work on orderLog[o], [pos, stage, item]
    effects,   \* history: how often each operation took effect for each item of o
    orderLog,  \* order events of o, in the order of the outbox
    payLog,    \* payment events of o, [type, key] each
    faults,    \* faults so far
    edits      \* such requests so far

orderVars   == <<request, status, handler>>
paymentVars == <<payments, charge>>
productVars == <<settle>>
stockVars   == <<row, effects>>
logVars     == <<orderLog, payLog>>
vars == <<orderVars, paymentVars, productVars, stockVars, logVars, faults, edits>>

ItemNumbers(o) == 1 .. Len(Items[o])

\* Each payment event beyond the first of an order costs a fault or a request.
MaxPayEvents == 1 + MaxFaults + MaxEdits

\* A fault of this kind may happen now, and is counted.
Fault(kind) ==
    /\ kind \in Faults
    /\ faults < MaxFaults
    /\ faults' = faults + 1

NoFault == UNCHANGED faults

\* The inventory carries out op for item i of order o.
Apply(op, o, i) ==
    LET p == Items[o][i].product
        q == Items[o][i].qty
    IN  /\ Permitted(op, row[p], q)
        /\ row' = [row EXCEPT ![p] = Effect(op, @, q)]
        /\ effects' = [effects EXCEPT ![o][i][op] = @ + 1]

\* The inventory refuses op for item i of order o.
Refuses(op, o, i) ==
    ~Permitted(op, row[Items[o][i].product], Items[o][i].qty)

\* An outbox row of aggregatetype "order" (resp. "payment") is committed; the
\* key of a payment event is a payment of the order, or 0 for the order itself.
EmitOrder(o, type) == orderLog' = [orderLog EXCEPT ![o] = Append(@, type)]
EmitPayment(o, type, key) ==
    payLog' = [payLog EXCEPT ![o] = Append(@, [type |-> type, key |-> key])]

-----------------------------------------------------------------------------
\* Debezium restarts from an offset one row back and relays that row again.
RepeatOrderEvent(o) ==
    /\ Fault("repeat")
    /\ orderLog[o] # <<>>
    /\ EmitOrder(o, orderLog[o][Len(orderLog[o])])
    /\ UNCHANGED <<orderVars, paymentVars, productVars, stockVars, payLog, edits>>

RepeatPaymentEvent(o) ==
    /\ Fault("repeat")
    /\ payLog[o] # <<>>
    /\ payLog' = [payLog EXCEPT ![o] = Append(@, @[Len(@)])]
    /\ UNCHANGED <<orderVars, paymentVars, productVars, stockVars, orderLog, edits>>
=============================================================================
