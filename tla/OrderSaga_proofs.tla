--------------------------- MODULE OrderSaga_proofs ---------------------------
(***************************************************************************)
(* Proofs about OrderSaga, for any orders and items, any faults and any    *)
(* number of them.                                                         *)
(*                                                                         *)
(*   TInv         types, and that work is on an item or event that exists  *)
(*   RInv         a request has reserved its items up to the current one   *)
(*   CInv         each event in the logs, and each settled item, has its   *)
(*                cause: payment -> payment event -> order event -> item   *)
(*   AInv         without manual edits the status is announced             *)
(*   TriesCost    an attempt to pay is lost to a fault, or is refused      *)
(*   OneDecision  without failed transactions, or with too few of them,    *)
(*                only a refused order's payment is given up               *)
(*   CountInv     payment events, and those still to come, are paid for    *)
(*                with faults and requests                                 *)
(*   DInv         an event that is handled has led to the next one, or to  *)
(*                a decision, unless every attempt failed                  *)
(*   ReservedIsHeld    the reserved units of a product are, to the unit,   *)
(*                     those the orders hold, whatever faults occur        *)
(*   TakenIsAccounted  and so is what has left its stock                   *)
(*   OnceInv      when no fault makes anything happen twice, an order is   *)
(*                charged, decided and settled once, in that order         *)
(*   PromiseInv   all that the refinement of OrderPromise rests on         *)
(*                                                                         *)
(* The lemmas named after a variable (StatusCause, EffectCause, ...) say   *)
(* once which steps change it and how; the invariants rest on those.       *)
(***************************************************************************)
EXTENDS OrderSaga, WellFoundedInduction, FiniteSetTheorems, TLAPS

OrderEvents == {"order_created", "order_success", "order_failed"}
PaymentEvents == [type : {"payment_success", "payment_failed"}, key : Nat]

\* What the events of o have announced so far.
Announced(o) == {orderLog[o][k] : k \in DOMAIN orderLog[o]}

Handlers == [stage : HandlerStage, tries : 0 .. MaxRetries]
Charges == [pos : Nat, stage : ChargeStage, tries : 0 .. MaxAttempts]
Settles == [pos : Nat, stage : SettleStage, item : Nat]

\* Each variable is of its type, and work is always on an item or an event that
\* is there.
RequestOK ==
    /\ request \in [Orders -> [stage : RequestStage, item : Nat]]
    /\ \A o \in Orders :
          request[o].stage \in {"new", "reserving", "pricing"} => request[o].item \in ItemNumbers(o)

StatusOK == status \in [Orders -> OrderStatus \cup {"none"}]

HandlerOK ==
    /\ handler \in [Orders -> [1 .. MaxPayEvents ->
                       [stage : HandlerStage, tries : 0 .. MaxRetries]]]
    /\ \A o \in Orders : \A i \in 1 .. MaxPayEvents :
          handler[o][i].stage = "update" => i \in DOMAIN payLog[o]

ChargeOK ==
    /\ charge \in [Orders -> [pos : Nat, stage : ChargeStage, tries : 0 .. MaxAttempts]]
    /\ \A o \in Orders : charge[o].stage = "creating" => charge[o].tries < MaxAttempts

SettleOK ==
    /\ settle \in [Orders -> [pos : Nat, stage : SettleStage, item : Nat]]
    /\ \A o \in Orders : settle[o].stage = "working" =>
          /\ settle[o].item \in ItemNumbers(o)
          /\ settle[o].pos + 1 \in DOMAIN orderLog[o]
          /\ orderLog[o][settle[o].pos + 1] # "order_created"

StockOK ==
    /\ row \in [Products -> Row]
    /\ effects = [o \in Orders |-> effects[o]]
    /\ \A o \in Orders : effects[o] \in [ItemNumbers(o) -> [Ops -> Nat]]

PaymentsOK == payments \in [Orders -> Nat]

LogsOK ==
    /\ orderLog \in [Orders -> Seq(OrderEvents)]
    /\ payLog \in [Orders -> Seq(PaymentEvents)]

BoundsOK == faults \in 0 .. MaxFaults /\ edits \in 0 .. MaxEdits

TInv == /\ RequestOK /\ StatusOK /\ HandlerOK
        /\ PaymentsOK /\ ChargeOK
        /\ SettleOK
        /\ StockOK /\ LogsOK /\ BoundsOK

-----------------------------------------------------------------------------
LEMMA Bounds == MaxFaults \in Nat /\ MaxEdits \in Nat /\ MaxPayEvents \in Nat
  BY FaultsAssumption DEF MaxPayEvents

LEMMA ItemFacts ==
    ASSUME NEW o \in Orders
    PROVE  /\ Len(Items[o]) \in Nat \ {0}
           /\ 1 \in ItemNumbers(o)
           /\ \A i \in ItemNumbers(o) : Items[o][i].product \in Products /\ Items[o][i].qty \in Int
<1>1. Items[o] \in Seq(Item) /\ Items[o] # <<>>
    BY ItemsAssumption
<1>2. Len(Items[o]) \in Nat \ {0}
    BY <1>1
<1>3. \A i \in 1 .. Len(Items[o]) : Items[o][i] \in Item
    BY <1>1
<1> QED
    BY <1>2, <1>3 DEF Item, ItemNumbers

LEMMA FaultTypeOK ==
    ASSUME faults \in 0 .. MaxFaults, NEW kind, Fault(kind) \/ NoFault
    PROVE  faults' \in 0 .. MaxFaults
  BY Bounds DEF Fault, NoFault

\* An inventory operation on an item touches its product's row and its count.
LEMMA ApplyTypeOK ==
    ASSUME TInv, NEW op \in Ops, NEW o \in Orders, NEW i \in ItemNumbers(o), Apply(op, o, i)
    PROVE  /\ row' \in [Products -> Row]
           /\ effects' = [effects EXCEPT ![o][i][op] = @ + 1]
           /\ effects' = [q \in Orders |-> effects'[q]]
           /\ \A q \in Orders : effects'[q] \in [ItemNumbers(q) -> [Ops -> Nat]]
<1>1. Items[o][i].product \in Products /\ Items[o][i].qty \in Int
    BY ItemFacts
<1>2. row \in [Products -> Row]
    BY DEF TInv, StockOK
<1>3. row' \in [Products -> Row]
  <2> DEFINE p == Items[o][i].product
             r == Effect(op, row[p], Items[o][i].qty)
  <2>1. row' = [row EXCEPT ![p] = r]
      BY DEF Apply
  <2>2. row[p] \in Row
      BY <1>1, <1>2
  <2>3. r \in Row
      BY <1>1, <2>2 DEF Effect, Row, Ops
  <2> HIDE DEF p, r
  <2> QED BY <1>2, <2>1, <2>3
<1>4. effects' = [effects EXCEPT ![o][i][op] = @ + 1]
    BY DEF Apply
<1>5. effects = [q \in Orders |-> effects[q]]
    BY DEF TInv, StockOK
<1>6. effects' = [q \in Orders |-> effects'[q]]
    BY <1>4, <1>5
<1>7. ASSUME NEW q \in Orders PROVE effects'[q] \in [ItemNumbers(q) -> [Ops -> Nat]]
  <2>1. effects[q] \in [ItemNumbers(q) -> [Ops -> Nat]]
      BY DEF TInv, StockOK
  <2> QED BY <1>4, <1>5, <2>1
<1> QED
    BY <1>3, <1>4, <1>6, <1>7

LEMMA AppendFacts ==
    ASSUME NEW S, NEW s \in Seq(S), NEW e \in S
    PROVE  /\ Append(s, e) \in Seq(S)
           /\ Len(s) \in Nat /\ DOMAIN s = 1 .. Len(s) /\ DOMAIN Append(s, e) = 1 .. Len(s) + 1
           /\ \A k \in DOMAIN s : Append(s, e)[k] = s[k]
           /\ \A k \in DOMAIN Append(s, e) : k \in DOMAIN s \/ Append(s, e)[k] = e
           /\ Append(s, e)[Len(s) + 1] = e /\ Len(s) + 1 \in DOMAIN Append(s, e)
  OBVIOUS

\* Events already in a log stay where they are, and a new one is announced.
LEMMA EmitOrderGrows ==
    ASSUME TInv, NEW o \in Orders, NEW type \in OrderEvents, EmitOrder(o, type)
    PROVE  /\ orderLog' \in [Orders -> Seq(OrderEvents)]
           /\ \A q \in Orders : \A k \in DOMAIN orderLog[q] :
                 k \in DOMAIN orderLog'[q] /\ orderLog'[q][k] = orderLog[q][k]
           /\ \A q \in Orders :
                 Announced(q)' = Announced(q) \cup (IF q = o THEN {type} ELSE {})
<1>1. orderLog \in [Orders -> Seq(OrderEvents)]
    BY DEF TInv, LogsOK
<1> DEFINE s == orderLog[o]
           t == Append(s, type)
<1>2. s \in Seq(OrderEvents) /\ orderLog' = [orderLog EXCEPT ![o] = t]
    BY <1>1 DEF EmitOrder
<1>3. /\ t \in Seq(OrderEvents)
      /\ \A k \in DOMAIN s : k \in DOMAIN t /\ t[k] = s[k]
      /\ {t[k] : k \in DOMAIN t} = {s[k] : k \in DOMAIN s} \cup {type}
  <2>1. s \in Seq(OrderEvents)
      BY <1>2
  <2> HIDE DEF s
  <2> QED BY <2>1, AppendFacts
<1>4. orderLog'[o] = t /\ \A q \in Orders : q # o => orderLog'[q] = orderLog[q]
    BY <1>1, <1>2
<1>5. orderLog' \in [Orders -> Seq(OrderEvents)]
    BY <1>1, <1>2, <1>3
<1> HIDE DEF t
<1>6. ASSUME NEW q \in Orders
      PROVE  /\ \A k \in DOMAIN orderLog[q] :
                    k \in DOMAIN orderLog'[q] /\ orderLog'[q][k] = orderLog[q][k]
             /\ Announced(q)' = Announced(q) \cup (IF q = o THEN {type} ELSE {})
  <2>1. CASE q = o
    <3>1. orderLog[q] = s /\ orderLog'[q] = t
        BY <1>4, <2>1
    <3>2. Announced(q) = {s[k] : k \in DOMAIN s}
        BY <3>1 DEF Announced
    <3>3. Announced(q)' = {t[k] : k \in DOMAIN t}
        BY <3>1 DEF Announced
    <3> HIDE DEF s
    <3> QED BY <1>3, <2>1, <3>1, <3>2, <3>3
  <2>2. CASE q # o
      BY <1>4, <2>2 DEF Announced
  <2> QED BY <2>1, <2>2
<1> QED
    BY <1>5, <1>6

LEMMA EmitPaymentGrows ==
    ASSUME TInv, NEW o \in Orders, NEW type \in {"payment_success", "payment_failed"},
           NEW key \in Nat, EmitPayment(o, type, key)
    PROVE  /\ payLog' \in [Orders -> Seq(PaymentEvents)]
           /\ \A q \in Orders : \A k \in DOMAIN payLog[q] :
                 k \in DOMAIN payLog'[q] /\ payLog'[q][k] = payLog[q][k]
           /\ \A q \in Orders :
                 Types(payLog[q])' = Types(payLog[q]) \cup (IF q = o THEN {type} ELSE {})
<1> DEFINE e == [type |-> type, key |-> key]
<1>1. payLog \in [Orders -> Seq(PaymentEvents)] /\ e \in PaymentEvents
    BY DEF TInv, LogsOK, PaymentEvents
<1> DEFINE s == payLog[o]
           t == Append(s, e)
<1>2. s \in Seq(PaymentEvents) /\ payLog' = [payLog EXCEPT ![o] = t]
    BY <1>1 DEF EmitPayment
<1>3. /\ t \in Seq(PaymentEvents)
      /\ \A k \in DOMAIN s : k \in DOMAIN t /\ t[k] = s[k]
      /\ {t[k].type : k \in DOMAIN t} = {s[k].type : k \in DOMAIN s} \cup {type}
  <2>1. s \in Seq(PaymentEvents) /\ e.type = type
      BY <1>2
  <2> HIDE DEF s, e
  <2> QED BY <1>1, <2>1, AppendFacts
<1>4. payLog'[o] = t /\ \A q \in Orders : q # o => payLog'[q] = payLog[q]
    BY <1>1, <1>2
<1>5. payLog' \in [Orders -> Seq(PaymentEvents)]
    BY <1>1, <1>2, <1>3
<1> HIDE DEF t
<1>6. ASSUME NEW q \in Orders
      PROVE  /\ \A k \in DOMAIN payLog[q] :
                    k \in DOMAIN payLog'[q] /\ payLog'[q][k] = payLog[q][k]
             /\ Types(payLog[q])' = Types(payLog[q]) \cup (IF q = o THEN {type} ELSE {})
  <2>1. CASE q = o
    <3>1. payLog'[q] = t /\ payLog[q] = s
        BY <1>4, <2>1
    <3>2. Types(payLog[q])' = {t[k].type : k \in DOMAIN t}
        BY <3>1 DEF Types
    <3>3. Types(payLog[q]) = {s[k].type : k \in DOMAIN s}
        BY <3>1 DEF Types
    <3> HIDE DEF s
    <3> QED BY <1>3, <2>1, <3>1, <3>2, <3>3
  <2>2. CASE q # o
    <3>1. payLog'[q] = payLog[q]
        BY <1>4, <2>2
    <3>2. Types(payLog[q])' = Types(payLog[q])
        BY <3>1 DEF Types
    <3> QED BY <2>2, <3>1, <3>2
  <2> QED BY <2>1, <2>2
<1> QED
    BY <1>5, <1>6

\* The same of a whole step: a log stays as it is or gets one more event.
LogsGrow ==
    \A q \in Orders :
        /\ \A k \in DOMAIN orderLog[q] :
              k \in DOMAIN orderLog'[q] /\ orderLog'[q][k] = orderLog[q][k]
        /\ \A k \in DOMAIN payLog[q] :
              k \in DOMAIN payLog'[q] /\ payLog'[q][k] = payLog[q][k]

LEMMA GrowthOfLogs ==
    ASSUME TInv,
           \/ UNCHANGED orderLog
           \/ \E o \in Orders, type \in OrderEvents : EmitOrder(o, type),
           \/ UNCHANGED payLog
           \/ \E o \in Orders, e \in PaymentEvents : EmitPayment(o, e.type, e.key)
    PROVE  LogsGrow /\ LogsOK'
<1>1. LogsOK
    BY DEF TInv
<1>2. /\ orderLog' \in [Orders -> Seq(OrderEvents)]
      /\ \A q \in Orders : \A k \in DOMAIN orderLog[q] :
            k \in DOMAIN orderLog'[q] /\ orderLog'[q][k] = orderLog[q][k]
  <2>1. CASE UNCHANGED orderLog
      BY <1>1, <2>1 DEF LogsOK
  <2>2. ASSUME NEW o \in Orders, NEW type \in OrderEvents, EmitOrder(o, type) PROVE <1>2
      BY <2>2, EmitOrderGrows
  <2> QED BY <2>1, <2>2
<1>3. /\ payLog' \in [Orders -> Seq(PaymentEvents)]
      /\ \A q \in Orders : \A k \in DOMAIN payLog[q] :
            k \in DOMAIN payLog'[q] /\ payLog'[q][k] = payLog[q][k]
  <2>1. CASE UNCHANGED payLog
      BY <1>1, <2>1 DEF LogsOK
  <2>2. ASSUME NEW o \in Orders, NEW e \in PaymentEvents, EmitPayment(o, e.type, e.key)
        PROVE  <1>3
    <3>1. e.type \in {"payment_success", "payment_failed"} /\ e.key \in Nat
        BY DEF PaymentEvents
    <3> QED BY <2>2, <3>1, EmitPaymentGrows
  <2> QED BY <2>1, <2>2
<1> QED
    BY <1>2, <1>3 DEF LogsGrow, LogsOK

\* What a step leaves alone stays well formed.
LEMMA Frame ==
    ASSUME TInv
    PROVE  /\ UNCHANGED request => RequestOK'
           /\ UNCHANGED status => StatusOK'
           /\ UNCHANGED handler /\ LogsGrow => HandlerOK'
           /\ UNCHANGED payments => PaymentsOK'
           /\ UNCHANGED charge => ChargeOK'
           /\ UNCHANGED settle /\ LogsGrow => SettleOK'
           /\ UNCHANGED stockVars => StockOK'
           /\ UNCHANGED logVars => LogsGrow /\ LogsOK'
           /\ UNCHANGED edits /\ (NoFault \/ \E kind \in FaultKinds : Fault(kind)) => BoundsOK'
<1> USE DEF TInv
<1>1. UNCHANGED request => RequestOK'
    BY DEF RequestOK
<1>2. UNCHANGED status => StatusOK'
    BY DEF StatusOK
<1>3. UNCHANGED handler /\ LogsGrow => HandlerOK'
    BY DEF HandlerOK, LogsGrow
<1>4. UNCHANGED payments => PaymentsOK'
    BY DEF PaymentsOK
<1>5. UNCHANGED charge => ChargeOK'
    BY DEF ChargeOK
<1>6. UNCHANGED settle /\ LogsGrow => SettleOK'
    BY DEF SettleOK, LogsGrow
<1>7. UNCHANGED stockVars => StockOK'
    BY DEF StockOK, stockVars
<1>8. UNCHANGED logVars => LogsGrow /\ LogsOK'
    BY DEF LogsOK, LogsGrow, logVars
<1>9. UNCHANGED edits /\ (NoFault \/ \E kind \in FaultKinds : Fault(kind)) => BoundsOK'
    BY FaultTypeOK DEF BoundsOK
<1> QED
    BY <1>1, <1>2, <1>3, <1>4, <1>5, <1>6, <1>7, <1>8, <1>9

-----------------------------------------------------------------------------
LEMMA InitTInv == Init => TInv
<1> SUFFICES ASSUME Init PROVE TInv
    OBVIOUS
<1> USE DEF Init, OrderInit, PaymentInit, ProductInit
<1>1. RequestOK
    BY ItemFacts DEF RequestOK, RequestStage
<1>2. StatusOK
    BY DEF StatusOK
<1>3. HandlerOK
    BY DEF HandlerOK, HandlerStage, MaxRetries
<1>4. PaymentsOK /\ ChargeOK
    BY DEF PaymentsOK, ChargeOK, ChargeStage, MaxAttempts
<1>5. SettleOK
    BY DEF SettleOK, SettleStage
<1>6. StockOK
    BY StockAssumption DEF StockOK, Row
<1>7. LogsOK
    BY DEF LogsOK
<1>8. BoundsOK
    BY Bounds DEF BoundsOK
<1> QED
    BY <1>1, <1>2, <1>3, <1>4, <1>5, <1>6, <1>7, <1>8 DEF TInv

\* One handler, one payment consumer or one product consumer moves on.
LEMMA HandlerMoves ==
    ASSUME TInv, LogsGrow, NEW o \in Orders, NEW i \in 1 .. MaxPayEvents,
           NEW h \in Handlers, h.stage = "update" => i \in DOMAIN payLog[o],
           handler' = [handler EXCEPT ![o][i] = h]
    PROVE  HandlerOK'
<1>1. handler \in [Orders -> [1 .. MaxPayEvents -> Handlers]]
    BY DEF TInv, HandlerOK, Handlers
<1>2. handler' = [handler EXCEPT ![o] = [handler[o] EXCEPT ![i] = h]]
    OBVIOUS
<1>3. [handler[o] EXCEPT ![i] = h] \in [1 .. MaxPayEvents -> Handlers]
    BY <1>1
<1>4. handler' \in [Orders -> [1 .. MaxPayEvents -> Handlers]]
    BY <1>1, <1>2, <1>3
<1>5. ASSUME NEW q \in Orders, NEW j \in 1 .. MaxPayEvents, handler'[q][j].stage = "update"
      PROVE  j \in DOMAIN payLog'[q]
  <2>1. handler'[q][j] = IF q = o /\ j = i THEN h ELSE handler[q][j]
      BY <1>1, <1>2
  <2>2. j \in DOMAIN payLog[q]
      BY <1>5, <2>1 DEF TInv, HandlerOK
  <2> QED BY <2>2 DEF LogsGrow
<1> QED
    BY <1>4, <1>5 DEF HandlerOK, Handlers

LEMMA HandlerToOK ==
    ASSUME TInv, LogsGrow, NEW o \in Orders, NEW i \in 1 .. MaxPayEvents,
           NEW stage \in HandlerStage, stage = "update" => i \in DOMAIN payLog[o],
           HandlerTo(o, i, stage)
    PROVE  HandlerOK'
<1>1. handler[o][i] \in Handlers
    BY DEF TInv, HandlerOK, Handlers
<1> DEFINE h == [handler[o][i] EXCEPT !.stage = stage]
<1>2. h \in Handlers /\ h.stage = stage
    BY <1>1 DEF Handlers
<1>3. handler' = [handler EXCEPT ![o][i] = h]
    BY DEF HandlerTo
<1> HIDE DEF h
<1> QED BY <1>2, <1>3, HandlerMoves

LEMMA ChargeRecord ==
    ASSUME NEW w \in Charges, NEW stage \in ChargeStage, NEW tries \in 0 .. MaxAttempts
    PROVE  [w EXCEPT !.stage = stage, !.tries = tries] \in Charges
  BY DEF Charges

LEMMA SettleRecord ==
    ASSUME NEW w \in Settles, NEW stage \in SettleStage, NEW item \in Nat
    PROVE  [w EXCEPT !.stage = stage, !.item = item] \in Settles
  BY DEF Settles

LEMMA ChargeMoves ==
    ASSUME TInv, NEW o \in Orders, NEW w \in Charges,
           w.stage = "creating" => w.tries < MaxAttempts,
           charge' = [charge EXCEPT ![o] = w]
    PROVE  ChargeOK'
  BY DEF TInv, ChargeOK, Charges

LEMMA SettleMoves ==
    ASSUME TInv, LogsGrow, NEW o \in Orders, NEW w \in Settles,
           w.stage = "working" =>
               /\ w.item \in ItemNumbers(o)
               /\ w.pos + 1 \in DOMAIN orderLog[o]
               /\ orderLog[o][w.pos + 1] # "order_created",
           settle' = [settle EXCEPT ![o] = w]
    PROVE  SettleOK'
<1>1. settle' \in [Orders -> Settles]
    BY DEF TInv, SettleOK, Settles
<1>2. ASSUME NEW q \in Orders, settle'[q].stage = "working"
      PROVE  /\ settle'[q].item \in ItemNumbers(q)
             /\ settle'[q].pos + 1 \in DOMAIN orderLog'[q]
             /\ orderLog'[q][settle'[q].pos + 1] # "order_created"
  <2>1. settle'[q] = IF q = o THEN w ELSE settle[q]
      BY DEF TInv, SettleOK
  <2>2. /\ settle'[q].item \in ItemNumbers(q)
        /\ settle'[q].pos + 1 \in DOMAIN orderLog[q]
        /\ orderLog[q][settle'[q].pos + 1] # "order_created"
      BY <1>2, <2>1 DEF TInv, SettleOK
  <2> QED BY <2>2 DEF LogsGrow
<1> QED
    BY <1>1, <1>2 DEF SettleOK, Settles

\* The steps of create_order.
LEMMA RequestTInv ==
    ASSUME TInv, NEW o \in Orders, RequestStep(o) \/ LoseRequest(o)
    PROVE  TInv'
<1> USE DEF orderVars, paymentVars, productVars, logVars
<1>1. CASE ReserveItem(o)
  <2> USE <1>1 DEF ReserveItem
  <2>1. request[o].item \in ItemNumbers(o)
      BY DEF TInv, RequestOK
  <2>2. RequestOK'
      BY <2>1 DEF TInv, RequestOK, RequestTo, RequestStage
  <2>3. StockOK'
      BY <2>1, ApplyTypeOK, Frame DEF Ops, StockOK
  <2>4. BoundsOK'
      BY Frame DEF FaultKinds
  <2> QED
      BY <2>2, <2>3, <2>4, Frame DEF TInv
<1>2. CASE PriceItem(o)
  <2> USE <1>2 DEF PriceItem
  <2>1. /\ request[o].item \in ItemNumbers(o)
        /\ request[o].item = Len(Items[o]) \/ request[o].item + 1 \in ItemNumbers(o)
      BY ItemFacts DEF TInv, RequestOK, ItemNumbers
  <2>3. RequestOK'
    <3>1. CASE RequestTo(o, "failing")
        BY <3>1 DEF TInv, RequestOK, RequestTo, RequestStage
    <3>2. CASE request' = [request EXCEPT ![o] =
                   [stage |-> "storing", item |-> request[o].item]]
        BY <3>2 DEF TInv, RequestOK, RequestStage
    <3>3. CASE /\ request[o].item + 1 \in ItemNumbers(o)
               /\ request' = [request EXCEPT ![o] =
                      [stage |-> "reserving", item |-> request[o].item + 1]]
        BY <3>3 DEF TInv, RequestOK, RequestStage, ItemNumbers
    <3> QED BY <2>1, <3>1, <3>2, <3>3
  <2>4. BoundsOK'
      BY Frame DEF FaultKinds
  <2> QED
      BY <2>3, <2>4, Frame DEF TInv
<1>3. CASE StoreOrder(o)
  <2> USE <1>3 DEF StoreOrder
  <2>1. LogsGrow /\ LogsOK'
      BY GrowthOfLogs DEF OrderEvents
  <2>2. RequestOK'
      BY DEF TInv, RequestOK, RequestTo, RequestStage
  <2>3. StatusOK'
      BY DEF TInv, StatusOK, OrderStatus
  <2>4. BoundsOK'
      BY Frame DEF FaultKinds
  <2> QED
      BY <2>1, <2>2, <2>3, <2>4, Frame DEF TInv
<1>4. CASE ValidateUser(o) \/ CompensateRequest(o) \/ LoseRequest(o)
  <2> USE <1>4 DEF ValidateUser, CompensateRequest, LoseRequest
  <2>1. RequestOK'
      BY DEF TInv, RequestOK, RequestTo, RequestStage
  <2>2. BoundsOK'
      BY Frame DEF FaultKinds
  <2> QED
      BY <2>1, <2>2, Frame DEF TInv
<1> QED
    BY <1>1, <1>2, <1>3, <1>4 DEF RequestStep

\* The steps of the payment events' handlers, and PUT /orders/{id}/status.
LEMMA HandlerTInv ==
    ASSUME TInv, NEW o \in Orders, NEW i \in 1 .. MaxPayEvents,
           HandlerStep(o, i) \/ RedeliverPayment(o, i)
    PROVE  TInv'
<1> USE DEF orderVars, paymentVars, productVars, logVars
<1>1. Target(payLog[o][i].type) \in OrderStatus /\ Outcome(payLog[o][i].type) \in OrderEvents
    BY DEF Target, Outcome, OrderStatus, OrderEvents
<1>2. CASE ReadOrder(o, i)
  <2> USE <1>2 DEF ReadOrder
  <2>1. LogsGrow
      BY Frame
  <2>2. HandlerOK'
      BY <2>1, HandlerToOK DEF HandlerStage
  <2> QED
      BY <2>2, Frame DEF TInv
<1>3. CASE UpdateOrder(o, i) \/ UpdateFails(o, i)
  <2> USE <1>1, <1>3 DEF UpdateOrder, UpdateFails
  <2>1. LogsGrow /\ LogsOK'
      BY GrowthOfLogs
  <2>2. HandlerOK'
    <3>1. CASE HandlerTo(o, i, "done")
        BY <2>1, <3>1, HandlerToOK DEF HandlerStage
    <3>2. CASE AfterFailure(o, i)
      <4>1. handler[o][i] \in Handlers
          BY DEF TInv, HandlerOK, Handlers
      <4> DEFINE again == [stage |-> "queued", tries |-> handler[o][i].tries + 1]
                 given == [handler[o][i] EXCEPT !.stage = "done"]
      <4>2. CASE /\ handler[o][i].tries < MaxRetries
                 /\ handler' = [handler EXCEPT ![o][i] = again]
        <5>1. again \in Handlers /\ again.stage # "update"
            BY <4>1, <4>2 DEF Handlers, HandlerStage, MaxRetries
        <5> HIDE DEF again
        <5> QED BY <2>1, <4>2, <5>1, HandlerMoves
      <4>3. CASE handler' = [handler EXCEPT ![o][i] = given]
        <5>1. given \in Handlers /\ given.stage # "update"
            BY <4>1 DEF Handlers, HandlerStage
        <5> HIDE DEF given
        <5> QED BY <2>1, <4>3, <5>1, HandlerMoves
      <4> QED BY <3>2, <4>2, <4>3 DEF AfterFailure
    <3> QED BY <3>1, <3>2
  <2>3. StatusOK'
      BY DEF TInv, StatusOK
  <2>4. BoundsOK'
      BY Frame DEF FaultKinds
  <2> QED
      BY <2>1, <2>2, <2>3, <2>4, Frame DEF TInv
<1>4. CASE AckPayment(o, i) \/ RedeliverPayment(o, i)
  <2> USE <1>4 DEF AckPayment, RedeliverPayment
  <2>1. LogsGrow
      BY Frame
  <2>2. HandlerOK'
    <3>1. [stage |-> "queued", tries |-> 0] \in Handlers
        BY DEF Handlers, HandlerStage, MaxRetries
    <3> QED BY <2>1, <3>1, HandlerToOK, HandlerMoves DEF HandlerStage
  <2>3. BoundsOK'
      BY Frame DEF FaultKinds
  <2> QED
      BY <2>2, <2>3, Frame DEF TInv
<1> QED
    BY <1>2, <1>3, <1>4 DEF HandlerStep

LEMMA EditTInv ==
    ASSUME TInv, NEW o \in Orders, NEW s \in OrderStatus, EditStatus(o, s)
    PROVE  TInv'
<1> USE DEF EditStatus, orderVars, paymentVars, productVars, logVars
<1>1. StatusOK'
    BY DEF TInv, StatusOK
<1>2. BoundsOK'
    BY Bounds DEF TInv, BoundsOK, NoFault
<1> QED
    BY <1>1, <1>2, Frame DEF TInv

\* A payment row and its event.
LEMMA InsertPaymentOK ==
    ASSUME TInv, NEW o \in Orders, InsertPayment(o)
    PROVE  /\ PaymentsOK'
           /\ payments' = [payments EXCEPT ![o] = payments[o] + 1]
           /\ \E e \in PaymentEvents :
                 EmitPayment(o, e.type, e.key) /\ e.type = "payment_success"
<1>1. payments[o] + 1 \in Nat
    BY DEF TInv, PaymentsOK
<1>2. [type |-> "payment_success", key |-> payments[o] + 1] \in PaymentEvents
    BY <1>1 DEF PaymentEvents
<1> QED
    BY <1>1, <1>2 DEF InsertPayment, TInv, PaymentsOK

\* The steps of handle_order_created, and POST /payments.
LEMMA PaymentTInv ==
    ASSUME TInv, NEW o \in Orders, PaymentStep(o) \/ RedeliverOrderCreated(o) \/ PostPayment(o)
    PROVE  TInv'
<1> USE DEF orderVars, paymentVars, productVars, logVars
<1>1. [type |-> "payment_failed", key |-> 0] \in PaymentEvents
    BY DEF PaymentEvents
<1>2. charge[o] \in Charges
    BY DEF TInv, ChargeOK, Charges
<1>3. CASE TakeOrderEvent(o) \/ AckOrderCreated(o) \/ RedeliverOrderCreated(o)
  <2>1. ChargeOK'
    <3>1. CASE TakeOrderEvent(o)
      <4> DEFINE started == [charge[o] EXCEPT !.stage = "creating", !.tries = 0]
                 passed  == [charge[o] EXCEPT !.pos = charge[o].pos + 1]
      <4>1. started \in Charges /\ started.tries < MaxAttempts
        <5>1. "creating" \in ChargeStage /\ 0 \in 0 .. MaxAttempts /\ 0 < MaxAttempts
            BY DEF ChargeStage, MaxAttempts
        <5>2. started \in Charges
            BY <1>2, <5>1, ChargeRecord
        <5>3. started.tries = 0
            BY <1>2 DEF Charges
        <5> QED BY <5>1, <5>2, <5>3
      <4>2. passed \in Charges /\ passed.stage = "idle"
          BY <1>2, <3>1 DEF TakeOrderEvent, Charges
      <4>3. charge' = [charge EXCEPT ![o] = started] \/ charge' = [charge EXCEPT ![o] = passed]
          BY <3>1 DEF TakeOrderEvent
      <4> HIDE DEF started, passed
      <4> QED BY <4>1, <4>2, <4>3, ChargeMoves
    <3>2. CASE AckOrderCreated(o)
      <4> DEFINE acked == [pos |-> charge[o].pos + 1, stage |-> "idle", tries |-> 0]
      <4>1. acked \in Charges /\ acked.stage = "idle"
          BY <1>2 DEF Charges, ChargeStage, MaxAttempts
      <4>2. charge' = [charge EXCEPT ![o] = acked]
          BY <3>2 DEF AckOrderCreated
      <4> HIDE DEF acked
      <4> QED BY <4>1, <4>2, ChargeMoves
    <3>3. CASE RedeliverOrderCreated(o)
      <4> DEFINE stopped == [charge[o] EXCEPT !.stage = "idle", !.tries = 0]
      <4>1. stopped \in Charges /\ stopped.stage = "idle"
        <5>1. "idle" \in ChargeStage /\ 0 \in 0 .. MaxAttempts
            BY DEF ChargeStage, MaxAttempts
        <5>2. stopped \in Charges
            BY <1>2, <5>1, ChargeRecord
        <5>3. stopped.stage = "idle"
            BY <1>2 DEF Charges
        <5> QED BY <5>2, <5>3
      <4>2. charge' = [charge EXCEPT ![o] = stopped]
          BY <3>3 DEF RedeliverOrderCreated
      <4> HIDE DEF stopped
      <4> QED BY <4>1, <4>2, ChargeMoves
    <3> QED BY <1>3, <3>1, <3>2, <3>3
  <2> USE <1>3 DEF TakeOrderEvent, AckOrderCreated, RedeliverOrderCreated
  <2>2. BoundsOK'
      BY Frame DEF FaultKinds
  <2> QED
      BY <2>1, <2>2, Frame DEF TInv
<1>4. CASE CreatePayment(o) \/ Compensate(o)
  <2> USE <1>4 DEF CreatePayment, Compensate
  <2>1. LogsGrow /\ LogsOK' /\ PaymentsOK'
      BY <1>1, GrowthOfLogs, InsertPaymentOK, Frame
  <2>2. ChargeOK'
      BY DEF TInv, ChargeOK, ChargeTo, ChargeStage
  <2>3. BoundsOK'
      BY Frame DEF FaultKinds
  <2> QED
      BY <2>1, <2>2, <2>3, Frame DEF TInv
<1>5. CASE CreateRaises(o)
  <2> USE <1>5 DEF CreateRaises
  <2>1. LogsGrow /\ LogsOK' /\ PaymentsOK'
      BY GrowthOfLogs, InsertPaymentOK, Frame
  <2>2. ChargeOK'
    <3> DEFINE stage == IF charge[o].tries + 1 = MaxAttempts THEN "compensating" ELSE "creating"
               next  == [charge[o] EXCEPT !.stage = stage, !.tries = charge[o].tries + 1]
    <3>1. charge[o].tries + 1 \in 1 .. MaxAttempts /\ stage \in ChargeStage
        BY <1>2 DEF TInv, ChargeOK, Charges, ChargeStage, MaxAttempts
    <3>2. next \in Charges /\ next.stage = stage /\ next.tries = charge[o].tries + 1
      <4>1. charge[o].tries + 1 \in 0 .. MaxAttempts
          BY <3>1
      <4> HIDE DEF stage
      <4>2. next \in Charges
          BY <1>2, <3>1, <4>1, ChargeRecord
      <4>3. next.stage = stage
          BY <1>2 DEF Charges
      <4>4. next.tries = charge[o].tries + 1
          BY <1>2 DEF Charges
      <4> QED BY <4>2, <4>3, <4>4
    <3>3. charge' = [charge EXCEPT ![o] = next]
        OBVIOUS
    <3>4. stage = "creating" => charge[o].tries + 1 < MaxAttempts
        BY <3>1 DEF MaxAttempts
    <3> HIDE DEF next, stage
    <3> QED BY <3>2, <3>3, <3>4, ChargeMoves
  <2>3. BoundsOK'
      BY Frame DEF FaultKinds
  <2> QED
      BY <2>1, <2>2, <2>3, Frame DEF TInv
<1>6. CASE PostPayment(o)
  <2> USE <1>6 DEF PostPayment
  <2>1. LogsGrow /\ LogsOK' /\ PaymentsOK'
      BY GrowthOfLogs, InsertPaymentOK, Frame
  <2>2. BoundsOK'
      BY Bounds DEF TInv, BoundsOK, NoFault
  <2> QED
      BY <2>1, <2>2, Frame DEF TInv
<1> QED
    BY <1>3, <1>4, <1>5, <1>6 DEF PaymentStep

\* The steps of the product service's handlers.
LEMMA ProductTInv ==
    ASSUME TInv, NEW o \in Orders, ProductStep(o) \/ RedeliverOutcome(o)
    PROVE  TInv'
<1> USE DEF orderVars, paymentVars, productVars, logVars
<1>1. settle[o] \in Settles
    BY DEF TInv, SettleOK, Settles
<1>2. CASE TakeOutcome(o)
  <2> USE <1>2 DEF TakeOutcome
  <2>1. SettleOK'
    <3>1. DOMAIN orderLog[o] = 1 .. Len(orderLog[o]) /\ Len(orderLog[o]) \in Nat
        BY DEF TInv, LogsOK
    <3>2. settle[o].pos + 1 \in DOMAIN orderLog[o]
        BY <1>1, <3>1 DEF Settles
    <3> DEFINE passed  == [settle[o] EXCEPT !.pos = settle[o].pos + 1]
               started == [settle[o] EXCEPT !.stage = "working", !.item = 1]
    <3>3. passed \in Settles /\ passed.stage = "idle"
        BY <1>1 DEF Settles
    <3>6. started \in Settles /\ started.item = 1 /\ started.pos = settle[o].pos
      <4>1. "working" \in SettleStage /\ 1 \in Nat
          BY DEF SettleStage
      <4>2. started \in Settles
          BY <1>1, <4>1, SettleRecord
      <4>3. started.item = 1
          BY <1>1 DEF Settles
      <4>4. started.pos = settle[o].pos
          BY <1>1 DEF Settles
      <4> QED BY <4>2, <4>3, <4>4
    <3>4. \/ settle' = [settle EXCEPT ![o] = passed]
          \/ /\ orderLog[o][settle[o].pos + 1] # "order_created"
             /\ settle' = [settle EXCEPT ![o] = started]
        OBVIOUS
    <3>5. LogsGrow
        BY Frame
    <3> HIDE DEF passed, started
    <3> QED BY <3>2, <3>3, <3>4, <3>5, <3>6, ItemFacts, SettleMoves
  <2> QED
      BY <2>1, Frame DEF TInv
<1>3. CASE SettleItem(o)
  <2> USE <1>3 DEF SettleItem
  <2> DEFINE op == Settlement(orderLog[o][settle[o].pos + 1])
  <2>1. op \in Ops /\ settle[o].item \in ItemNumbers(o)
      BY DEF TInv, SettleOK, Settlement, Ops
  <2>2. StockOK'
    <3>1. CASE Apply(op, o, settle[o].item)
        BY <2>1, <3>1, ApplyTypeOK DEF StockOK
    <3>2. CASE UNCHANGED stockVars
        BY <3>2, Frame
    <3> QED BY <3>1, <3>2
  <2>3. SettleOK'
    <3> DEFINE ended == [settle[o] EXCEPT !.stage = "done"]
               next  == [settle[o] EXCEPT !.item = settle[o].item + 1]
    <3>1. ended \in Settles /\ ended.stage = "done"
      <4>1. "done" \in SettleStage
          BY DEF SettleStage
      <4> QED BY <1>1, <4>1 DEF Settles
    <3>6. next \in Settles /\ next.pos = settle[o].pos /\ next.item = settle[o].item + 1
        BY <1>1 DEF Settles
    <3>2. \/ settle' = [settle EXCEPT ![o] = ended]
          \/ settle[o].item # Len(Items[o]) /\ settle' = [settle EXCEPT ![o] = next]
        BY DEF PassItem
    <3>3. settle[o].item # Len(Items[o]) => settle[o].item + 1 \in ItemNumbers(o)
        BY <2>1, ItemFacts DEF ItemNumbers
    <3>4. LogsGrow
        BY Frame
    <3>5. /\ settle[o].pos + 1 \in DOMAIN orderLog[o]
          /\ orderLog[o][settle[o].pos + 1] # "order_created"
        BY DEF TInv, SettleOK
    <3> HIDE DEF ended, next
    <3> QED BY <3>1, <3>2, <3>3, <3>4, <3>5, <3>6, SettleMoves
  <2>4. BoundsOK'
      BY Frame DEF FaultKinds
  <2> QED
      BY <2>2, <2>3, <2>4, Frame DEF TInv
<1>4. CASE AckOutcome(o) \/ RedeliverOutcome(o)
  <2> USE <1>4 DEF AckOutcome, RedeliverOutcome
  <2>1. SettleOK'
    <3> DEFINE acked   == [pos |-> settle[o].pos + 1, stage |-> "idle", item |-> 1]
               stopped == [settle[o] EXCEPT !.stage = "idle", !.item = 1]
    <3>1. acked \in Settles /\ acked.stage = "idle"
        BY <1>1 DEF Settles, SettleStage
    <3>4. stopped \in Settles /\ stopped.stage = "idle"
      <4>1. "idle" \in SettleStage /\ 1 \in Nat
          BY DEF SettleStage
      <4>2. stopped \in Settles
          BY <1>1, <4>1, SettleRecord
      <4>3. stopped.stage = "idle"
          BY <1>1 DEF Settles
      <4> QED BY <4>2, <4>3
    <3>2. settle' = [settle EXCEPT ![o] = acked] \/ settle' = [settle EXCEPT ![o] = stopped]
        OBVIOUS
    <3>3. LogsGrow
        BY Frame
    <3> HIDE DEF acked, stopped
    <3> QED BY <3>1, <3>2, <3>3, <3>4, SettleMoves
  <2>2. BoundsOK'
      BY Frame DEF FaultKinds
  <2> QED
      BY <2>1, <2>2, Frame DEF TInv
<1> QED
    BY <1>2, <1>3, <1>4 DEF ProductStep

\* Debezium's second copy of a row.
LEMMA RepeatTInv ==
    ASSUME TInv, NEW o \in Orders, RepeatOrderEvent(o) \/ RepeatPaymentEvent(o)
    PROVE  TInv' /\ LogsGrow
<1> USE DEF orderVars, paymentVars, productVars
<1>1. LogsGrow /\ LogsOK'
  <2>1. CASE RepeatOrderEvent(o)
    <3>1. orderLog[o][Len(orderLog[o])] \in OrderEvents
        BY <2>1 DEF RepeatOrderEvent, TInv, LogsOK
    <3> QED BY <2>1, <3>1, GrowthOfLogs DEF RepeatOrderEvent
  <2>2. CASE RepeatPaymentEvent(o)
    <3>1. PICK e \in PaymentEvents : e = payLog[o][Len(payLog[o])]
        BY <2>2 DEF RepeatPaymentEvent, TInv, LogsOK
    <3>2. EmitPayment(o, e.type, e.key)
        BY <2>2, <3>1 DEF RepeatPaymentEvent, EmitPayment, PaymentEvents
    <3> QED BY <2>2, <3>2, GrowthOfLogs DEF RepeatPaymentEvent
  <2> QED BY <2>1, <2>2
<1>2. BoundsOK'
    BY Frame DEF RepeatOrderEvent, RepeatPaymentEvent, FaultKinds
<1> QED
    BY <1>1, <1>2, Frame DEF RepeatOrderEvent, RepeatPaymentEvent, TInv

LEMMA NextTInv == TInv /\ [Next]_vars => TInv'
<1> SUFFICES ASSUME TInv, [Next]_vars PROVE TInv'
    OBVIOUS
<1>1. CASE UNCHANGED vars
    BY <1>1, Frame DEF vars, orderVars, paymentVars, productVars, logVars, TInv, NoFault
<1>2. CASE Next
    BY <1>2, RequestTInv, HandlerTInv, EditTInv, PaymentTInv, ProductTInv, RepeatTInv
       DEF Next, OrderNext, PaymentNext, ProductNext
<1> QED
    BY <1>1, <1>2

LEMMA InvariantTInv == Spec => []TInv
  BY InitTInv, NextTInv, PTL DEF Spec

-----------------------------------------------------------------------------
(* Which steps change what. *)

LEMMA PaymentSteps ==
    ASSUME [Next]_vars
    PROVE  \/ UNCHANGED <<payments, payLog>>
           \/ \E o \in Orders : \/ CreatePayment(o) \/ CreateRaises(o) \/ Compensate(o)
                                \/ PostPayment(o) \/ RepeatPaymentEvent(o)
<1> USE DEF paymentVars, logVars
<1>1. CASE OrderNext
    BY <1>1 DEF OrderNext, RequestStep, HandlerStep, ValidateUser, ReserveItem, PriceItem,
           StoreOrder, CompensateRequest, LoseRequest, ReadOrder, UpdateOrder, UpdateFails,
           AckPayment, RedeliverPayment, EditStatus
<1>2. CASE PaymentNext
    BY <1>2 DEF PaymentNext, PaymentStep, TakeOrderEvent, AckOrderCreated, RedeliverOrderCreated
<1>3. CASE ProductNext
    BY <1>3 DEF ProductNext, ProductStep, TakeOutcome, SettleItem, AckOutcome, RedeliverOutcome
<1> QED
    BY <1>1, <1>2, <1>3 DEF Next, RepeatOrderEvent, vars

LEMMA OrderEventSteps ==
    ASSUME [Next]_vars
    PROVE  \/ UNCHANGED orderLog
           \/ \E o \in Orders : \/ StoreOrder(o)
                                \/ RepeatOrderEvent(o)
                                \/ \E i \in 1 .. MaxPayEvents : UpdateOrder(o, i) \/ UpdateFails(o, i)
<1> USE DEF logVars
<1>1. CASE OrderNext
    BY <1>1 DEF OrderNext, RequestStep, HandlerStep, ValidateUser, ReserveItem, PriceItem,
           CompensateRequest, LoseRequest, ReadOrder, AckPayment, RedeliverPayment, EditStatus
<1>2. CASE PaymentNext
    BY <1>2 DEF PaymentNext, PaymentStep, TakeOrderEvent, CreatePayment, CreateRaises, Compensate,
           AckOrderCreated, RedeliverOrderCreated, PostPayment
<1>3. CASE ProductNext
    BY <1>3 DEF ProductNext, ProductStep, TakeOutcome, SettleItem, AckOutcome, RedeliverOutcome
<1> QED
    BY <1>1, <1>2, <1>3 DEF Next, RepeatPaymentEvent, vars

LEMMA StatusSteps ==
    ASSUME [Next]_vars
    PROVE  \/ UNCHANGED status
           \/ \E o \in Orders : \/ StoreOrder(o)
                                \/ \E i \in 1 .. MaxPayEvents : UpdateOrder(o, i) \/ UpdateFails(o, i)
                                \/ \E x \in OrderStatus : EditStatus(o, x)
<1> USE DEF orderVars
<1>1. CASE OrderNext
    BY <1>1 DEF OrderNext, RequestStep, HandlerStep, ValidateUser, ReserveItem, PriceItem,
           CompensateRequest, LoseRequest, ReadOrder, AckPayment, RedeliverPayment
<1>2. CASE PaymentNext
    BY <1>2 DEF PaymentNext, PaymentStep, TakeOrderEvent, CreatePayment, CreateRaises, Compensate,
           AckOrderCreated, RedeliverOrderCreated, PostPayment
<1>3. CASE ProductNext
    BY <1>3 DEF ProductNext, ProductStep, TakeOutcome, SettleItem, AckOutcome, RedeliverOutcome
<1> QED
    BY <1>1, <1>2, <1>3 DEF Next, RepeatOrderEvent, RepeatPaymentEvent, vars

LEMMA StockSteps ==
    ASSUME [Next]_vars
    PROVE  UNCHANGED effects \/ \E o \in Orders : ReserveItem(o) \/ SettleItem(o)
<1> USE DEF stockVars
<1>1. CASE OrderNext
    BY <1>1 DEF OrderNext, RequestStep, HandlerStep, ValidateUser, PriceItem, StoreOrder,
           CompensateRequest, LoseRequest, ReadOrder, UpdateOrder, UpdateFails, AckPayment,
           RedeliverPayment, EditStatus
<1>2. CASE PaymentNext
    BY <1>2 DEF PaymentNext, PaymentStep, TakeOrderEvent, CreatePayment, CreateRaises, Compensate,
           AckOrderCreated, RedeliverOrderCreated, PostPayment
<1>3. CASE ProductNext
    BY <1>3 DEF ProductNext, ProductStep, TakeOutcome, AckOutcome, RedeliverOutcome
<1> QED
    BY <1>1, <1>2, <1>3 DEF Next, RepeatOrderEvent, RepeatPaymentEvent, vars

LEMMA HandlerSteps ==
    ASSUME [Next]_vars
    PROVE  \/ UNCHANGED handler
           \/ \E o \in Orders, i \in 1 .. MaxPayEvents : HandlerStep(o, i) \/ RedeliverPayment(o, i)
<1> USE DEF orderVars
<1>1. CASE OrderNext
    BY <1>1 DEF OrderNext, RequestStep, ValidateUser, ReserveItem, PriceItem, StoreOrder,
                CompensateRequest, LoseRequest, EditStatus
<1>2. CASE PaymentNext
    BY <1>2 DEF PaymentNext, PaymentStep, TakeOrderEvent, CreatePayment, CreateRaises,
                Compensate, AckOrderCreated, RedeliverOrderCreated, PostPayment
<1>3. CASE ProductNext
    BY <1>3 DEF ProductNext, ProductStep, TakeOutcome, SettleItem, AckOutcome, RedeliverOutcome
<1> QED
    BY <1>1, <1>2, <1>3 DEF Next, RepeatOrderEvent, RepeatPaymentEvent, vars

\* A payment event is preceded by its payment, or by three failed attempts.
LEMMA PaymentEventCause ==
    ASSUME TInv, [Next]_vars, NEW q \in Orders
    PROVE  /\ payments[q] <= payments'[q]
           /\ payments'[q] # payments[q] => q \notin Refused \/ edits' > edits
           /\ \A type \in Types(payLog[q]) : type \in Types(payLog[q])'
           /\ \A type \in Types(payLog[q])' :
                 \/ type \in Types(payLog[q])
                 \/ type = "payment_success" /\ payments'[q] > 0
                 \/ type = "payment_failed" /\ charge[q].stage = "compensating"
<1>1. payments[q] \in Nat
    BY DEF TInv, PaymentsOK
<1>2. CASE UNCHANGED <<payments, payLog>>
    BY <1>1, <1>2 DEF Types
<1>3. ASSUME NEW o \in Orders, InsertPayment(o), o \notin Refused \/ edits' > edits
      PROVE  /\ payments[q] <= payments'[q]
             /\ payments'[q] # payments[q] => q \notin Refused \/ edits' > edits
             /\ \A type \in Types(payLog[q]) : type \in Types(payLog[q])'
             /\ \A type \in Types(payLog[q])' :
                   type \in Types(payLog[q]) \/ (type = "payment_success" /\ payments'[q] > 0)
  <2>1. payments[o] \in Nat /\ payments' = [payments EXCEPT ![o] = payments[o] + 1]
      BY <1>3, InsertPaymentOK DEF TInv, PaymentsOK
  <2>2. PICK e \in PaymentEvents : EmitPayment(o, e.type, e.key) /\ e.type = "payment_success"
      BY <1>3, InsertPaymentOK
  <2>3. e.key \in Nat /\ EmitPayment(o, "payment_success", e.key)
      BY <2>2 DEF PaymentEvents
  <2>4. Types(payLog[q])' = Types(payLog[q]) \cup (IF q = o THEN {"payment_success"} ELSE {})
      BY <2>3, EmitPaymentGrows
  <2>5. CASE q = o
    <3>1. payments'[q] = payments[q] + 1
        BY <2>1, <2>5 DEF TInv, PaymentsOK
    <3>2. payments[q] <= payments'[q] /\ payments'[q] > 0
        BY <1>1, <3>1
    <3>3. Types(payLog[q])' = Types(payLog[q]) \cup {"payment_success"}
        BY <2>4, <2>5
    <3> QED BY <1>3, <2>5, <3>2, <3>3
  <2>6. CASE q # o
    <3>1. payments'[q] = payments[q]
        BY <2>1, <2>6 DEF TInv, PaymentsOK
    <3> QED BY <1>1, <2>4, <2>6, <3>1
  <2> QED BY <2>5, <2>6
<1>4. ASSUME NEW o \in Orders, EmitPayment(o, "payment_failed", 0), UNCHANGED payments,
             charge[o].stage = "compensating"
      PROVE  /\ \A type \in Types(payLog[q]) : type \in Types(payLog[q])'
             /\ \A type \in Types(payLog[q])' :
                   \/ type \in Types(payLog[q])
                   \/ type = "payment_failed" /\ charge[q].stage = "compensating"
  <2>1. Types(payLog[q])' = Types(payLog[q]) \cup (IF q = o THEN {"payment_failed"} ELSE {})
      BY <1>4, EmitPaymentGrows
  <2> QED BY <1>4, <2>1
<1>5. ASSUME NEW o \in Orders, RepeatPaymentEvent(o)
      PROVE  Types(payLog[q])' = Types(payLog[q]) /\ UNCHANGED payments
  <2> DEFINE k == Len(payLog[o])
             e == payLog[o][k]
  <2>1. k \in DOMAIN payLog[o] /\ e \in PaymentEvents
      BY <1>5 DEF RepeatPaymentEvent, TInv, LogsOK
  <2>2. EmitPayment(o, e.type, e.key) /\ UNCHANGED payments
      BY <1>5, <2>1 DEF RepeatPaymentEvent, EmitPayment, PaymentEvents, paymentVars
  <2>3. e.type \in {"payment_success", "payment_failed"} /\ e.key \in Nat /\ e.type \in Types(payLog[o])
      BY <2>1 DEF PaymentEvents, Types
  <2>4. Types(payLog[q])' = Types(payLog[q]) \cup (IF q = o THEN {e.type} ELSE {})
    <3> HIDE DEF e
    <3>1. CASE e.type = "payment_success"
      <4>1. EmitPayment(o, "payment_success", e.key)
          BY <2>2, <3>1
      <4> QED BY <2>3, <3>1, <4>1, EmitPaymentGrows
    <3>2. CASE e.type = "payment_failed"
      <4>1. EmitPayment(o, "payment_failed", e.key)
          BY <2>2, <3>2
      <4> QED BY <2>3, <3>2, <4>1, EmitPaymentGrows
    <3> QED BY <2>3, <3>1, <3>2
  <2> QED BY <2>2, <2>3, <2>4
<1>6. ASSUME NEW o \in Orders, CreatePayment(o) \/ CreateRaises(o) \/ Compensate(o) \/ PostPayment(o)
      PROVE  \/ UNCHANGED <<payments, payLog>>
             \/ InsertPayment(o) /\ (o \notin Refused \/ edits' > edits)
             \/ /\ EmitPayment(o, "payment_failed", 0) /\ UNCHANGED payments
                /\ charge[o].stage = "compensating"
    BY <1>6 DEF CreatePayment, CreateRaises, Compensate, PostPayment, TInv, BoundsOK
<1> QED
    BY <1>1, <1>2, <1>3, <1>4, <1>5, <1>6, PaymentSteps

\* An outcome is announced for a payment event of its kind.
LEMMA OrderEventCause ==
    ASSUME TInv, [Next]_vars, NEW q \in Orders
    PROVE  /\ \A type \in Announced(q) : type \in Announced(q)'
           /\ \A type \in Announced(q)' :
                 \/ type \in Announced(q)
                 \/ type = "order_created"
                 \/ \E t \in Types(payLog[q]) : type = Outcome(t)
<1>1. CASE UNCHANGED orderLog
    BY <1>1 DEF Announced
<1>2. ASSUME NEW o \in Orders, StoreOrder(o)
      PROVE  /\ \A type \in Announced(q) : type \in Announced(q)'
             /\ \A type \in Announced(q)' : type \in Announced(q) \/ type = "order_created"
  <2>1. CASE EmitOrder(o, "order_created")
      BY <2>1, EmitOrderGrows DEF OrderEvents
  <2>2. CASE UNCHANGED orderLog
      BY <2>2 DEF Announced
  <2> QED BY <1>2, <2>1, <2>2 DEF StoreOrder
<1>3. ASSUME NEW o \in Orders, RepeatOrderEvent(o)
      PROVE  Announced(q)' = Announced(q)
  <2> DEFINE k == Len(orderLog[o])
  <2>1. k \in DOMAIN orderLog[o] /\ orderLog[o][k] \in OrderEvents
      BY <1>3 DEF RepeatOrderEvent, TInv, LogsOK
  <2>2. EmitOrder(o, orderLog[o][k]) /\ orderLog[o][k] \in Announced(o)
      BY <1>3, <2>1 DEF RepeatOrderEvent, Announced
  <2>3. Announced(q)' = Announced(q) \cup (IF q = o THEN {orderLog[o][k]} ELSE {})
      BY <2>1, <2>2, EmitOrderGrows
  <2> QED BY <2>2, <2>3
<1>4. ASSUME NEW o \in Orders, NEW i \in 1 .. MaxPayEvents, UpdateOrder(o, i) \/ UpdateFails(o, i)
      PROVE  /\ \A type \in Announced(q) : type \in Announced(q)'
             /\ \A type \in Announced(q)' :
                   type \in Announced(q) \/ \E t \in Types(payLog[q]) : type = Outcome(t)
  <2> DEFINE t == payLog[o][i].type
  <2>1. t \in Types(payLog[o])
      BY <1>4 DEF UpdateOrder, UpdateFails, TInv, HandlerOK, Types
  <2>2. CASE EmitOrder(o, Outcome(t))
    <3>1. Outcome(t) \in OrderEvents
        BY DEF Outcome, OrderEvents
    <3>2. Announced(q)' = Announced(q) \cup (IF q = o THEN {Outcome(t)} ELSE {})
        BY <2>2, <3>1, EmitOrderGrows
    <3> HIDE DEF t
    <3> QED BY <2>1, <3>2
  <2>3. CASE UNCHANGED orderLog
      BY <2>3 DEF Announced
  <2> QED BY <1>4, <2>2, <2>3 DEF UpdateOrder, UpdateFails
<1> QED
    BY <1>1, <1>2, <1>3, <1>4, OrderEventSteps

\* The status changes with its event, or by hand.
LEMMA StatusCause ==
    ASSUME TInv, [Next]_vars, NEW q \in Orders, status'[q] # status[q]
    PROVE  \/ edits' > edits /\ status[q] # "none" /\ status'[q] \in OrderStatus
           \/ /\ request[q].stage = "storing"
              /\ status'[q] = "pending" /\ "order_created" \in Announced(q)'
           \/ \E i \in 1 .. MaxPayEvents :
                 /\ handler[q][i].stage = "update"
                 /\ status'[q] = Target(payLog[q][i].type)
                 /\ Outcome(payLog[q][i].type) \in Announced(q)'
<1>1. status \in [Orders -> OrderStatus \cup {"none"}]
    BY DEF TInv, StatusOK
<1>2. ASSUME NEW o \in Orders, NEW x \in OrderStatus, EditStatus(o, x)
      PROVE  edits' > edits /\ status[q] # "none" /\ status'[q] \in OrderStatus
    BY <1>1, <1>2 DEF EditStatus, TInv, BoundsOK
<1>3. ASSUME NEW o \in Orders, StoreOrder(o)
      PROVE  /\ request[q].stage = "storing"
             /\ status'[q] = "pending" /\ "order_created" \in Announced(q)'
  <2>1. /\ request[o].stage = "storing" /\ status' = [status EXCEPT ![o] = "pending"]
        /\ EmitOrder(o, "order_created")
      BY <1>3 DEF StoreOrder
  <2>2. q = o
      BY <1>1, <2>1
  <2> QED BY <1>1, <2>1, <2>2, EmitOrderGrows DEF OrderEvents
<1>4. ASSUME NEW o \in Orders, NEW i \in 1 .. MaxPayEvents, UpdateOrder(o, i) \/ UpdateFails(o, i)
      PROVE  /\ q = o /\ handler[q][i].stage = "update"
             /\ status'[q] = Target(payLog[q][i].type)
             /\ Outcome(payLog[q][i].type) \in Announced(q)'
  <2>1. /\ handler[o][i].stage = "update"
        /\ status' = [status EXCEPT ![o] = Target(payLog[o][i].type)]
        /\ EmitOrder(o, Outcome(payLog[o][i].type))
      BY <1>4 DEF UpdateOrder, UpdateFails
  <2>2. q = o /\ Outcome(payLog[o][i].type) \in OrderEvents
      BY <1>1, <2>1 DEF Outcome, OrderEvents
  <2>3. Outcome(payLog[o][i].type) \in Announced(o)'
      BY <2>1, <2>2, EmitOrderGrows
  <2> QED BY <1>1, <2>1, <2>2, <2>3
<1> QED
    BY <1>2, <1>3, <1>4, StatusSteps

\* An item is reserved by its request, and settled for an outcome announced.
LEMMA EffectCause ==
    ASSUME TInv, [Next]_vars, NEW q \in Orders, NEW j \in ItemNumbers(q), NEW op \in Ops
    PROVE  \/ effects'[q][j][op] = effects[q][j][op]
           \/ op = "reserve" /\ request[q].stage = "reserving" /\ request'[q].stage # "reserving"
           \/ /\ settle[q].stage = "working"
              /\ \E type \in Announced(q) \ {"order_created"} : op = Settlement(type)
<1>1. CASE UNCHANGED effects
    BY <1>1
<1>2. ASSUME NEW o \in Orders, NEW i \in ItemNumbers(o), NEW x \in Ops, Apply(x, o, i)
      PROVE  effects'[q][j][op] = IF q = o /\ j = i /\ op = x
                                  THEN effects[q][j][op] + 1 ELSE effects[q][j][op]
  <2>1. /\ effects' = [effects EXCEPT ![o][i][x] = @ + 1]
        /\ effects = [r \in Orders |-> effects[r]]
        /\ effects[q] \in [ItemNumbers(q) -> [Ops -> Nat]]
        /\ effects[o] \in [ItemNumbers(o) -> [Ops -> Nat]]
      BY <1>2, ApplyTypeOK DEF TInv, StockOK
  <2> QED BY <2>1
<1>3. ASSUME NEW o \in Orders, ReserveItem(o), ~UNCHANGED stockVars
      PROVE  /\ request[o].stage = "reserving" /\ request[o].item \in ItemNumbers(o)
             /\ request'[o].stage # "reserving"
             /\ Apply("reserve", o, request[o].item)
    BY <1>3 DEF ReserveItem, RequestTo, TInv, RequestOK
<1>4. ASSUME NEW o \in Orders, SettleItem(o), ~UNCHANGED stockVars
      PROVE  /\ settle[o].stage = "working" /\ settle[o].item \in ItemNumbers(o)
             /\ \E type \in Announced(o) \ {"order_created"} :
                   Apply(Settlement(type), o, settle[o].item)
    BY <1>4 DEF SettleItem, TInv, SettleOK, Announced
<1>5. \A type : Settlement(type) \in Ops
    BY DEF Settlement, Ops
<1> QED
    BY <1>1, <1>2, <1>3, <1>4, <1>5, StockSteps DEF stockVars, Ops

-----------------------------------------------------------------------------
(* An order is stored with all its items reserved, and only then worked on. *)

ReservedSoFar ==
    \A o \in Orders :
        /\ request[o].stage \in {"new", "reserving", "pricing", "storing"} => status[o] = "none"
        /\ \A i \in ItemNumbers(o) :
              /\ request[o].stage \in {"new", "reserving"} =>
                    effects[o][i].reserve = IF i < request[o].item THEN 1 ELSE 0
              /\ request[o].stage = "pricing" =>
                    effects[o][i].reserve = IF i <= request[o].item THEN 1 ELSE 0
              /\ (request[o].stage = "storing" \/ status[o] # "none") => effects[o][i].reserve = 1

\* The handler of a payment event has found the order.
FoundOrderExists ==
    \A o \in Orders : \A i \in 1 .. MaxPayEvents :
        handler[o][i].stage = "update" => status[o] # "none"

RInv == ReservedSoFar /\ FoundOrderExists

LEMMA RequestSteps ==
    ASSUME [Next]_vars
    PROVE  UNCHANGED request \/ \E o \in Orders : RequestStep(o) \/ LoseRequest(o)
<1> USE DEF orderVars
<1>1. CASE OrderNext
    BY <1>1 DEF OrderNext, HandlerStep, ReadOrder, UpdateOrder, UpdateFails, AckPayment,
                RedeliverPayment, EditStatus
<1>2. CASE PaymentNext
    BY <1>2 DEF PaymentNext, PaymentStep, TakeOrderEvent, CreatePayment, CreateRaises, Compensate,
           AckOrderCreated, RedeliverOrderCreated, PostPayment
<1>3. CASE ProductNext
    BY <1>3 DEF ProductNext, ProductStep, TakeOutcome, SettleItem, AckOutcome, RedeliverOutcome
<1> QED
    BY <1>1, <1>2, <1>3 DEF Next, RepeatOrderEvent, RepeatPaymentEvent, vars

LEMMA InitRInv == Init => RInv
  BY DEF Init, OrderInit, RInv, ReservedSoFar, FoundOrderExists, ItemNumbers, Ops

\* The step of a request, for its own order.
LEMMA RequestRInv ==
    ASSUME TInv, RInv, NEW o \in Orders, RequestStep(o) \/ LoseRequest(o)
    PROVE  ReservedSoFar'
<1> DEFINE n == request[o].item
           Untouched(q) ==
               /\ request'[q] = request[q] /\ status'[q] = status[q]
               /\ \A i \in ItemNumbers(q) : effects'[q][i].reserve = effects[q][i].reserve
           Kept(q) ==
        /\ request'[q].stage \in {"new", "reserving", "pricing", "storing"} => status'[q] = "none"
        /\ \A i \in ItemNumbers(q) :
              /\ request'[q].stage \in {"new", "reserving"} =>
                    effects'[q][i].reserve = IF i < request'[q].item THEN 1 ELSE 0
              /\ request'[q].stage = "pricing" =>
                    effects'[q][i].reserve = IF i <= request'[q].item THEN 1 ELSE 0
              /\ (request'[q].stage = "storing" \/ status'[q] # "none") => effects'[q][i].reserve = 1
<1>1. /\ request \in [Orders -> [stage : RequestStage, item : Nat]]
      /\ status \in [Orders -> OrderStatus \cup {"none"}]
      /\ \A q \in Orders : \A i \in ItemNumbers(q) : i \in Nat
    BY DEF TInv, RequestOK, StatusOK, ItemNumbers
<1>2. \A q \in Orders : Untouched(q) => Kept(q)
    BY DEF RInv, ReservedSoFar
<1>3. SUFFICES Kept(o) /\ \A q \in Orders \ {o} : Untouched(q)
    BY <1>2 DEF ReservedSoFar
<1>4. CASE ReserveItem(o)
  <2>1. request[o].stage = "reserving" /\ n \in ItemNumbers(o) /\ UNCHANGED status
      BY <1>4 DEF ReserveItem, TInv, RequestOK
  <2>2. \A q \in Orders \ {o} : request'[q] = request[q]
      BY <1>1, <1>4 DEF ReserveItem, RequestTo
  <2>3. CASE Apply("reserve", o, n)
    <3>1. \A q \in Orders : \A i \in ItemNumbers(q) :
              effects'[q][i].reserve = IF q = o /\ i = n THEN effects[q][i].reserve + 1
                                                         ELSE effects[q][i].reserve
      <4>1. /\ effects' = [effects EXCEPT ![o][n]["reserve"] = @ + 1]
            /\ effects = [q \in Orders |-> effects[q]]
            /\ \A q \in Orders : effects[q] \in [ItemNumbers(q) -> [Ops -> Nat]]
          BY <2>1, <2>3, ApplyTypeOK DEF TInv, StockOK, Ops
      <4> QED BY <2>1, <4>1 DEF Ops
    <3>2. request'[o].stage \in {"pricing", "failing"} /\ request'[o].item = n
        BY <1>1, <1>4 DEF ReserveItem, RequestTo
    <3>3. Kept(o)
      <4>1. status[o] = "none"
            /\ \A i \in ItemNumbers(o) : effects[o][i].reserve = IF i < n THEN 1 ELSE 0
          BY <2>1 DEF RInv, ReservedSoFar
      <4>2. \A i \in ItemNumbers(o) : effects'[o][i].reserve = IF i <= n THEN 1 ELSE 0
          BY <1>1, <2>1, <3>1, <4>1
      <4>3. status'[o] = "none"
          BY <2>1, <4>1
      <4> QED BY <3>2, <4>2, <4>3
    <3> QED BY <2>1, <2>2, <3>1, <3>3
  <2>4. CASE UNCHANGED stockVars /\ RequestTo(o, "failing")
    <3>1. request'[o].stage = "failing" /\ UNCHANGED effects
        BY <1>1, <2>4 DEF RequestTo, stockVars
    <3> QED BY <2>1, <2>2, <3>1 DEF RInv, ReservedSoFar
  <2> QED BY <1>4, <2>3, <2>4 DEF ReserveItem
<1>5. CASE PriceItem(o)
  <2>1. request[o].stage = "pricing" /\ n \in ItemNumbers(o) /\ UNCHANGED <<status, effects>>
      BY <1>5 DEF PriceItem, TInv, RequestOK, stockVars
  <2>2. \A q \in Orders \ {o} : request'[q] = request[q]
      BY <1>1, <1>5 DEF PriceItem, RequestTo
  <2>3. \/ request'[o].stage = "failing"
        \/ request'[o].stage = "storing" /\ n = Len(Items[o])
        \/ request'[o].stage = "reserving" /\ request'[o].item = n + 1
      BY <1>1, <1>5 DEF PriceItem, RequestTo
  <2>4. \A i \in ItemNumbers(o) : i <= Len(Items[o]) /\ (i <= n <=> i < n + 1)
      BY <1>1, ItemFacts DEF ItemNumbers
  <2> QED BY <2>1, <2>2, <2>3, <2>4 DEF RInv, ReservedSoFar
<1>6. CASE StoreOrder(o)
  <2>1. /\ request[o].stage = "storing" /\ request'[o].stage \in {"accepted", "failing"}
        /\ UNCHANGED effects
      BY <1>1, <1>6 DEF StoreOrder, RequestTo, stockVars
  <2>2. \A q \in Orders \ {o} : request'[q] = request[q] /\ status'[q] = status[q]
      BY <1>1, <1>6 DEF StoreOrder, RequestTo
  <2> QED BY <2>1, <2>2 DEF RInv, ReservedSoFar
<1>7. CASE ValidateUser(o)
  <2>1. /\ request[o].stage = "new" /\ UNCHANGED <<status, effects>>
        /\ request'[o].stage \in {"reserving", "failing"} /\ request'[o].item = n
      BY <1>1, <1>7 DEF ValidateUser, RequestTo, stockVars
  <2>2. \A q \in Orders \ {o} : request'[q] = request[q]
      BY <1>1, <1>7 DEF ValidateUser, RequestTo
  <2> QED BY <2>1, <2>2 DEF RInv, ReservedSoFar
<1>8. CASE CompensateRequest(o) \/ LoseRequest(o)
  <2>1. UNCHANGED <<status, effects>> /\ request'[o].stage \in {"rejected", "lost"}
      BY <1>1, <1>8 DEF CompensateRequest, LoseRequest, RequestTo, stockVars
  <2>2. \A q \in Orders \ {o} : request'[q] = request[q]
      BY <1>1, <1>8 DEF CompensateRequest, LoseRequest, RequestTo
  <2> QED BY <2>1, <2>2 DEF RInv, ReservedSoFar
<1> QED
    BY <1>4, <1>5, <1>6, <1>7, <1>8 DEF RequestStep

\* What a handler goes on with, it has found.
LEMMA UpdateCause ==
    ASSUME TInv, [Next]_vars, NEW q \in Orders, NEW j \in 1 .. MaxPayEvents,
           handler'[q][j].stage = "update"
    PROVE  handler[q][j].stage = "update" \/ status[q] # "none"
<1>1. handler \in [Orders -> [1 .. MaxPayEvents -> Handlers]]
    BY DEF TInv, HandlerOK, Handlers
<1>2. ASSUME NEW o \in Orders, NEW i \in 1 .. MaxPayEvents, NEW stage, HandlerTo(o, i, stage)
      PROVE  handler'[q][j].stage = IF q = o /\ j = i THEN stage ELSE handler[q][j].stage
  <2>1. handler' = [handler EXCEPT ![o] = [handler[o] EXCEPT ![i] = [handler[o][i] EXCEPT !.stage = stage]]]
      BY <1>2 DEF HandlerTo
  <2>2. handler'[q][j] = IF q = o /\ j = i THEN [handler[o][i] EXCEPT !.stage = stage]
                                           ELSE handler[q][j]
      BY <1>1, <2>1
  <2>3. [handler[o][i] EXCEPT !.stage = stage].stage = stage
      BY <1>1 DEF Handlers
  <2> QED BY <2>2, <2>3
<1>3. ASSUME NEW o \in Orders, NEW i \in 1 .. MaxPayEvents, ReadOrder(o, i)
      PROVE  handler[q][j].stage = "update" \/ status[q] # "none"
    BY <1>3, <1>2 DEF ReadOrder
<1>4. ASSUME NEW o \in Orders, NEW i \in 1 .. MaxPayEvents,
             UpdateOrder(o, i) \/ AckPayment(o, i) \/ RedeliverPayment(o, i)
      PROVE  handler[q][j].stage = "update"
  <2>1. CASE UpdateOrder(o, i) \/ AckPayment(o, i)
      BY <1>2, <2>1 DEF UpdateOrder, AckPayment
  <2>2. CASE RedeliverPayment(o, i)
      BY <1>1, <2>2 DEF RedeliverPayment
  <2> QED BY <1>4, <2>1, <2>2
<1>5. ASSUME NEW o \in Orders, NEW i \in 1 .. MaxPayEvents, UpdateFails(o, i)
      PROVE  handler[q][j].stage = "update"
    BY <1>1, <1>5 DEF UpdateFails, AfterFailure
<1> QED
    BY HandlerSteps, <1>3, <1>4, <1>5 DEF HandlerStep

LEMMA NextRInv == TInv /\ RInv /\ [Next]_vars => RInv'
<1> SUFFICES ASSUME TInv, RInv, [Next]_vars PROVE RInv'
    OBVIOUS
<1>1. /\ status \in [Orders -> OrderStatus \cup {"none"}]
      /\ \A t : Target(t) \in OrderStatus
      /\ "none" \notin OrderStatus
    BY DEF TInv, StatusOK, Target, OrderStatus
<1>2. \A q \in Orders : status[q] # "none" => status'[q] # "none"
    BY <1>1, StatusCause
<1>3. ReservedSoFar'
  <2>1. ASSUME NEW o \in Orders, RequestStep(o) \/ LoseRequest(o) PROVE ReservedSoFar'
      BY <2>1, RequestRInv
  <2>2. CASE UNCHANGED request /\ ~\E o \in Orders : RequestStep(o)
    <3>1. \A q \in Orders : \A i \in ItemNumbers(q) :
              effects'[q][i].reserve = effects[q][i].reserve
        BY <2>2, EffectCause DEF Ops, Settlement
    <3>2. \A q \in Orders : status'[q] = status[q] \/ status[q] # "none"
      <4>1. ASSUME NEW o \in Orders, NEW i \in 1 .. MaxPayEvents, UpdateOrder(o, i) \/ UpdateFails(o, i)
            PROVE  \A q \in Orders : status'[q] = status[q] \/ status[q] # "none"
          BY <1>1, <4>1 DEF UpdateOrder, UpdateFails, RInv, FoundOrderExists
      <4>2. ASSUME NEW o \in Orders, NEW x \in OrderStatus, EditStatus(o, x)
            PROVE  \A q \in Orders : status'[q] = status[q] \/ status[q] # "none"
          BY <1>1, <4>2 DEF EditStatus
      <4> QED BY <2>2, <4>1, <4>2, StatusSteps DEF RequestStep
    <3> QED BY <2>2, <3>1, <3>2 DEF RInv, ReservedSoFar
  <2> QED BY <2>1, <2>2, RequestSteps
<1>4. FoundOrderExists'
    BY <1>2, UpdateCause DEF RInv, FoundOrderExists
<1> QED
    BY <1>3, <1>4 DEF RInv

LEMMA InvariantRInv == Spec => [](TInv /\ RInv)
  BY InitTInv, NextTInv, InitRInv, NextRInv, PTL DEF Spec

-----------------------------------------------------------------------------
(* An item is settled for an event that has its cause. *)

EventsHaveCause ==
    \A o \in Orders :
        /\ "payment_success" \in Types(payLog[o]) => payments[o] > 0
        /\ "order_success" \in Announced(o) => payments[o] > 0
        /\ "order_failed" \in Announced(o) => "payment_failed" \in Types(payLog[o])

CInv == EventsHaveCause /\ SettlementHasCause

LEMMA InitCInv == Init => CInv
  BY DEF Init, PaymentInit, CInv, EventsHaveCause, SettlementHasCause, Announced, Types, Ops

LEMMA NextCInv == TInv /\ CInv /\ [Next]_vars => CInv'
<1> SUFFICES ASSUME TInv, CInv, [Next]_vars, NEW o \in Orders
             PROVE  /\ "payment_success" \in Types(payLog[o])' => payments'[o] > 0
                    /\ "order_success" \in Announced(o)' => payments'[o] > 0
                    /\ "order_failed" \in Announced(o)' => "payment_failed" \in Types(payLog[o])'
                    /\ \A i \in ItemNumbers(o) :
                          /\ effects'[o][i].confirm > 0 => payments'[o] > 0
                          /\ effects'[o][i].release > 0 => "payment_failed" \in Types(payLog[o])'
    BY DEF CInv, EventsHaveCause, SettlementHasCause
<1>1. payments[o] \in Nat /\ payments'[o] \in Nat
    BY NextTInv DEF TInv, PaymentsOK
<1>2. payments[o] > 0 => payments'[o] > 0
    BY <1>1, PaymentEventCause
<1>3. "payment_failed" \in Types(payLog[o]) => "payment_failed" \in Types(payLog[o])'
    BY PaymentEventCause
<1>4. "payment_success" \in Types(payLog[o])' => payments'[o] > 0
    BY <1>2, PaymentEventCause DEF CInv, EventsHaveCause
<1>5. \A t : Outcome(t) = "order_success" => t = "payment_success"
    BY DEF Outcome
<1>6. \A t \in Types(payLog[o]) : Outcome(t) = "order_failed" => t = "payment_failed"
  <2>1. Types(payLog[o]) \subseteq {"payment_success", "payment_failed"}
    <3>1. \A k \in DOMAIN payLog[o] : payLog[o][k] \in PaymentEvents
        BY DEF TInv, LogsOK
    <3> QED BY <3>1 DEF PaymentEvents, Types
  <2> QED BY <2>1 DEF Outcome
<1>7. "order_success" \in Announced(o)' => payments'[o] > 0
    BY <1>2, <1>5, OrderEventCause DEF CInv, EventsHaveCause
<1>8. "order_failed" \in Announced(o)' => "payment_failed" \in Types(payLog[o])'
    BY <1>3, <1>6, OrderEventCause DEF CInv, EventsHaveCause
<1>9. ASSUME NEW i \in ItemNumbers(o)
      PROVE  /\ effects'[o][i].confirm > 0 => payments'[o] > 0
             /\ effects'[o][i].release > 0 => "payment_failed" \in Types(payLog[o])'
  <2>1. Announced(o) \subseteq OrderEvents
      BY DEF TInv, LogsOK, Announced
  <2>2. \/ effects'[o][i].confirm = effects[o][i].confirm
        \/ "order_success" \in Announced(o)
      BY <2>1, EffectCause DEF Ops, Settlement, OrderEvents
  <2>3. \/ effects'[o][i].release = effects[o][i].release
        \/ "order_failed" \in Announced(o)
      BY <2>1, EffectCause DEF Ops, Settlement, OrderEvents
  <2> QED
      BY <1>2, <1>3, <2>2, <2>3 DEF CInv, EventsHaveCause, SettlementHasCause
<1> QED
    BY <1>4, <1>7, <1>8, <1>9

LEMMA InvariantCInv == Spec => [](TInv /\ CInv)
  BY InitTInv, NextTInv, InitCInv, NextCInv, PTL DEF Spec

-----------------------------------------------------------------------------
(* What holds as long as nobody edits the order or pays for it by hand. *)

LEMMA EditsGrow ==
    ASSUME TInv, [Next]_vars
    PROVE  edits \in Nat /\ edits' \in Nat /\ edits <= edits'
<1> USE DEF BoundsOK
<1>1. edits \in Nat /\ edits' \in Nat
    BY Bounds, NextTInv DEF TInv
<1>2. CASE OrderNext
    BY <1>1, <1>2 DEF OrderNext, RequestStep, HandlerStep, ValidateUser, ReserveItem, PriceItem,
           StoreOrder, CompensateRequest, LoseRequest, ReadOrder, UpdateOrder, UpdateFails,
           AckPayment, RedeliverPayment, EditStatus
<1>3. CASE PaymentNext
    BY <1>1, <1>3 DEF PaymentNext, PaymentStep, TakeOrderEvent, CreatePayment, CreateRaises,
           Compensate, AckOrderCreated, RedeliverOrderCreated, PostPayment
<1>4. CASE ProductNext
    BY <1>1, <1>4 DEF ProductNext, ProductStep, TakeOutcome, SettleItem, AckOutcome, RedeliverOutcome
<1> QED
    BY <1>1, <1>2, <1>3, <1>4 DEF Next, RepeatOrderEvent, RepeatPaymentEvent, vars

AInv == edits = 0 => StatusIsAnnounced

LEMMA AnnouncedMeaning ==
    StatusIsAnnounced <=>
        \A o \in Orders : /\ status[o] = "pending" => "order_created" \in Announced(o)
                          /\ status[o] = "completed" => "order_success" \in Announced(o)
                          /\ status[o] = "cancelled" => "order_failed" \in Announced(o)
  BY DEF StatusIsAnnounced, Announced

LEMMA InitAInv == Init => AInv
  BY DEF Init, OrderInit, AInv, StatusIsAnnounced

LEMMA NextAInv == TInv /\ AInv /\ [Next]_vars => AInv'
<1> SUFFICES ASSUME TInv, AInv, [Next]_vars, edits' = 0, NEW o \in Orders
             PROVE  /\ status'[o] = "pending" => "order_created" \in Announced(o)'
                    /\ status'[o] = "completed" => "order_success" \in Announced(o)'
                    /\ status'[o] = "cancelled" => "order_failed" \in Announced(o)'
    BY DEF AInv, StatusIsAnnounced, Announced
<1>1. edits = 0 /\ ~(edits' > edits)
    BY EditsGrow
<1>2. CASE status'[o] = status[o]
    BY <1>1, <1>2, OrderEventCause, AnnouncedMeaning DEF AInv
<1>3. CASE status'[o] # status[o]
  <2>1. CASE status'[o] = "pending" /\ "order_created" \in Announced(o)'
      BY <2>1
  <2>2. ASSUME NEW i \in 1 .. MaxPayEvents,
               status'[o] = Target(payLog[o][i].type),
               Outcome(payLog[o][i].type) \in Announced(o)'
        PROVE  \/ status'[o] = "completed" /\ "order_success" \in Announced(o)'
               \/ status'[o] = "cancelled" /\ "order_failed" \in Announced(o)'
      BY <2>2 DEF Target, Outcome
  <2> QED
      BY <1>1, <1>3, <2>1, <2>2, StatusCause
<1> QED
    BY <1>2, <1>3

\* Every step either is no fault or is one, and counts it.
LEMMA FaultSteps ==
    ASSUME [Next]_vars
    PROVE  UNCHANGED faults \/ \E kind : Fault(kind)
<1> USE DEF NoFault
<1>1. CASE OrderNext
    BY <1>1 DEF OrderNext, RequestStep, HandlerStep, ValidateUser, ReserveItem, PriceItem,
           StoreOrder, CompensateRequest, LoseRequest, ReadOrder, UpdateOrder, UpdateFails,
           AckPayment, RedeliverPayment, EditStatus
<1>2. CASE PaymentNext
    BY <1>2 DEF PaymentNext, PaymentStep, TakeOrderEvent, CreatePayment, CreateRaises,
           Compensate, AckOrderCreated, RedeliverOrderCreated, PostPayment
<1>3. CASE ProductNext
    BY <1>3 DEF ProductNext, ProductStep, TakeOutcome, SettleItem, AckOutcome, RedeliverOutcome
<1> QED
    BY <1>1, <1>2, <1>3 DEF Next, RepeatOrderEvent, RepeatPaymentEvent, vars

LEMMA FaultsGrow ==
    ASSUME TInv, [Next]_vars
    PROVE  faults \in Nat /\ faults' \in Nat /\ faults <= faults' /\ faults' <= MaxFaults
<1>1. faults \in 0 .. MaxFaults /\ faults' \in 0 .. MaxFaults
    BY NextTInv DEF TInv, BoundsOK
<1>2. UNCHANGED faults \/ faults' = faults + 1
    BY FaultSteps DEF Fault
<1> QED BY <1>1, <1>2, Bounds

\* The attempts to pay for an order are counted from zero, one by one; the last
\* gives the payment up.
LEMMA ChargeSteps ==
    ASSUME TInv, [Next]_vars, NEW q \in Orders
    PROVE  \/ /\ charge'[q].tries = charge[q].tries
              /\ charge'[q].stage = "compensating" => charge[q].stage = "compensating"
           \/ charge'[q].tries = 0 /\ charge'[q].stage # "compensating"
           \/ CreateRaises(q)
<1> DEFINE Follows == \/ /\ charge'[q].tries = charge[q].tries
                         /\ charge'[q].stage = "compensating" => charge[q].stage = "compensating"
                      \/ charge'[q].tries = 0 /\ charge'[q].stage # "compensating"
                      \/ CreateRaises(q)
<1> USE DEF paymentVars
<1>1. charge \in [Orders -> Charges]
    BY DEF TInv, ChargeOK, Charges
<1>2. UNCHANGED charge \/ PaymentNext
  <2>1. CASE OrderNext
      BY <2>1 DEF OrderNext, RequestStep, HandlerStep, ValidateUser, ReserveItem, PriceItem,
           StoreOrder, CompensateRequest, LoseRequest, ReadOrder, UpdateOrder, UpdateFails,
           AckPayment, RedeliverPayment, EditStatus
  <2>2. CASE ProductNext
      BY <2>2 DEF ProductNext, ProductStep, TakeOutcome, SettleItem, AckOutcome, RedeliverOutcome
  <2> QED
      BY <2>1, <2>2 DEF Next, RepeatOrderEvent, RepeatPaymentEvent, vars
<1>3. CASE UNCHANGED charge
    BY <1>3
<1>4. ASSUME NEW o \in Orders, CreateRaises(o) PROVE Follows
  <2>1. q # o => charge'[q] = charge[q]
      BY <1>1, <1>4 DEF CreateRaises
  <2> QED BY <1>4, <2>1
<1>5. ASSUME NEW o \in Orders,
             \/ TakeOrderEvent(o) \/ CreatePayment(o) \/ Compensate(o)
             \/ AckOrderCreated(o) \/ RedeliverOrderCreated(o) \/ PostPayment(o)
      PROVE  Follows
  <2>1. q # o => charge'[q] = charge[q]
      BY <1>1, <1>5 DEF TakeOrderEvent, CreatePayment, Compensate, AckOrderCreated,
                        RedeliverOrderCreated, PostPayment, ChargeTo
  <2>2. ASSUME NEW stage, ChargeTo(o, stage)
        PROVE  charge'[o].stage = stage /\ charge'[o].tries = charge[o].tries
    <3>1. charge'[o] = [charge[o] EXCEPT !.stage = stage]
        BY <1>1, <2>2 DEF ChargeTo
    <3> QED BY <1>1, <3>1 DEF Charges
  <2>3. CASE TakeOrderEvent(o)
    <3>1. CASE charge' = [charge EXCEPT ![o].stage = "creating", ![o].tries = 0]
      <4>1. charge'[o].stage = "creating" /\ charge'[o].tries = 0
          BY <1>1, <3>1 DEF Charges
      <4> QED BY <2>1, <4>1
    <3>2. CASE charge' = [charge EXCEPT ![o].pos = @ + 1]
      <4>1. charge'[o].stage = charge[o].stage /\ charge'[o].tries = charge[o].tries
          BY <1>1, <3>2 DEF Charges
      <4> QED BY <2>1, <4>1
    <3> QED BY <2>3, <3>1, <3>2 DEF TakeOrderEvent
  <2>4. CASE CreatePayment(o) \/ Compensate(o)
      BY <2>1, <2>2, <2>4 DEF CreatePayment, Compensate
  <2>5. CASE AckOrderCreated(o)
    <3>1. charge'[o].stage = "idle" /\ charge'[o].tries = 0
        BY <1>1, <2>5 DEF AckOrderCreated
    <3> QED BY <2>1, <3>1
  <2>6. CASE RedeliverOrderCreated(o)
    <3>1. charge' = [charge EXCEPT ![o].stage = "idle", ![o].tries = 0]
        BY <2>6 DEF RedeliverOrderCreated
    <3>2. charge'[o].stage = "idle" /\ charge'[o].tries = 0
        BY <1>1, <3>1 DEF Charges
    <3> QED BY <2>1, <3>2
  <2>7. CASE PostPayment(o)
      BY <2>7 DEF PostPayment
  <2> QED BY <1>5, <2>3, <2>4, <2>5, <2>6, <2>7
<1> QED
    BY <1>2, <1>3, <1>4, <1>5 DEF PaymentNext, PaymentStep

\* Unless the amount is refused, an attempt is lost to a fault.
TriesCost == \A o \in Orders : o \notin Refused => charge[o].tries <= faults

LEMMA RaiseFacts ==
    ASSUME TInv, NEW q \in Orders, CreateRaises(q)
    PROVE  /\ charge'[q].tries = charge[q].tries + 1
           /\ charge'[q].stage = "compensating" <=> charge[q].tries + 1 = MaxAttempts
           /\ q \notin Refused => faults' = faults + 1 /\ {"db", "uncertain"} \cap Faults # {}
<1>1. charge \in [Orders -> Charges]
    BY DEF TInv, ChargeOK, Charges
<1> DEFINE stage == IF charge[q].tries + 1 = MaxAttempts THEN "compensating" ELSE "creating"
<1>2. charge' = [charge EXCEPT ![q].tries = @ + 1, ![q].stage = stage]
    BY DEF CreateRaises
<1>3. charge'[q].tries = charge[q].tries + 1 /\ charge'[q].stage = stage
    BY <1>1, <1>2 DEF Charges
<1>4. q \notin Refused => faults' = faults + 1 /\ {"db", "uncertain"} \cap Faults # {}
    BY DEF CreateRaises, Fault
<1> QED BY <1>3, <1>4

LEMMA InitTriesCost == Init => TriesCost
  BY DEF Init, PaymentInit, TriesCost

LEMMA NextTriesCost == TInv /\ TriesCost /\ [Next]_vars => TriesCost'
<1> SUFFICES ASSUME TInv, TriesCost, [Next]_vars, NEW q \in Orders, q \notin Refused
             PROVE  charge'[q].tries <= faults'
    BY DEF TriesCost
<1>1. faults \in Nat /\ faults' \in Nat /\ faults <= faults'
    BY FaultsGrow
<1>2. charge[q].tries \in Nat /\ charge[q].tries <= faults
    BY DEF TInv, ChargeOK, MaxAttempts, TriesCost
<1>3. CASE CreateRaises(q)
    BY <1>1, <1>2, <1>3, RaiseFacts
<1> QED BY <1>1, <1>2, <1>3, ChargeSteps

\* No payment is given up unless its amount is refused: no transaction fails, or
\* there are too few faults to use up the attempts.
NoGivingUp == {"db", "uncertain"} \cap Faults = {} \/ MaxFaults < MaxAttempts

\* A payment is given up for a refused order, or because transactions failed.
LEMMA GiveUpCause ==
    ASSUME NoGivingUp, TInv, TriesCost, [Next]_vars, NEW q \in Orders,
           charge'[q].stage = "compensating"
    PROVE  charge[q].stage = "compensating" \/ q \in Refused
<1>1. faults \in Nat /\ faults' \in Nat /\ faults' <= MaxFaults
    BY FaultsGrow
<1>2. charge[q].tries \in Nat
    BY DEF TInv, ChargeOK, MaxAttempts
<1>3. CASE CreateRaises(q) /\ q \notin Refused
  <2>1. charge[q].tries + 1 = MaxAttempts /\ faults' = faults + 1 /\ {"db", "uncertain"} \cap Faults # {}
      BY <1>3, RaiseFacts
  <2>2. charge[q].tries <= faults
      BY <1>3 DEF TriesCost
  <2> QED BY <1>1, <1>2, <2>1, <2>2, Bounds DEF NoGivingUp, MaxAttempts
<1> QED BY <1>3, ChargeSteps

\* Nothing but the amount decides about the payment.
OneDecision ==
    edits = 0 => \A o \in Orders :
        /\ o \in Refused => payments[o] = 0
        /\ charge[o].stage = "compensating" => o \in Refused
        /\ "payment_failed" \in Types(payLog[o]) => o \in Refused

LEMMA InitOneDecision == Init => OneDecision
  BY DEF Init, PaymentInit, OneDecision, Types

LEMMA NextOneDecision ==
    ASSUME NoGivingUp
    PROVE  TInv /\ TriesCost /\ OneDecision /\ [Next]_vars => OneDecision'
<1> SUFFICES ASSUME TInv, TriesCost, OneDecision, [Next]_vars, edits' = 0, NEW o \in Orders
             PROVE  /\ o \in Refused => payments'[o] = 0
                    /\ charge'[o].stage = "compensating" => o \in Refused
                    /\ "payment_failed" \in Types(payLog[o])' => o \in Refused
    BY DEF OneDecision
<1>1. edits = 0 /\ ~(edits' > edits)
    BY EditsGrow
<1> QED
    BY <1>1, PaymentEventCause, GiveUpCause DEF OneDecision

LEMMA OneOutcome ==
    ASSUME TInv, CInv, OneDecision, edits = 0
    PROVE  NoMixedOutcome
  BY DEF CInv, SettlementHasCause, OneDecision, NoMixedOutcome

\* Without edits the status has no other values than the saga gives it.
SagaStatus == edits = 0 => \A o \in Orders : status[o] \in {"none", "pending", "completed", "cancelled"}

LEMMA InitSagaStatus == Init => SagaStatus
  BY DEF Init, OrderInit, SagaStatus

LEMMA NextSagaStatus == TInv /\ SagaStatus /\ [Next]_vars => SagaStatus'
<1> SUFFICES ASSUME TInv, SagaStatus, [Next]_vars, edits' = 0, NEW o \in Orders
             PROVE  status'[o] \in {"none", "pending", "completed", "cancelled"}
    BY DEF SagaStatus
<1>1. edits = 0 /\ ~(edits' > edits)
    BY EditsGrow
<1>2. CASE status'[o] = status[o]
    BY <1>1, <1>2 DEF SagaStatus
<1>3. CASE status'[o] # status[o]
    BY <1>1, <1>3, StatusCause DEF Target
<1> QED BY <1>2, <1>3

\* An order that gets one outcome has been decided for it, if at all.
LEMMA DecidedAlike ==
    ASSUME TInv, RInv, CInv, AInv, OneDecision, SagaStatus, [Next]_vars, edits' = 0,
           NEW o \in Orders, status'[o] # status[o]
    PROVE  status[o] \in {"none", "pending"} /\ (status'[o] = "cancelled" => status[o] = "pending")
<1>1. edits = 0 /\ ~(edits' > edits)
    BY EditsGrow
<1>2. CASE request[o].stage = "storing" /\ status'[o] = "pending"
    BY <1>2 DEF RInv, ReservedSoFar
<1>3. ASSUME NEW i \in 1 .. MaxPayEvents, handler[o][i].stage = "update",
             status'[o] = Target(payLog[o][i].type)
      PROVE  status[o] = "pending"
  <2> DEFINE type == payLog[o][i].type
  <2>1. i \in DOMAIN payLog[o] /\ type \in {"payment_success", "payment_failed"} /\ type \in Types(payLog[o])
    <3>1. i \in DOMAIN payLog[o] /\ payLog[o] \in Seq(PaymentEvents)
        BY <1>3 DEF TInv, HandlerOK, LogsOK
    <3>2. payLog[o][i] \in PaymentEvents
        BY <3>1
    <3> QED BY <3>1, <3>2 DEF PaymentEvents, Types
  <2>2. status[o] # "none"
      BY <1>3 DEF RInv, FoundOrderExists
  <2>3. ASSUME status[o] = "completed" PROVE payments[o] > 0
    <3>1. "order_success" \in Announced(o)
        BY <1>1, <2>3, AnnouncedMeaning DEF AInv
    <3> QED BY <3>1 DEF CInv, EventsHaveCause
  <2>4. ASSUME status[o] = "cancelled" PROVE "payment_failed" \in Types(payLog[o])
    <3>1. "order_failed" \in Announced(o)
        BY <1>1, <2>4, AnnouncedMeaning DEF AInv
    <3> QED BY <3>1 DEF CInv, EventsHaveCause
  <2>5. "payment_failed" \in Types(payLog[o]) => payments[o] = 0
      BY <1>1 DEF OneDecision
  <2>6. "payment_success" \in Types(payLog[o]) => payments[o] > 0
      BY DEF CInv, EventsHaveCause
  <2>7. status[o] \in {"none", "pending", "completed", "cancelled"}
      BY <1>1 DEF SagaStatus
  <2>8. CASE type = "payment_success"
    <3>1. status'[o] = "completed" /\ payments[o] > 0
        BY <1>3, <2>1, <2>6, <2>8 DEF Target
    <3>2. status[o] # "cancelled"
        BY <2>4, <2>5, <3>1
    <3> QED BY <2>2, <2>7, <3>1, <3>2
  <2>9. CASE type = "payment_failed"
    <3>1. status'[o] = "cancelled" /\ payments[o] = 0
        BY <1>3, <2>1, <2>5, <2>9 DEF Target
    <3>2. status[o] # "completed"
        BY <2>3, <3>1
    <3> QED BY <2>2, <2>7, <3>1, <3>2
  <2> QED BY <2>1, <2>8, <2>9
<1>4. status'[o] = "cancelled" => status'[o] # "pending"
    OBVIOUS
<1> QED BY <1>1, <1>2, <1>3, <1>4, StatusCause

-----------------------------------------------------------------------------
(* How many payment events an order can have. *)

\* Positions of the order_created events the payment service has not handled yet.
Due(o) == {k \in charge[o].pos + 1 .. Len(orderLog[o]) :
              /\ orderLog[o][k] = "order_created"
              /\ charge[o].stage = "done" => k # charge[o].pos + 1}

\* 1 until the request has stored its order, or cannot any more.
Coming(o) == IF request[o].stage \in {"new", "reserving", "pricing", "storing"} THEN 1 ELSE 0

ChargesCreated ==
    \A o \in Orders : charge[o].stage # "idle" =>
        /\ charge[o].pos + 1 \in DOMAIN orderLog[o]
        /\ orderLog[o][charge[o].pos + 1] = "order_created"

EventsAreCounted ==
    \A o \in Orders :
        /\ payments[o] <= Len(payLog[o])
        /\ Len(payLog[o]) + Cardinality(Due(o)) + Coming(o) <= 1 + faults + edits

CountInv == ChargesCreated /\ EventsAreCounted

LEMMA InitCountInv == Init => CountInv
<1> SUFFICES ASSUME Init, NEW o \in Orders
             PROVE  /\ charge[o].stage = "idle" /\ payments[o] = 0 /\ payLog[o] = <<>>
                    /\ Due(o) = {} /\ Coming(o) = 1 /\ faults = 0 /\ edits = 0
    BY FS_EmptySet DEF CountInv, ChargesCreated, EventsAreCounted
<1>1. charge[o] = [pos |-> 0, stage |-> "idle", tries |-> 0] /\ orderLog[o] = <<>> /\ payLog[o] = <<>>
    BY DEF Init, PaymentInit
<1> QED BY <1>1 DEF Init, PaymentInit, OrderInit, Due, Coming

\* One element more is one more at most, one less is one less.
LEMMA GrowsByOne ==
    ASSUME NEW A, NEW B, NEW x, IsFiniteSet(B), A \subseteq B \cup {x}
    PROVE  /\ Cardinality(A) \in Nat /\ Cardinality(B) \in Nat
           /\ Cardinality(A) <= Cardinality(B) + 1
<1>1. IsFiniteSet(B \cup {x}) /\ Cardinality(B \cup {x}) <= Cardinality(B) + 1
  <2>1. Cardinality(B) \in Nat
      BY FS_CardinalityType
  <2>2. /\ IsFiniteSet(B \cup {x})
        /\ Cardinality(B \cup {x}) = IF x \in B THEN Cardinality(B) ELSE Cardinality(B) + 1
      BY FS_AddElement
  <2> QED BY <2>1, <2>2
<1>2. IsFiniteSet(A) /\ Cardinality(A) <= Cardinality(B \cup {x})
    BY <1>1, FS_Subset
<1> QED BY <1>1, <1>2, FS_CardinalityType

LEMMA ShrinksByOne ==
    ASSUME NEW A, NEW B, NEW x \in B, IsFiniteSet(B), A \subseteq B \ {x}
    PROVE  Cardinality(A) + 1 <= Cardinality(B) /\ Cardinality(A) \in Nat /\ Cardinality(B) \in Nat
<1>1. IsFiniteSet(B \ {x}) /\ Cardinality(B \ {x}) = Cardinality(B) - 1
    BY FS_RemoveElement
<1>2. IsFiniteSet(A) /\ Cardinality(A) <= Cardinality(B \ {x})
    BY <1>1, FS_Subset
<1> QED BY <1>1, <1>2, FS_CardinalityType

LEMMA CountTypes ==
    ASSUME TInv, NEW o \in Orders
    PROVE  /\ charge[o].pos \in Nat /\ Len(orderLog[o]) \in Nat /\ Len(payLog[o]) \in Nat
           /\ DOMAIN orderLog[o] = 1 .. Len(orderLog[o])
           /\ payments[o] \in Nat /\ faults \in Nat /\ edits \in Nat
           /\ Coming(o) \in {0, 1}
           /\ IsFiniteSet(Due(o)) /\ Cardinality(Due(o)) \in Nat
<1>1. charge[o].pos \in Nat /\ payments[o] \in Nat
    BY DEF TInv, ChargeOK, PaymentsOK
<1>2. orderLog[o] \in Seq(OrderEvents) /\ payLog[o] \in Seq(PaymentEvents)
    BY DEF TInv, LogsOK
<1>3. faults \in Nat /\ edits \in Nat
    BY Bounds DEF TInv, BoundsOK
<1>4. IsFiniteSet(Due(o))
  <2> DEFINE first == charge[o].pos + 1
             last  == Len(orderLog[o])
  <2>1. IsFiniteSet(first .. last)
    <3>1. first \in Int /\ last \in Int
        BY <1>1, <1>2
    <3> HIDE DEF first, last
    <3> QED BY <3>1, FS_Interval
  <2> QED BY <2>1, FS_Subset DEF Due
<1> QED BY <1>1, <1>2, <1>3, <1>4, FS_CardinalityType DEF Coming

\* An event more in the log of o: one more is due, if it is an order_created.
LEMMA DueAppends ==
    ASSUME TInv, NEW o \in Orders, NEW e, EmitOrder(o, e), UNCHANGED charge
    PROVE  /\ Due(o)' \subseteq Due(o) \cup {Len(orderLog[o]) + 1}
           /\ e # "order_created" => Due(o)' \subseteq Due(o)
           /\ \A k \in DOMAIN orderLog[o] : k \in DOMAIN orderLog'[o] /\ orderLog'[o][k] = orderLog[o][k]
           /\ \A q \in Orders : q # o => orderLog'[q] = orderLog[q]
<1>1. orderLog \in [Orders -> Seq(OrderEvents)] /\ orderLog[o] \in Seq(OrderEvents)
    BY DEF TInv, LogsOK
<1>2. orderLog'[o] = Append(orderLog[o], e) /\ \A q \in Orders : q # o => orderLog'[q] = orderLog[q]
    BY <1>1 DEF EmitOrder
<1>3. /\ Len(orderLog'[o]) = Len(orderLog[o]) + 1 /\ Len(orderLog[o]) \in Nat
      /\ \A k \in 1 .. Len(orderLog[o]) : orderLog'[o][k] = orderLog[o][k]
      /\ orderLog'[o][Len(orderLog[o]) + 1] = e
      /\ DOMAIN orderLog[o] = 1 .. Len(orderLog[o])
      /\ DOMAIN orderLog'[o] = 1 .. Len(orderLog[o]) + 1
    BY <1>1, <1>2
<1>4. charge[o].pos \in Nat
    BY CountTypes
<1> QED BY <1>2, <1>3, <1>4 DEF Due

LEMMA PayAppends ==
    ASSUME TInv, NEW o \in Orders, NEW type, NEW key, EmitPayment(o, type, key)
    PROVE  /\ Len(payLog'[o]) = Len(payLog[o]) + 1
           /\ \A q \in Orders : q # o => payLog'[q] = payLog[q]
<1>1. payLog \in [Orders -> Seq(PaymentEvents)] /\ payLog[o] \in Seq(PaymentEvents)
    BY DEF TInv, LogsOK
<1>2. payLog'[o] = Append(payLog[o], [type |-> type, key |-> key])
      /\ \A q \in Orders : q # o => payLog'[q] = payLog[q]
    BY <1>1 DEF EmitPayment
<1> QED BY <1>1, <1>2

\* What CountInv looks at of an order.
CountStays(q) ==
    /\ orderLog'[q] = orderLog[q] /\ charge'[q] = charge[q]
    /\ payLog'[q] = payLog[q] /\ payments'[q] = payments[q]
    /\ Coming(q)' <= Coming(q)

Counted(o) ==
    /\ charge[o].stage # "idle" =>
          /\ charge[o].pos + 1 \in DOMAIN orderLog[o]
          /\ orderLog[o][charge[o].pos + 1] = "order_created"
    /\ payments[o] <= Len(payLog[o])
    /\ Len(payLog[o]) + Cardinality(Due(o)) + Coming(o) <= 1 + faults + edits

LEMMA CountFrame ==
    ASSUME TInv, [Next]_vars, NEW q \in Orders, Counted(q), CountStays(q)
    PROVE  Counted(q)'
<1>1. Due(q)' = Due(q)
    BY DEF Due, CountStays
<1>2. faults <= faults' /\ edits <= edits' /\ faults' \in Nat /\ edits' \in Nat
    BY FaultsGrow, EditsGrow
<1>3. Coming(q)' \in {0, 1} /\ Coming(q) \in {0, 1}
    BY DEF Coming
<1>4. Len(payLog[q]) + Cardinality(Due(q))' + Coming(q)' <= 1 + faults' + edits'
  <2>1. Len(payLog[q]) + Cardinality(Due(q)) + Coming(q) <= 1 + faults + edits /\ Coming(q)' <= Coming(q)
      BY DEF Counted, CountStays
  <2>2. Len(payLog[q]) \in Nat /\ Cardinality(Due(q)) \in Nat /\ faults \in Nat /\ edits \in Nat
      BY CountTypes
  <2>3. Cardinality(Due(q))' = Cardinality(Due(q))
      BY <1>1
  <2> QED BY <1>2, <1>3, <2>1, <2>2, <2>3
<1> QED BY <1>4 DEF Counted, CountStays

LEMMA ComingFalls ==
    ASSUME TInv, [Next]_vars, NEW q \in Orders
    PROVE  Coming(q)' <= Coming(q) /\ Coming(q) \in {0, 1} /\ Coming(q)' \in {0, 1}
<1>1. Coming(q) \in {0, 1} /\ Coming(q)' \in {0, 1}
    BY DEF Coming
<1>2. request \in [Orders -> [stage : RequestStage, item : Nat]]
    BY DEF TInv, RequestOK
<1>3. ASSUME request[q].stage \notin {"new", "reserving", "pricing", "storing"}
      PROVE  request'[q].stage \notin {"new", "reserving", "pricing", "storing"}
  <2>1. ASSUME NEW o \in Orders, RequestStep(o) \/ LoseRequest(o), o # q
        PROVE  request'[q] = request[q]
      BY <1>2, <2>1 DEF RequestStep, ValidateUser, ReserveItem, PriceItem, StoreOrder,
           CompensateRequest, LoseRequest, RequestTo
  <2>2. ASSUME RequestStep(q) \/ LoseRequest(q)
        PROVE  RequestTo(q, "rejected") \/ RequestTo(q, "lost")
      BY <1>3, <2>2 DEF RequestStep, ValidateUser, ReserveItem, PriceItem, StoreOrder,
           CompensateRequest, LoseRequest
  <2>3. ASSUME NEW stage, RequestTo(q, stage) PROVE request'[q].stage = stage
      BY <1>2, <2>3 DEF RequestTo
  <2> QED BY <1>3, <2>1, <2>2, <2>3, RequestSteps
<1>4. CASE request[q].stage \in {"new", "reserving", "pricing", "storing"}
    BY <1>1, <1>4 DEF Coming
<1>5. CASE request[q].stage \notin {"new", "reserving", "pricing", "storing"}
    BY <1>1, <1>3, <1>5 DEF Coming
<1> QED BY <1>1, <1>4, <1>5

\* The steps that change what CountInv looks at.
LEMMA CountSteps ==
    ASSUME TInv, [Next]_vars, NEW q \in Orders, ~ CountStays(q)
    PROVE  \/ StoreOrder(q)
           \/ \E i \in 1 .. MaxPayEvents : UpdateOrder(q, i) \/ UpdateFails(q, i)
           \/ RepeatOrderEvent(q)
           \/ PaymentStep(q) \/ RedeliverOrderCreated(q) \/ PostPayment(q)
           \/ RepeatPaymentEvent(q)
<1>1. Coming(q)' <= Coming(q)
    BY ComingFalls
<1>2. ASSUME orderLog'[q] # orderLog[q]
      PROVE  \/ StoreOrder(q) \/ RepeatOrderEvent(q)
             \/ \E i \in 1 .. MaxPayEvents : UpdateOrder(q, i) \/ UpdateFails(q, i)
  <2>1. ASSUME NEW o \in Orders, NEW e, o # q, EmitOrder(o, e) PROVE FALSE
      BY <1>2, <2>1 DEF EmitOrder, TInv, LogsOK
  <2>2. ASSUME NEW o \in Orders, UNCHANGED orderLog \/ \E e : EmitOrder(o, e) PROVE o = q
      BY <1>2, <2>1, <2>2
  <2>3. ASSUME NEW o \in Orders, StoreOrder(o) PROVE o = q
      BY <2>2, <2>3 DEF StoreOrder
  <2>4. ASSUME NEW o \in Orders, RepeatOrderEvent(o) PROVE o = q
      BY <2>2, <2>4 DEF RepeatOrderEvent
  <2>5. ASSUME NEW o \in Orders, NEW i \in 1 .. MaxPayEvents, UpdateOrder(o, i) \/ UpdateFails(o, i)
        PROVE  o = q
      BY <2>2, <2>5 DEF UpdateOrder, UpdateFails
  <2> QED BY <1>2, <2>3, <2>4, <2>5, OrderEventSteps
<1>3. ASSUME payLog'[q] # payLog[q] \/ payments'[q] # payments[q]
      PROVE  PaymentStep(q) \/ PostPayment(q) \/ RepeatPaymentEvent(q)
  <2>1. payLog \in [Orders -> Seq(PaymentEvents)] /\ payments \in [Orders -> Nat]
      BY DEF TInv, LogsOK, PaymentsOK
  <2>2. ASSUME NEW o \in Orders, o # q,
               CreatePayment(o) \/ CreateRaises(o) \/ Compensate(o) \/ PostPayment(o)
        PROVE  FALSE
      BY <1>3, <2>1, <2>2 DEF CreatePayment, CreateRaises, Compensate, PostPayment, InsertPayment,
         EmitPayment
  <2>3. ASSUME NEW o \in Orders, o # q, RepeatPaymentEvent(o) PROVE FALSE
      BY <1>3, <2>1, <2>3 DEF RepeatPaymentEvent, paymentVars
  <2> QED BY <1>3, <2>2, <2>3, PaymentSteps DEF PaymentStep
<1>4. ASSUME charge'[q] # charge[q]
      PROVE  PaymentStep(q) \/ RedeliverOrderCreated(q)
  <2>1. charge \in [Orders -> Charges]
      BY DEF TInv, ChargeOK, Charges
  <2>2. UNCHANGED charge \/ PaymentNext
    <3> USE DEF paymentVars
    <3>1. CASE OrderNext
        BY <3>1 DEF OrderNext, RequestStep, HandlerStep, ValidateUser, ReserveItem, PriceItem,
           StoreOrder, CompensateRequest, LoseRequest, ReadOrder, UpdateOrder, UpdateFails,
           AckPayment, RedeliverPayment, EditStatus
    <3>2. CASE ProductNext
        BY <3>2 DEF ProductNext, ProductStep, TakeOutcome, SettleItem, AckOutcome, RedeliverOutcome
    <3> QED
        BY <3>1, <3>2 DEF Next, RepeatOrderEvent, RepeatPaymentEvent, vars
  <2>3. PICK o \in Orders : PaymentStep(o) \/ RedeliverOrderCreated(o) \/ PostPayment(o)
      BY <1>4, <2>2 DEF PaymentNext
  <2>4. o = q
      BY <1>4, <2>1, <2>3 DEF PaymentStep, TakeOrderEvent, CreatePayment, CreateRaises, Compensate,
         AckOrderCreated, RedeliverOrderCreated, PostPayment, ChargeTo
  <2>5. ~ PostPayment(q)
      BY <1>4 DEF PostPayment
  <2> QED BY <2>3, <2>4, <2>5
<1> QED BY <1>1, <1>2, <1>3, <1>4 DEF CountStays

\* The event being handled is the first of those that are due.
LEMMA HandledIsDue ==
    ASSUME TInv, NEW q \in Orders, Counted(q), charge[q].stage \in {"creating", "compensating"}
    PROVE  charge[q].pos + 1 \in Due(q)
<1>1. charge[q].pos \in Nat /\ DOMAIN orderLog[q] = 1 .. Len(orderLog[q]) /\ Len(orderLog[q]) \in Nat
    BY CountTypes
<1>2. charge[q].pos + 1 \in DOMAIN orderLog[q] /\ orderLog[q][charge[q].pos + 1] = "order_created"
    BY DEF Counted
<1> QED BY <1>1, <1>2 DEF Due

\* With the log as it is, what is due depends on the work on it alone.
LEMMA DueMoves ==
    ASSUME TInv, NEW q \in Orders, orderLog'[q] = orderLog[q], NEW stage, NEW tries,
           charge'[q] = [pos |-> charge[q].pos, stage |-> stage, tries |-> tries]
    PROVE  /\ stage = "done" => Due(q)' \subseteq Due(q) \ {charge[q].pos + 1}
           /\ charge[q].stage # "done" => Due(q)' \subseteq Due(q)
           /\ Due(q)' \subseteq Due(q) \cup {charge[q].pos + 1}
<1>1. charge'[q].pos = charge[q].pos /\ charge'[q].stage = stage
    OBVIOUS
<1> QED BY <1>1 DEF Due

\* A part of a finite set is no larger than the set.
LEMMA CardFalls ==
    ASSUME NEW A, NEW B, IsFiniteSet(B), A \subseteq B
    PROVE  Cardinality(A) <= Cardinality(B) /\ Cardinality(A) \in Nat /\ Cardinality(B) \in Nat
  BY FS_Subset, FS_CardinalityType

\* The bound that Counted sets only grows as faults happen.
LEMMA BoundGrows ==
    ASSUME NEW f \in Nat, NEW g \in Nat, NEW k \in Nat, f <= g
    PROVE  1 + f + k \in Int /\ 1 + g + k \in Int /\ 1 + f + k <= 1 + g + k
  OBVIOUS

LEMMA CountStoreOrder ==
    ASSUME TInv, [Next]_vars, NEW q \in Orders, Counted(q), StoreOrder(q)
    PROVE  Counted(q)'
<1>1. charge' = charge /\ payLog' = payLog /\ payments' = payments /\ edits' = edits
    BY DEF StoreOrder, paymentVars
<1>2. /\ Len(payLog[q]) \in Nat /\ IsFiniteSet(Due(q)) /\ Cardinality(Due(q)) \in Nat
      /\ faults \in Nat /\ edits \in Nat
    BY CountTypes
<1>3. faults \in Nat /\ faults' \in Nat /\ faults <= faults'
    BY FaultsGrow
<1>4. Coming(q) = 1 /\ Coming(q)' = 0
  <2>1. RequestTo(q, "accepted") \/ RequestTo(q, "failing")
      BY DEF StoreOrder
  <2>2. request'[q].stage \in {"accepted", "failing"}
      BY <2>1 DEF RequestTo, TInv, RequestOK
  <2> QED BY <2>2 DEF StoreOrder, Coming
<1>5. CASE EmitOrder(q, "order_created")
  <2> DEFINE new == Len(orderLog[q]) + 1
  <2>1. Due(q)' \subseteq Due(q) \cup {new}
      BY <1>1, <1>5, DueAppends
  <2> HIDE DEF new
  <2>2. Cardinality(Due(q)') \in Nat /\ Cardinality(Due(q)') <= Cardinality(Due(q)) + 1
      BY <1>2, <2>1, GrowsByOne
  <2>3. Cardinality(Due(q))' = Cardinality(Due(q)')
      OBVIOUS
  <2>4. \A k \in DOMAIN orderLog[q] : k \in DOMAIN orderLog'[q] /\ orderLog'[q][k] = orderLog[q][k]
      BY <1>1, <1>5, DueAppends
  <2>5. payments[q] <= Len(payLog[q])
        /\ Len(payLog[q]) + Cardinality(Due(q)) + Coming(q) <= 1 + faults + edits
      BY DEF Counted
  <2>6. Len(payLog'[q]) + Cardinality(Due(q)') + Coming(q)' <= 1 + faults' + edits'
    <3>1. Len(payLog'[q]) + Cardinality(Due(q)') <= Len(payLog[q]) + Cardinality(Due(q)) + 1
        BY <1>1, <1>2, <2>2
    <3> QED BY <1>1, <1>2, <1>3, <1>4, <2>2, <2>5, <3>1
  <2>7. payments'[q] <= Len(payLog'[q])
      BY <1>1, <2>5
  <2> QED BY <1>1, <2>3, <2>4, <2>6, <2>7 DEF Counted
<1>6. CASE UNCHANGED orderLog
  <2>1. CountStays(q)
      BY <1>1, <1>4, <1>6 DEF CountStays
  <2> QED BY <2>1, CountFrame
<1> QED BY <1>5, <1>6 DEF StoreOrder

LEMMA CountUpdate ==
    ASSUME TInv, [Next]_vars, NEW q \in Orders, Counted(q),
           NEW i \in 1 .. MaxPayEvents, UpdateOrder(q, i) \/ UpdateFails(q, i)
    PROVE  Counted(q)'
<1>1. charge' = charge /\ payLog' = payLog /\ payments' = payments /\ edits' = edits
    BY DEF UpdateOrder, UpdateFails, paymentVars
<1>2. /\ Len(payLog[q]) \in Nat /\ IsFiniteSet(Due(q)) /\ Cardinality(Due(q)) \in Nat
      /\ faults \in Nat /\ edits \in Nat
    BY CountTypes
<1>3. faults' \in Nat /\ faults <= faults'
    BY FaultsGrow
<1>4. Coming(q)' <= Coming(q) /\ Coming(q) \in {0, 1} /\ Coming(q)' \in {0, 1}
    BY ComingFalls
<1>5. CASE EmitOrder(q, Outcome(payLog[q][i].type))
  <2>1. Outcome(payLog[q][i].type) # "order_created"
      BY DEF Outcome
  <2>2. /\ Due(q)' \subseteq Due(q)
        /\ \A k \in DOMAIN orderLog[q] : k \in DOMAIN orderLog'[q] /\ orderLog'[q][k] = orderLog[q][k]
    <3> DEFINE e == Outcome(payLog[q][i].type)
    <3>1. e # "order_created" /\ EmitOrder(q, e)
        BY <1>5, <2>1
    <3> HIDE DEF e
    <3> QED BY <1>1, <3>1, DueAppends
  <2>3. Cardinality(Due(q)') \in Nat /\ Cardinality(Due(q)') <= Cardinality(Due(q))
      BY <1>2, <2>2, CardFalls
  <2>4. Cardinality(Due(q))' = Cardinality(Due(q)')
      OBVIOUS
  <2>5. payments[q] <= Len(payLog[q])
        /\ Len(payLog[q]) + Cardinality(Due(q)) + Coming(q) <= 1 + faults + edits
      BY DEF Counted
  <2>6. Len(payLog'[q]) + Cardinality(Due(q)') + Coming(q)' <= 1 + faults' + edits'
    <3>1. Len(payLog'[q]) + Cardinality(Due(q)') <= Len(payLog[q]) + Cardinality(Due(q))
        BY <1>1, <1>2, <2>3
    <3>2. Len(payLog'[q]) + Cardinality(Due(q)') + Coming(q)'
            <= Len(payLog[q]) + Cardinality(Due(q)) + Coming(q)
        BY <1>1, <1>2, <1>4, <2>3, <3>1
    <3>3. faults \in Nat /\ faults' \in Nat /\ edits \in Nat /\ edits' = edits /\ faults <= faults'
        BY <1>1, <1>2, <1>3
    <3>4. Len(payLog'[q]) \in Nat /\ Len(payLog[q]) \in Nat
        BY <1>1, <1>2
    <3>5. Cardinality(Due(q)) \in Nat /\ Cardinality(Due(q)') \in Nat
        BY <1>2, <2>3
    <3>6. Coming(q) \in Int /\ Coming(q)' \in Int
        BY <1>4
    <3> DEFINE a == Len(payLog'[q]) + Cardinality(Due(q)') + Coming(q)'
               b == Len(payLog[q]) + Cardinality(Due(q)) + Coming(q)
               m == 1 + faults + edits
               n == 1 + faults' + edits
    <3>7. a \in Int /\ b \in Int
      <4>1. Len(payLog'[q]) + Cardinality(Due(q)') \in Int /\ Len(payLog[q]) + Cardinality(Due(q)) \in Int
          BY <3>4, <3>5
      <4> QED BY <4>1, <3>6
    <3>8. m \in Int /\ n \in Int /\ m <= n
        BY <3>3, BoundGrows
    <3>9. a <= b /\ b <= m
        BY <2>5, <3>2
    <3> HIDE DEF a, b, m, n
    <3>10. a <= n
        BY <3>7, <3>8, <3>9
    <3> QED BY <3>3, <3>10 DEF a, n
  <2>7. payments'[q] <= Len(payLog'[q])
      BY <1>1, <2>5
  <2> QED BY <1>1, <2>2, <2>4, <2>6, <2>7 DEF Counted
<1>6. CASE UNCHANGED orderLog
  <2>1. CountStays(q)
      BY <1>1, <1>4, <1>6 DEF CountStays
  <2> QED BY <2>1, CountFrame
<1> QED BY <1>5, <1>6 DEF UpdateOrder, UpdateFails

LEMMA CountRepeatOrderEvent ==
    ASSUME TInv, [Next]_vars, NEW q \in Orders, Counted(q), RepeatOrderEvent(q)
    PROVE  Counted(q)'
<1>1. charge' = charge /\ payLog' = payLog /\ payments' = payments /\ edits' = edits /\ request' = request
    BY DEF RepeatOrderEvent, paymentVars, orderVars
<1>2. /\ Len(payLog[q]) \in Nat /\ IsFiniteSet(Due(q)) /\ Cardinality(Due(q)) \in Nat
      /\ faults \in Nat /\ edits \in Nat
    BY CountTypes
<1>3. faults' = faults + 1
    BY DEF RepeatOrderEvent, Fault
<1>4. Coming(q)' = Coming(q) /\ Coming(q) \in {0, 1}
    BY <1>1 DEF Coming
<1> DEFINE new  == Len(orderLog[q]) + 1
           last == orderLog[q][Len(orderLog[q])]
<1>5. EmitOrder(q, last)
    BY DEF RepeatOrderEvent
<1> HIDE DEF last
<1>6. Due(q)' \subseteq Due(q) \cup {new}
    BY <1>1, <1>5, DueAppends
<1> HIDE DEF new
<1>7. Cardinality(Due(q)') \in Nat /\ Cardinality(Due(q)') <= Cardinality(Due(q)) + 1
    BY <1>2, <1>6, GrowsByOne
<1>8. Cardinality(Due(q))' = Cardinality(Due(q)')
    OBVIOUS
<1>9. \A k \in DOMAIN orderLog[q] : k \in DOMAIN orderLog'[q] /\ orderLog'[q][k] = orderLog[q][k]
    BY <1>1, <1>5, DueAppends
<1> QED BY <1>1, <1>2, <1>3, <1>4, <1>7, <1>8, <1>9 DEF Counted

\* A payment or a payment event more.
LEMMA InsertCounts ==
    ASSUME TInv, NEW q \in Orders, InsertPayment(q)
    PROVE  /\ payments'[q] = payments[q] + 1 /\ Len(payLog'[q]) = Len(payLog[q]) + 1
           /\ payments[q] \in Nat /\ Len(payLog[q]) \in Nat
<1>1. payments \in [Orders -> Nat]
    BY DEF TInv, PaymentsOK
<1>2. payments'[q] = payments[q] + 1
    BY <1>1 DEF InsertPayment
<1>3. EmitPayment(q, "payment_success", payments[q] + 1)
    BY DEF InsertPayment
<1>4. Len(payLog'[q]) = Len(payLog[q]) + 1
    BY <1>3, PayAppends
<1> QED BY <1>2, <1>4, CountTypes

LEMMA CountPaymentStep ==
    ASSUME TInv, [Next]_vars, NEW q \in Orders, Counted(q),
           PaymentStep(q) \/ RedeliverOrderCreated(q) \/ PostPayment(q)
    PROVE  Counted(q)'
<1>1. orderLog' = orderLog /\ request' = request
    BY DEF PaymentStep, TakeOrderEvent, CreatePayment, CreateRaises, Compensate, AckOrderCreated,
           RedeliverOrderCreated, PostPayment, orderVars, logVars
<1>2. Coming(q)' = Coming(q) /\ Coming(q) \in {0, 1}
    BY <1>1 DEF Coming
<1>3. /\ Len(payLog[q]) \in Nat /\ payments[q] \in Nat /\ IsFiniteSet(Due(q))
      /\ Cardinality(Due(q)) \in Nat /\ faults \in Nat /\ edits \in Nat
      /\ charge[q].pos \in Nat /\ DOMAIN orderLog[q] = 1 .. Len(orderLog[q])
      /\ Len(orderLog[q]) \in Nat
    BY CountTypes
<1>4. Cardinality(Due(q))' = Cardinality(Due(q)')
    OBVIOUS
<1>5. charge \in [Orders -> Charges] /\ charge[q] \in Charges
    BY DEF TInv, ChargeOK, Charges
<1> DEFINE To(s, t) == [pos |-> charge[q].pos, stage |-> s, tries |-> t]
           here     == charge[q].pos + 1
<1>6. ASSUME NEW s, ChargeTo(q, s) PROVE charge'[q] = To(s, charge[q].tries)
    BY <1>5, <1>6 DEF ChargeTo, Charges
\* The work moves on but not past the event, and is not done with it.
<1>7. ASSUME NEW s, NEW t, charge'[q] = To(s, t), s # "done", charge[q].stage # "done"
      PROVE  Cardinality(Due(q)') <= Cardinality(Due(q)) /\ Cardinality(Due(q)') \in Nat
  <2>1. Due(q)' \subseteq Due(q)
      BY <1>1, <1>7, DueMoves
  <2> QED BY <1>3, <2>1, CardFalls
\* The work on the event is done.
<1>8. ASSUME NEW t, charge'[q] = To("done", t), charge[q].stage \in {"creating", "compensating"}
      PROVE  Cardinality(Due(q)') + 1 <= Cardinality(Due(q)) /\ Cardinality(Due(q)') \in Nat
  <2>1. here \in Due(q)
      BY <1>8, HandledIsDue
  <2>2. Due(q)' \subseteq Due(q) \ {here}
      BY <1>1, <1>8, DueMoves
  <2> HIDE DEF here
  <2> QED BY <1>3, <2>1, <2>2, ShrinksByOne
<1>9. ASSUME charge[q].stage # "idle", charge'[q].pos = charge[q].pos
      PROVE  /\ charge'[q].pos + 1 \in DOMAIN orderLog'[q]
             /\ orderLog'[q][charge'[q].pos + 1] = "order_created"
    BY <1>1, <1>9 DEF Counted
<1>10. CASE TakeOrderEvent(q)
  <2>1. faults' = faults /\ edits' = edits /\ payLog' = payLog /\ payments' = payments
        /\ charge[q].stage = "idle"
      BY <1>10 DEF TakeOrderEvent, NoFault, logVars
  <2>2. CASE orderLog[q][here] = "order_created"
    <3>1. charge' = [charge EXCEPT ![q].stage = "creating", ![q].tries = 0]
        BY <1>10, <2>2 DEF TakeOrderEvent
    <3>2. charge'[q] = To("creating", 0)
        BY <1>5, <3>1 DEF Charges
    <3>3. here \in DOMAIN orderLog[q]
        BY <1>3, <1>10 DEF TakeOrderEvent
    <3>4. Cardinality(Due(q)') <= Cardinality(Due(q)) /\ Cardinality(Due(q)') \in Nat
        BY <1>7, <2>1, <3>2
    <3>5. /\ charge'[q].pos + 1 \in DOMAIN orderLog'[q]
          /\ orderLog'[q][charge'[q].pos + 1] = "order_created"
        BY <1>1, <2>2, <3>2, <3>3
    <3>6. payments'[q] <= Len(payLog'[q])
        BY <2>1 DEF Counted
    <3>7. Len(payLog'[q]) + Cardinality(Due(q)') + Coming(q)' <= 1 + faults' + edits'
        BY <1>2, <1>3, <2>1, <3>4 DEF Counted
    <3> HIDE DEF To, here
    <3> QED BY <1>4, <3>5, <3>6, <3>7 DEF Counted
  <2>3. CASE orderLog[q][here] # "order_created"
    <3>1. charge' = [charge EXCEPT ![q].pos = @ + 1]
        BY <1>10, <2>3 DEF TakeOrderEvent
    <3>2. charge'[q].pos = charge[q].pos + 1 /\ charge'[q].stage = "idle"
        BY <1>5, <2>1, <3>1 DEF Charges
    <3>3. Due(q)' \subseteq Due(q)
        BY <1>1, <1>3, <2>1, <3>2 DEF Due
    <3>4. Cardinality(Due(q)') <= Cardinality(Due(q)) /\ Cardinality(Due(q)') \in Nat
        BY <1>3, <3>3, CardFalls
    <3> HIDE DEF here
    <3>5. payments[q] <= Len(payLog[q])
          /\ Len(payLog[q]) + Cardinality(Due(q)) + Coming(q) <= 1 + faults + edits
        BY DEF Counted
    <3>6. payments'[q] <= Len(payLog'[q])
        BY <2>1, <3>5
    <3>7. Len(payLog'[q]) + Cardinality(Due(q)') + Coming(q)' <= 1 + faults' + edits'
      <4>1. Len(payLog'[q]) = Len(payLog[q]) /\ Coming(q)' = Coming(q) /\ Coming(q) \in Nat
          BY <1>2, <2>1
      <4> QED BY <1>3, <2>1, <3>4, <3>5, <4>1
    <3> QED BY <1>4, <3>2, <3>6, <3>7 DEF Counted
  <2> QED BY <2>2, <2>3
<1>11. CASE CreatePayment(q)
  <2>1. faults' = faults /\ edits' = edits /\ charge[q].stage = "creating"
      BY <1>11 DEF CreatePayment, NoFault
  <2>2. charge'[q] = To("done", charge[q].tries)
      BY <1>6, <1>11 DEF CreatePayment
  <2>3. payments'[q] = payments[q] + 1 /\ Len(payLog'[q]) = Len(payLog[q]) + 1
      BY <1>11, InsertCounts DEF CreatePayment
  <2>4. Cardinality(Due(q)') + 1 <= Cardinality(Due(q)) /\ Cardinality(Due(q)') \in Nat
      BY <1>8, <2>1, <2>2
  <2>5. charge'[q].pos + 1 \in DOMAIN orderLog'[q] /\ orderLog'[q][charge'[q].pos + 1] = "order_created"
      BY <1>9, <2>1, <2>2
  <2> HIDE DEF To, here
  <2>6. payments[q] <= Len(payLog[q])
        /\ Len(payLog[q]) + Cardinality(Due(q)) + Coming(q) <= 1 + faults + edits
      BY DEF Counted
  <2>7. payments'[q] <= Len(payLog'[q])
      BY <1>3, <2>3, <2>6
  <2>8. Len(payLog'[q]) + Cardinality(Due(q)') + Coming(q)' <= 1 + faults' + edits'
      BY <1>2, <1>3, <2>1, <2>3, <2>4, <2>6
  <2> QED BY <1>4, <2>5, <2>7, <2>8 DEF Counted
<1>12. CASE CreateRaises(q)
  <2> DEFINE s == IF charge[q].tries + 1 = MaxAttempts THEN "compensating" ELSE "creating"
  <2>1. edits' = edits /\ charge[q].stage = "creating"
      BY <1>12 DEF CreateRaises
  <2>2. charge' = [charge EXCEPT ![q].tries = @ + 1, ![q].stage = s]
      BY <1>12 DEF CreateRaises
  <2>3. charge'[q] = To(s, charge[q].tries + 1)
      BY <1>5, <2>2 DEF Charges
  <2>4. \/ faults' \in {faults, faults + 1} /\ payments' = payments /\ payLog' = payLog
        \/ faults' = faults + 1 /\ InsertPayment(q)
      BY <1>12 DEF CreateRaises, NoFault, Fault
  <2>5. Cardinality(Due(q)') <= Cardinality(Due(q)) /\ Cardinality(Due(q)') \in Nat
      BY <1>7, <2>1, <2>3
  <2>6. charge'[q].pos + 1 \in DOMAIN orderLog'[q] /\ orderLog'[q][charge'[q].pos + 1] = "order_created"
      BY <1>9, <2>1, <2>3
  <2> HIDE DEF To, here, s
  <2>7. CASE faults' = faults + 1 /\ InsertPayment(q)
    <3>1. payments'[q] = payments[q] + 1 /\ Len(payLog'[q]) = Len(payLog[q]) + 1
        BY <2>7, InsertCounts
    <3>2. payments[q] <= Len(payLog[q])
          /\ Len(payLog[q]) + Cardinality(Due(q)) + Coming(q) <= 1 + faults + edits
        BY DEF Counted
    <3>3. payments'[q] <= Len(payLog'[q])
        BY <1>3, <3>1, <3>2
    <3>4. Len(payLog'[q]) + Cardinality(Due(q)') + Coming(q)' <= 1 + faults' + edits'
      <4>1. Len(payLog'[q]) + Cardinality(Due(q)') <= Len(payLog[q]) + Cardinality(Due(q)) + 1
          BY <1>3, <2>5, <3>1
      <4>2. Coming(q)' = Coming(q) /\ Coming(q) \in Nat /\ Len(payLog'[q]) \in Nat
          BY <1>2, <1>3, <3>1
      <4> QED BY <1>3, <2>1, <2>5, <2>7, <3>2, <4>1, <4>2
    <3> QED BY <1>4, <2>6, <3>3, <3>4 DEF Counted
  <2>8. CASE faults' \in {faults, faults + 1} /\ payments' = payments /\ payLog' = payLog
    <3>1. payments[q] <= Len(payLog[q])
          /\ Len(payLog[q]) + Cardinality(Due(q)) + Coming(q) <= 1 + faults + edits
        BY DEF Counted
    <3>2. payments'[q] <= Len(payLog'[q])
        BY <2>8, <3>1
    <3>3. Len(payLog'[q]) + Cardinality(Due(q)') + Coming(q)' <= 1 + faults' + edits'
      <4>1. Len(payLog'[q]) = Len(payLog[q]) /\ Coming(q)' = Coming(q) /\ Coming(q) \in Nat
          BY <1>2, <2>8
      <4>2. faults <= faults' /\ faults' \in Nat
          BY <1>3, <2>8
      <4>3. Len(payLog'[q]) + Cardinality(Due(q)') <= Len(payLog[q]) + Cardinality(Due(q))
          BY <1>3, <2>5, <4>1
      <4>4. Len(payLog'[q]) + Cardinality(Due(q)') + Coming(q)'
              <= Len(payLog[q]) + Cardinality(Due(q)) + Coming(q)
          BY <1>3, <2>5, <4>1, <4>3
      <4>5. faults \in Nat /\ faults' \in Nat /\ edits \in Nat /\ edits' = edits /\ faults <= faults'
          BY <1>3, <2>1, <4>2
      <4>6. Len(payLog'[q]) \in Nat /\ Len(payLog[q]) \in Nat
          BY <1>3, <4>1
      <4>7. Cardinality(Due(q)) \in Nat /\ Cardinality(Due(q)') \in Nat
          BY <1>3, <2>5
      <4>8. Coming(q) \in Int /\ Coming(q)' \in Int
          BY <4>1
      <4> DEFINE a == Len(payLog'[q]) + Cardinality(Due(q)') + Coming(q)'
                 b == Len(payLog[q]) + Cardinality(Due(q)) + Coming(q)
                 m == 1 + faults + edits
                 n == 1 + faults' + edits
      <4>9. a \in Int /\ b \in Int
        <5>1. Len(payLog'[q]) + Cardinality(Due(q)') \in Int /\ Len(payLog[q]) + Cardinality(Due(q)) \in Int
            BY <4>6, <4>7
        <5> QED BY <5>1, <4>8
      <4>10. m \in Int /\ n \in Int /\ m <= n
          BY <4>5, BoundGrows
      <4>11. a <= b /\ b <= m
          BY <3>1, <4>4
      <4> HIDE DEF a, b, m, n
      <4>12. a <= n
          BY <4>9, <4>10, <4>11
      <4> QED BY <4>5, <4>12 DEF a, n
    <3> QED BY <1>4, <2>6, <3>2, <3>3 DEF Counted
  <2> QED BY <2>4, <2>7, <2>8
<1>13. CASE Compensate(q)
  <2>1. edits' = edits /\ charge[q].stage = "compensating" /\ payments' = payments
      BY <1>13 DEF Compensate
  <2>2. charge'[q] = To("done", charge[q].tries)
      BY <1>6, <1>13 DEF Compensate
  <2>3. Cardinality(Due(q)') + 1 <= Cardinality(Due(q)) /\ Cardinality(Due(q)') \in Nat
      BY <1>8, <2>1, <2>2
  <2>4. charge'[q].pos + 1 \in DOMAIN orderLog'[q] /\ orderLog'[q][charge'[q].pos + 1] = "order_created"
      BY <1>9, <2>1, <2>2
  <2>5. faults' \in {faults, faults + 1}
      BY <1>13 DEF Compensate, NoFault, Fault
  <2>6. Len(payLog'[q]) \in {Len(payLog[q]), Len(payLog[q]) + 1}
    <3>1. CASE EmitPayment(q, "payment_failed", 0)
        BY <3>1, PayAppends
    <3>2. CASE payLog' = payLog
        BY <3>2
    <3> QED BY <1>13, <3>1, <3>2 DEF Compensate
  <2> HIDE DEF To, here
  <2>7. payments[q] <= Len(payLog[q])
        /\ Len(payLog[q]) + Cardinality(Due(q)) + Coming(q) <= 1 + faults + edits
      BY DEF Counted
  <2>8. payments'[q] <= Len(payLog'[q])
    <3>1. Len(payLog[q]) <= Len(payLog'[q])
        BY <1>3, <2>6
    <3>2. payments'[q] = payments[q] /\ payments[q] <= Len(payLog[q])
        BY <2>1, <2>7
    <3>3. Len(payLog'[q]) \in Nat
        BY <1>3, <2>6
    <3> QED BY <1>3, <3>1, <3>2, <3>3
  <2>9. Len(payLog'[q]) + Cardinality(Due(q)') + Coming(q)' <= 1 + faults' + edits'
    <3>1. Len(payLog'[q]) <= Len(payLog[q]) + 1 /\ Len(payLog'[q]) \in Nat
        BY <1>3, <2>6
    <3>2. faults <= faults' /\ faults' \in Nat
        BY <1>3, <2>5
    <3>3. Coming(q)' = Coming(q) /\ Coming(q) \in Nat
        BY <1>2
    <3>4. /\ Len(payLog[q]) \in Nat /\ Cardinality(Due(q)) \in Nat /\ faults \in Nat /\ edits \in Nat
          /\ edits' = edits
        BY <1>3, <2>1
    <3>5. Len(payLog'[q]) + Cardinality(Due(q)') <= Len(payLog[q]) + Cardinality(Due(q))
        BY <2>3, <3>1, <3>4
    <3> DEFINE a == Len(payLog[q]) + Cardinality(Due(q))
               b == Len(payLog'[q]) + Cardinality(Due(q)')
    <3>6. /\ a \in Nat /\ b \in Nat /\ b <= a /\ a + Coming(q) <= 1 + faults + edits
      <4>1. a \in Nat
          BY <3>4
      <4>2. b \in Nat
          BY <2>3, <3>1
      <4>3. b <= a
          BY <3>5
      <4>4. a + Coming(q) <= 1 + faults + edits
          BY <2>7
      <4> QED BY <4>1, <4>2, <4>3, <4>4
    <3> HIDE DEF a, b
    <3>7. b + Coming(q) <= 1 + faults' + edits
        BY <3>2, <3>3, <3>4, <3>6
    <3> QED BY <3>3, <3>4, <3>7 DEF b
  <2> QED BY <1>4, <2>4, <2>8, <2>9 DEF Counted
<1>14. CASE AckOrderCreated(q)
  <2>1. faults' = faults /\ edits' = edits /\ payLog' = payLog /\ payments' = payments
        /\ charge[q].stage = "done"
      BY <1>14 DEF AckOrderCreated, NoFault, logVars
  <2>2. charge'[q] = [pos |-> here, stage |-> "idle", tries |-> 0]
      BY <1>5, <1>14 DEF AckOrderCreated, Charges
  <2>3. charge'[q].pos = here /\ charge'[q].stage = "idle"
      BY <2>2
  <2>4. Due(q)' \subseteq Due(q)
      BY <1>1, <1>3, <2>1, <2>3 DEF Due
  <2>5. Cardinality(Due(q)') <= Cardinality(Due(q)) /\ Cardinality(Due(q)') \in Nat
      BY <1>3, <2>4, CardFalls
  <2> HIDE DEF here
  <2>6. payments[q] <= Len(payLog[q])
        /\ Len(payLog[q]) + Cardinality(Due(q)) + Coming(q) <= 1 + faults + edits
      BY DEF Counted
  <2>7. payments'[q] <= Len(payLog'[q])
      BY <2>1, <2>6
  <2>8. Len(payLog'[q]) + Cardinality(Due(q)') + Coming(q)' <= 1 + faults' + edits'
    <3>1. Len(payLog'[q]) = Len(payLog[q]) /\ Coming(q)' = Coming(q) /\ Coming(q) \in Nat
        BY <1>2, <2>1
    <3> QED BY <1>3, <2>1, <2>5, <2>6, <3>1
  <2> QED BY <1>4, <2>3, <2>7, <2>8 DEF Counted
<1>15. CASE RedeliverOrderCreated(q)
  <2>1. faults' = faults + 1 /\ edits' = edits /\ payLog' = payLog /\ payments' = payments
      BY <1>15 DEF RedeliverOrderCreated, Fault, logVars
  <2>2. charge' = [charge EXCEPT ![q].stage = "idle", ![q].tries = 0]
      BY <1>15 DEF RedeliverOrderCreated
  <2>3. charge'[q] = To("idle", 0)
      BY <1>5, <2>2 DEF Charges
  <2>4. Due(q)' \subseteq Due(q) \cup {here}
      BY <1>1, <2>3, DueMoves
  <2>5. charge'[q].stage = "idle"
      BY <2>3
  <2> HIDE DEF To, here
  <2>6. Cardinality(Due(q)') <= Cardinality(Due(q)) + 1 /\ Cardinality(Due(q)') \in Nat
      BY <1>3, <2>4, GrowsByOne
  <2>7. payments[q] <= Len(payLog[q])
        /\ Len(payLog[q]) + Cardinality(Due(q)) + Coming(q) <= 1 + faults + edits
      BY DEF Counted
  <2>8. payments'[q] <= Len(payLog'[q])
      BY <2>1, <2>7
  <2>9. Len(payLog'[q]) + Cardinality(Due(q)') + Coming(q)' <= 1 + faults' + edits'
    <3>1. Len(payLog'[q]) = Len(payLog[q]) /\ Coming(q)' = Coming(q) /\ Coming(q) \in Nat
        BY <1>2, <2>1
    <3> QED BY <1>3, <2>1, <2>6, <2>7, <3>1
  <2> QED BY <1>4, <2>5, <2>8, <2>9 DEF Counted
<1>16. CASE PostPayment(q)
  <2>1. faults' = faults /\ edits' = edits + 1 /\ charge' = charge
      BY <1>16 DEF PostPayment, NoFault
  <2>2. payments'[q] = payments[q] + 1 /\ Len(payLog'[q]) = Len(payLog[q]) + 1
      BY <1>16, InsertCounts DEF PostPayment
  <2>3. Due(q)' = Due(q)
      BY <1>1, <2>1 DEF Due
  <2>4. charge[q].stage # "idle" =>
            /\ charge'[q].pos + 1 \in DOMAIN orderLog'[q]
            /\ orderLog'[q][charge'[q].pos + 1] = "order_created"
      BY <1>9, <2>1
  <2> HIDE DEF To, here
  <2>5. payments[q] <= Len(payLog[q])
        /\ Len(payLog[q]) + Cardinality(Due(q)) + Coming(q) <= 1 + faults + edits
      BY DEF Counted
  <2>6. payments'[q] <= Len(payLog'[q])
      BY <1>3, <2>2, <2>5
  <2>7. Len(payLog'[q]) + Cardinality(Due(q)') + Coming(q)' <= 1 + faults' + edits'
    <3>1. Cardinality(Due(q)') = Cardinality(Due(q)) /\ Coming(q)' = Coming(q) /\ Coming(q) \in Nat
        BY <1>2, <2>3
    <3>2. Len(payLog'[q]) + Cardinality(Due(q)') = Len(payLog[q]) + Cardinality(Due(q)) + 1
        BY <1>3, <2>2, <3>1
    <3>3. Len(payLog'[q]) \in Nat /\ Cardinality(Due(q)') \in Nat
        BY <1>3, <2>2, <3>1
    <3> QED BY <1>3, <2>1, <2>5, <3>1, <3>2, <3>3
  <2> QED BY <1>4, <2>1, <2>4, <2>6, <2>7 DEF Counted
<1> HIDE DEF To, here
<1> QED BY <1>10, <1>11, <1>12, <1>13, <1>14, <1>15, <1>16 DEF PaymentStep

LEMMA CountRepeatPaymentEvent ==
    ASSUME TInv, [Next]_vars, NEW q \in Orders, Counted(q), RepeatPaymentEvent(q)
    PROVE  Counted(q)'
<1>1. /\ charge' = charge /\ orderLog' = orderLog /\ payments' = payments /\ edits' = edits
      /\ request' = request
    BY DEF RepeatPaymentEvent, paymentVars, orderVars
<1>2. /\ Len(payLog[q]) \in Nat /\ payments[q] \in Nat /\ Cardinality(Due(q)) \in Nat
      /\ faults \in Nat /\ edits \in Nat
    BY CountTypes
<1>3. faults' = faults + 1
    BY DEF RepeatPaymentEvent, Fault
<1>4. Coming(q)' = Coming(q) /\ Coming(q) \in {0, 1}
    BY <1>1 DEF Coming
<1>5. Len(payLog'[q]) = Len(payLog[q]) + 1
  <2>1. payLog \in [Orders -> Seq(PaymentEvents)] /\ payLog[q] \in Seq(PaymentEvents) /\ payLog[q] # <<>>
      BY DEF TInv, LogsOK, RepeatPaymentEvent
  <2>2. payLog'[q] = Append(payLog[q], payLog[q][Len(payLog[q])])
      BY <2>1 DEF RepeatPaymentEvent
  <2> QED BY <2>1, <2>2
<1>6. Cardinality(Due(q))' = Cardinality(Due(q))
  <2>1. Due(q)' = Due(q)
      BY <1>1 DEF Due
  <2> QED BY <2>1
<1> QED BY <1>1, <1>2, <1>3, <1>4, <1>5, <1>6 DEF Counted

LEMMA NextCountInv == TInv /\ CountInv /\ [Next]_vars => CountInv'
<1> SUFFICES ASSUME TInv, CountInv, [Next]_vars, NEW q \in Orders
             PROVE  Counted(q)'
    BY DEF CountInv, ChargesCreated, EventsAreCounted, Counted
<1>1. Counted(q)
    BY DEF CountInv, ChargesCreated, EventsAreCounted, Counted
<1>2. CASE CountStays(q)
    BY <1>1, <1>2, CountFrame
<1>3. CASE ~ CountStays(q)
    BY <1>1, <1>3, CountSteps, CountStoreOrder, CountUpdate, CountRepeatOrderEvent,
       CountPaymentStep, CountRepeatPaymentEvent
<1> QED BY <1>2, <1>3

LEMMA InvariantCount == Spec => [](TInv /\ CountInv)
  BY InitTInv, NextTInv, InitCountInv, NextCountInv, PTL DEF Spec

-----------------------------------------------------------------------------
(* An event that is handled has had its effect, unless all attempts failed. *)

\* What an order loses its outcome by is counted before it does.
HandlerCost == \A o \in Orders : \A i \in 1 .. MaxPayEvents : handler[o][i].tries <= faults

GiveUpCost ==
    \A o \in Orders \ Refused :
        charge[o].stage = "compensating" \/ "payment_failed" \in Types(payLog[o])
            => MaxAttempts <= faults

\* Nobody hears of an order before it is stored.
OrderIsKnown ==
    \A o \in Orders : "order_created" \in Announced(o) \/ payLog[o] # <<>> => status[o] # "none"

Answered(o) == payLog[o] # <<>> \/ MayBeLost(o)

\* An order_created that is handled has led to a payment event.
CreatedIsAnswered ==
    \A o \in Orders :
        /\ charge[o].pos <= Len(orderLog[o])
        /\ \A k \in 1 .. charge[o].pos : orderLog[o][k] = "order_created" => Answered(o)
        /\ charge[o].stage = "done" => Answered(o)

\* A payment event that is handled has led to a decision.
DoneIsDecided ==
    edits = 0 => \A o \in Orders : \A i \in 1 .. MaxPayEvents :
        handler[o][i].stage \in {"done", "acked"} =>
            status[o] \in {"completed", "cancelled"} \/ MayBeLost(o)

DInv == HandlerCost /\ GiveUpCost /\ OrderIsKnown /\ CreatedIsAnswered /\ DoneIsDecided

LEMMA InitDInv == Init => DInv
<1> SUFFICES ASSUME Init PROVE DInv
    OBVIOUS
<1> USE DEF Init, OrderInit, PaymentInit
<1>1. HandlerCost /\ DoneIsDecided
    BY DEF HandlerCost, DoneIsDecided
<1>2. GiveUpCost /\ OrderIsKnown
    BY DEF GiveUpCost, OrderIsKnown, Types, Announced
<1>3. CreatedIsAnswered
    BY DEF CreatedIsAnswered
<1> QED BY <1>1, <1>2, <1>3 DEF DInv

LEMMA LostForGood ==
    ASSUME TInv, [Next]_vars, NEW o \in Orders, MayBeLost(o)
    PROVE  MayBeLost(o)'
  BY FaultsGrow DEF MayBeLost, MaxRetries

\* What the handler of a payment event may become in a step.
LEMMA HandlerCause ==
    ASSUME TInv, [Next]_vars, NEW q \in Orders, NEW j \in 1 .. MaxPayEvents
    PROVE  \/ handler'[q][j] = handler[q][j]
           \/ /\ handler'[q][j].stage \notin {"done", "acked"}
              /\ handler'[q][j].tries \in {0, handler[q][j].tries}
           \/ /\ ReadOrder(q, j) /\ handler'[q][j].tries = handler[q][j].tries
              /\ status[q] \in {"none", Target(payLog[q][j].type)}
           \/ UpdateOrder(q, j) /\ handler'[q][j].tries = handler[q][j].tries
           \/ /\ UpdateFails(q, j) /\ handler'[q][j].stage = "queued"
              /\ handler'[q][j].tries = handler[q][j].tries + 1
           \/ /\ UpdateFails(q, j) /\ handler'[q][j].tries = handler[q][j].tries
              /\ payLog[q][j].type = "payment_success" => MaxRetries <= handler[q][j].tries
           \/ /\ AckPayment(q, j) /\ handler[q][j].stage = "done"
              /\ handler'[q][j].tries = handler[q][j].tries
<1>1. handler \in [Orders -> [1 .. MaxPayEvents -> Handlers]]
    BY DEF TInv, HandlerOK, Handlers
<1>2. ASSUME NEW o \in Orders, NEW i \in 1 .. MaxPayEvents, NEW h, handler' = [handler EXCEPT ![o][i] = h]
      PROVE  handler'[q][j] = IF q = o /\ j = i THEN h ELSE handler[q][j]
  <2>1. handler' = [handler EXCEPT ![o] = [handler[o] EXCEPT ![i] = h]]
      BY <1>2
  <2> QED BY <1>1, <2>1
<1>3. ASSUME NEW o \in Orders, NEW i \in 1 .. MaxPayEvents, NEW stage, HandlerTo(o, i, stage)
      PROVE  \/ handler'[q][j] = handler[q][j]
             \/ /\ q = o /\ j = i /\ handler'[q][j].stage = stage
                /\ handler'[q][j].tries = handler[q][j].tries
  <2> DEFINE h == [handler[o][i] EXCEPT !.stage = stage]
  <2>1. handler' = [handler EXCEPT ![o][i] = h]
      BY <1>3 DEF HandlerTo
  <2>2. h.stage = stage /\ h.tries = handler[o][i].tries
      BY <1>1 DEF Handlers
  <2> HIDE DEF h
  <2> QED BY <1>2, <2>1, <2>2
<1>4. ASSUME NEW o \in Orders, NEW i \in 1 .. MaxPayEvents, ReadOrder(o, i)
      PROVE  \/ handler'[q][j] = handler[q][j]
             \/ /\ handler'[q][j].stage = "update" /\ handler'[q][j].tries = handler[q][j].tries
             \/ /\ ReadOrder(q, j) /\ handler'[q][j].tries = handler[q][j].tries
                /\ status[q] \in {"none", Target(payLog[q][j].type)}
  <2>1. \/ HandlerTo(o, i, "update")
        \/ HandlerTo(o, i, "done") /\ status[o] \in {"none", Target(payLog[o][i].type)}
      BY <1>4 DEF ReadOrder
  <2> QED BY <1>3, <1>4, <2>1
<1>5. ASSUME NEW o \in Orders, NEW i \in 1 .. MaxPayEvents, UpdateOrder(o, i)
      PROVE  \/ handler'[q][j] = handler[q][j]
             \/ UpdateOrder(q, j) /\ handler'[q][j].tries = handler[q][j].tries
  <2>1. HandlerTo(o, i, "done")
      BY <1>5 DEF UpdateOrder
  <2> QED BY <1>3, <1>5, <2>1
<1>6. ASSUME NEW o \in Orders, NEW i \in 1 .. MaxPayEvents, AckPayment(o, i)
      PROVE  \/ handler'[q][j] = handler[q][j]
             \/ /\ AckPayment(q, j) /\ handler[q][j].stage = "done"
                /\ handler'[q][j].tries = handler[q][j].tries
  <2>1. HandlerTo(o, i, "acked") /\ handler[o][i].stage = "done"
      BY <1>6 DEF AckPayment
  <2> QED BY <1>3, <1>6, <2>1
<1>7. ASSUME NEW o \in Orders, NEW i \in 1 .. MaxPayEvents, RedeliverPayment(o, i)
      PROVE  \/ handler'[q][j] = handler[q][j]
             \/ handler'[q][j].stage = "queued" /\ handler'[q][j].tries = 0
  <2> DEFINE h == [stage |-> "queued", tries |-> 0]
  <2>1. handler' = [handler EXCEPT ![o][i] = h] /\ h.stage = "queued" /\ h.tries = 0
      BY <1>7 DEF RedeliverPayment
  <2> HIDE DEF h
  <2> QED BY <1>2, <2>1
<1>8. ASSUME NEW o \in Orders, NEW i \in 1 .. MaxPayEvents, UpdateFails(o, i)
      PROVE  \/ handler'[q][j] = handler[q][j]
             \/ /\ UpdateFails(q, j) /\ handler'[q][j].stage = "queued"
                /\ handler'[q][j].tries = handler[q][j].tries + 1
             \/ /\ UpdateFails(q, j) /\ handler'[q][j].tries = handler[q][j].tries
                /\ payLog[q][j].type = "payment_success" => MaxRetries <= handler[q][j].tries
  <2> DEFINE again == payLog[o][i].type = "payment_success" /\ handler[o][i].tries < MaxRetries
             h == IF again THEN [stage |-> "queued", tries |-> handler[o][i].tries + 1]
                           ELSE [handler[o][i] EXCEPT !.stage = "done"]
  <2>1. handler' = [handler EXCEPT ![o][i] = h]
      BY <1>8 DEF UpdateFails, AfterFailure
  <2>2. IF again THEN h.stage = "queued" /\ h.tries = handler[o][i].tries + 1
                 ELSE h.tries = handler[o][i].tries
      BY <1>1 DEF Handlers
  <2>3. ~again /\ payLog[o][i].type = "payment_success" => MaxRetries <= handler[o][i].tries
    <3>1. handler[o][i] \in Handlers
        BY <1>1
    <3>2. handler[o][i].tries \in Int
        BY <3>1 DEF Handlers, MaxRetries
    <3> QED BY <3>2 DEF MaxRetries
  <2> HIDE DEF h
  <2>4. handler'[q][j] = IF q = o /\ j = i THEN h ELSE handler[q][j]
      BY <1>2, <2>1
  <2> QED BY <1>8, <2>2, <2>3, <2>4
<1>9. CASE UNCHANGED handler
    BY <1>9
<1> QED
    BY <1>4, <1>5, <1>6, <1>7, <1>8, <1>9, HandlerSteps DEF HandlerStep

LEMMA NextHandlerCost == TInv /\ HandlerCost /\ [Next]_vars => HandlerCost'
<1> SUFFICES ASSUME TInv, HandlerCost, [Next]_vars, NEW q \in Orders, NEW j \in 1 .. MaxPayEvents
             PROVE  handler'[q][j].tries <= faults'
    BY DEF HandlerCost
<1>1. faults \in Nat /\ faults' \in Nat /\ faults <= faults'
    BY FaultsGrow
<1>2. handler[q][j].tries \in Nat /\ handler[q][j].tries <= faults
  <2>1. handler[q][j] \in Handlers
      BY DEF TInv, HandlerOK, Handlers
  <2> QED BY <2>1 DEF Handlers, MaxRetries, HandlerCost
<1>3. UpdateFails(q, j) => faults' = faults + 1
    BY DEF UpdateFails, Fault
<1>4. \/ handler'[q][j].tries \in {0, handler[q][j].tries}
      \/ UpdateFails(q, j) /\ handler'[q][j].tries = handler[q][j].tries + 1
    BY HandlerCause
<1> QED BY <1>1, <1>2, <1>3, <1>4

LEMMA NextGiveUpCost == TInv /\ TriesCost /\ GiveUpCost /\ [Next]_vars => GiveUpCost'
<1> SUFFICES ASSUME TInv, TriesCost, GiveUpCost, [Next]_vars, NEW q \in Orders, q \notin Refused,
                    charge'[q].stage = "compensating" \/ "payment_failed" \in Types(payLog[q])'
             PROVE  MaxAttempts <= faults'
    BY DEF GiveUpCost
<1>1. faults \in Nat /\ faults' \in Nat /\ faults <= faults'
    BY FaultsGrow
<1>2. charge[q].tries \in Nat /\ charge[q].tries <= faults
    BY DEF TInv, ChargeOK, MaxAttempts, TriesCost
<1>3. CASE charge[q].stage = "compensating" \/ "payment_failed" \in Types(payLog[q])
    BY <1>1, <1>3 DEF GiveUpCost, MaxAttempts
<1>4. CASE charge[q].stage # "compensating" /\ charge'[q].stage = "compensating"
    BY <1>1, <1>2, <1>4, ChargeSteps, RaiseFacts DEF MaxAttempts
<1> QED BY <1>3, <1>4, PaymentEventCause

LEMMA NextOrderIsKnown == TInv /\ RInv /\ CountInv /\ OrderIsKnown /\ [Next]_vars => OrderIsKnown'
<1> SUFFICES ASSUME TInv, RInv, CountInv, OrderIsKnown, [Next]_vars, NEW q \in Orders,
                    "order_created" \in Announced(q)' \/ payLog'[q] # <<>>
             PROVE  status'[q] # "none"
    BY DEF OrderIsKnown
<1>1. status[q] # "none" => status'[q] # "none"
    BY StatusCause DEF Target, OrderStatus
<1>2. CASE "order_created" \in Announced(q) \/ payLog[q] # <<>>
    BY <1>1, <1>2 DEF OrderIsKnown
<1>3. CASE "order_created" \in Announced(q)' /\ "order_created" \notin Announced(q)
  <2>1. orderLog'[q] # orderLog[q]
      BY <1>3 DEF Announced
  <2>2. ~ CountStays(q)
      BY <2>1 DEF CountStays
  <2>3. CASE StoreOrder(q)
    <3>1. status' = [status EXCEPT ![q] = "pending"]
        BY <2>1, <2>3 DEF StoreOrder
    <3> QED BY <3>1 DEF TInv, StatusOK
  <2>4. CASE \E i \in 1 .. MaxPayEvents : UpdateOrder(q, i) \/ UpdateFails(q, i)
      BY <1>1, <2>4 DEF UpdateOrder, UpdateFails, RInv, FoundOrderExists
  <2>5. CASE RepeatOrderEvent(q)
    <3>1. orderLog[q] \in Seq(OrderEvents) /\ orderLog[q] # <<>>
        BY <2>5 DEF RepeatOrderEvent, TInv, LogsOK
    <3>2. orderLog'[q] = Append(orderLog[q], orderLog[q][Len(orderLog[q])])
        BY <2>5 DEF RepeatOrderEvent, EmitOrder, TInv, LogsOK
    <3> DEFINE s == orderLog[q]
    <3>3. {Append(s, s[Len(s)])[k] : k \in DOMAIN Append(s, s[Len(s)])} \subseteq {s[k] : k \in DOMAIN s}
        BY <3>1
    <3> QED BY <1>3, <3>2, <3>3 DEF Announced
  <2>6. CASE PaymentStep(q) \/ RedeliverOrderCreated(q) \/ PostPayment(q) \/ RepeatPaymentEvent(q)
      BY <2>1, <2>6 DEF PaymentStep, TakeOrderEvent, CreatePayment, CreateRaises, Compensate,
           AckOrderCreated, RedeliverOrderCreated, PostPayment, RepeatPaymentEvent, logVars
  <2> QED BY <2>2, <2>3, <2>4, <2>5, <2>6, CountSteps
<1>4. CASE payLog[q] = <<>> /\ payLog'[q] # <<>>
  <2>1. payLog'[q] # payLog[q] /\ ~ CountStays(q)
      BY <1>4 DEF CountStays
  <2>2. CASE charge[q].stage \in {"creating", "compensating"}
    <3>1. "order_created" \in Announced(q)
        BY <2>2 DEF CountInv, ChargesCreated, Announced
    <3> QED BY <1>1, <3>1 DEF OrderIsKnown
  <2>3. CASE PostPayment(q)
      BY <1>1, <2>3 DEF PostPayment
  <2>4. CASE RepeatPaymentEvent(q)
      BY <1>4, <2>4 DEF RepeatPaymentEvent
  <2>5. PaymentStep(q) => charge[q].stage \in {"creating", "compensating"}
      BY <2>1 DEF PaymentStep, TakeOrderEvent, CreatePayment, CreateRaises, Compensate,
           AckOrderCreated, logVars
  <2>6. ~ (StoreOrder(q) \/ RedeliverOrderCreated(q) \/ RepeatOrderEvent(q)
           \/ \E i \in 1 .. MaxPayEvents : UpdateOrder(q, i) \/ UpdateFails(q, i))
      BY <2>1 DEF StoreOrder, RedeliverOrderCreated, RepeatOrderEvent, UpdateOrder, UpdateFails, logVars
  <2> QED BY <2>1, <2>2, <2>3, <2>4, <2>5, <2>6, CountSteps
<1> QED BY <1>2, <1>3, <1>4

\* A step leaves the payment events an order has.
LEMMA StaysAnswered ==
    ASSUME TInv, [Next]_vars, NEW q \in Orders, Answered(q)
    PROVE  Answered(q)'
<1>1. CASE MayBeLost(q)
    BY <1>1, LostForGood DEF Answered
<1>2. CASE payLog[q] # <<>>
  <2>1. payLog[q] \in Seq(PaymentEvents)
      BY DEF TInv, LogsOK
  <2>2. payLog[q][1].type \in Types(payLog[q])
      BY <1>2, <2>1 DEF Types
  <2>3. Types(payLog[q])' # {}
      BY <2>2, PaymentEventCause
  <2>4. payLog'[q] # <<>>
      BY <2>3 DEF Types
  <2> QED BY <2>4 DEF Answered
<1> QED BY <1>1, <1>2 DEF Answered

\* Whoever is done with an order_created has answered it.
LEMMA DoneIsAnswered ==
    ASSUME TInv, GiveUpCost, [Next]_vars, NEW q \in Orders,
           charge[q].stage # "done", charge'[q].stage = "done"
    PROVE  Answered(q)'
<1>1. charge \in [Orders -> Charges]
    BY DEF TInv, ChargeOK, Charges
<1>2. ~ CountStays(q)
    BY DEF CountStays
<1>3. CASE CreatePayment(q)
  <2>1. InsertPayment(q)
      BY <1>3 DEF CreatePayment
  <2>2. payLog'[q] # <<>>
    <3>1. Len(payLog'[q]) = Len(payLog[q]) + 1 /\ Len(payLog[q]) \in Nat
        BY <2>1, InsertCounts, CountTypes
    <3> QED BY <3>1
  <2> QED BY <2>2 DEF Answered
<1>4. CASE Compensate(q)
  <2>1. charge[q].stage = "compensating"
      BY <1>4 DEF Compensate
  <2>2. CASE EmitPayment(q, "payment_failed", 0)
    <3>1. Len(payLog'[q]) = Len(payLog[q]) + 1 /\ Len(payLog[q]) \in Nat
        BY <2>2, PayAppends, CountTypes
    <3>2. payLog'[q] # <<>>
        BY <3>1
    <3> QED BY <3>2 DEF Answered
  <2>3. CASE Fault("db")
    <3>1. faults \in Nat /\ faults' = faults + 1
        BY <2>3, FaultsGrow DEF Fault
    <3>2. q \notin Refused => MaxAttempts <= faults
        BY <2>1 DEF GiveUpCost
    <3>3. MayBeLost(q)'
        BY <3>1, <3>2 DEF MayBeLost, MaxAttempts, MaxRetries
    <3> QED BY <3>3 DEF Answered
  <2> QED BY <1>4, <2>2, <2>3 DEF Compensate
<1>5. ~ CreateRaises(q)
  <2> DEFINE stage == IF charge[q].tries + 1 = MaxAttempts THEN "compensating" ELSE "creating"
  <2>1. CreateRaises(q) => charge' = [charge EXCEPT ![q].tries = @ + 1, ![q].stage = stage]
      BY DEF CreateRaises
  <2>2. CreateRaises(q) => charge'[q].stage = stage
      BY <1>1, <2>1 DEF Charges
  <2> QED BY <2>2
<1>6. ~ (TakeOrderEvent(q) \/ AckOrderCreated(q) \/ RedeliverOrderCreated(q) \/ PostPayment(q))
  <2>1. charge[q] \in Charges
      BY <1>1
  <2>2. TakeOrderEvent(q) => charge'[q].stage \in {"creating", charge[q].stage}
      BY <1>1, <2>1 DEF TakeOrderEvent, Charges
  <2>3. AckOrderCreated(q) \/ RedeliverOrderCreated(q) => charge'[q].stage = "idle"
      BY <1>1, <2>1 DEF AckOrderCreated, RedeliverOrderCreated, Charges
  <2>4. PostPayment(q) => charge' = charge
      BY DEF PostPayment
  <2> QED BY <2>2, <2>3, <2>4
<1>7. ~ (StoreOrder(q) \/ RepeatOrderEvent(q) \/ RepeatPaymentEvent(q)
         \/ \E i \in 1 .. MaxPayEvents : UpdateOrder(q, i) \/ UpdateFails(q, i))
    BY DEF StoreOrder, RepeatOrderEvent, RepeatPaymentEvent, UpdateOrder, UpdateFails, paymentVars
<1> QED BY <1>2, <1>3, <1>4, <1>5, <1>6, <1>7, CountSteps DEF PaymentStep

\* The payment service passes from an event to the next.
LEMMA ChargePasses ==
    ASSUME TInv, [Next]_vars, NEW q \in Orders, charge'[q].pos # charge[q].pos
    PROVE  /\ charge'[q].pos = charge[q].pos + 1 /\ orderLog' = orderLog
           /\ \/ /\ charge[q].stage = "idle" /\ charge[q].pos < Len(orderLog[q])
                 /\ orderLog[q][charge[q].pos + 1] # "order_created"
              \/ charge[q].stage = "done"
<1>1. charge \in [Orders -> Charges] /\ charge[q] \in Charges
    BY DEF TInv, ChargeOK, Charges
<1>2. ~ CountStays(q) /\ charge' # charge
    BY DEF CountStays
<1>3. CASE TakeOrderEvent(q)
  <2>1. ~ (charge' = [charge EXCEPT ![q].stage = "creating", ![q].tries = 0])
      BY <1>1 DEF Charges
  <2>2. /\ orderLog[q][charge[q].pos + 1] # "order_created"
        /\ charge' = [charge EXCEPT ![q].pos = @ + 1]
        /\ charge[q].stage = "idle" /\ charge[q].pos < Len(orderLog[q]) /\ orderLog' = orderLog
      BY <1>3, <2>1 DEF TakeOrderEvent, logVars
  <2>3. charge'[q].pos = charge[q].pos + 1
      BY <1>1, <2>2 DEF Charges
  <2> QED BY <2>2, <2>3
<1>4. CASE AckOrderCreated(q)
    BY <1>1, <1>4 DEF AckOrderCreated, Charges, logVars
<1>5. ~ (CreatePayment(q) \/ Compensate(q) \/ CreateRaises(q) \/ RedeliverOrderCreated(q) \/ PostPayment(q))
  <2>1. CreatePayment(q) \/ Compensate(q) => charge'[q].pos = charge[q].pos
      BY <1>1 DEF CreatePayment, Compensate, ChargeTo, Charges
  <2>2. CreateRaises(q) => charge'[q].pos = charge[q].pos
      BY <1>1 DEF CreateRaises, Charges
  <2>3. RedeliverOrderCreated(q) => charge'[q].pos = charge[q].pos
      BY <1>1 DEF RedeliverOrderCreated, Charges
  <2>4. ~ PostPayment(q)
      BY <1>2 DEF PostPayment
  <2> QED BY <2>1, <2>2, <2>3, <2>4
<1>6. ~ (StoreOrder(q) \/ RepeatOrderEvent(q) \/ RepeatPaymentEvent(q)
         \/ \E i \in 1 .. MaxPayEvents : UpdateOrder(q, i) \/ UpdateFails(q, i))
    BY <1>2 DEF StoreOrder, RepeatOrderEvent, RepeatPaymentEvent, UpdateOrder, UpdateFails, paymentVars
<1> QED BY <1>2, <1>3, <1>4, <1>5, <1>6, CountSteps DEF PaymentStep

\* The events of an order stay where they are in its log.
LEMMA OrderLogGrows ==
    ASSUME TInv, [Next]_vars, NEW q \in Orders
    PROVE  \A k \in DOMAIN orderLog[q] : k \in DOMAIN orderLog'[q] /\ orderLog'[q][k] = orderLog[q][k]
<1>1. CASE UNCHANGED orderLog
    BY <1>1
<1>2. ASSUME NEW o \in Orders, NEW type \in OrderEvents, EmitOrder(o, type)
      PROVE  \A k \in DOMAIN orderLog[q] : k \in DOMAIN orderLog'[q] /\ orderLog'[q][k] = orderLog[q][k]
    BY <1>2, EmitOrderGrows
<1>3. ASSUME NEW o \in Orders, StoreOrder(o)
      PROVE  UNCHANGED orderLog \/ \E type \in OrderEvents : EmitOrder(o, type)
    BY <1>3 DEF StoreOrder, OrderEvents
<1>4. ASSUME NEW o \in Orders, RepeatOrderEvent(o)
      PROVE  \E type \in OrderEvents : EmitOrder(o, type)
    BY <1>4 DEF RepeatOrderEvent, TInv, LogsOK
<1>5. ASSUME NEW o \in Orders, NEW i \in 1 .. MaxPayEvents, UpdateOrder(o, i) \/ UpdateFails(o, i)
      PROVE  UNCHANGED orderLog \/ \E type \in OrderEvents : EmitOrder(o, type)
  <2>1. Outcome(payLog[o][i].type) \in OrderEvents
      BY DEF Outcome, OrderEvents
  <2> QED BY <1>5, <2>1 DEF UpdateOrder, UpdateFails
<1> QED
    BY <1>1, <1>2, <1>3, <1>4, <1>5, OrderEventSteps

LEMMA NextCreatedIsAnswered ==
    TInv /\ CountInv /\ GiveUpCost /\ CreatedIsAnswered /\ [Next]_vars => CreatedIsAnswered'
<1> SUFFICES ASSUME TInv, CountInv, GiveUpCost, CreatedIsAnswered, [Next]_vars, NEW q \in Orders
             PROVE  /\ charge'[q].pos <= Len(orderLog'[q])
                    /\ \A k \in 1 .. charge'[q].pos :
                          orderLog'[q][k] = "order_created" => Answered(q)'
                    /\ charge'[q].stage = "done" => Answered(q)'
    BY DEF CreatedIsAnswered
<1>1. /\ charge[q].pos \in Nat /\ Len(orderLog[q]) \in Nat
      /\ DOMAIN orderLog[q] = 1 .. Len(orderLog[q])
      /\ charge[q].pos <= Len(orderLog[q])
    BY CountTypes DEF CreatedIsAnswered
<1>2. charge'[q].stage = "done" => Answered(q)'
    BY StaysAnswered, DoneIsAnswered DEF CreatedIsAnswered
<1>3. CASE charge'[q].pos = charge[q].pos
  <2>1. \A k \in DOMAIN orderLog[q] : k \in DOMAIN orderLog'[q] /\ orderLog'[q][k] = orderLog[q][k]
      BY OrderLogGrows
  <2>2. Len(orderLog[q]) <= Len(orderLog'[q]) /\ Len(orderLog'[q]) \in Nat
    <3>1. Len(orderLog'[q]) \in Nat /\ DOMAIN orderLog'[q] = 1 .. Len(orderLog'[q])
        BY NextTInv DEF TInv, LogsOK
    <3> QED BY <1>1, <2>1, <3>1
  <2> QED BY <1>1, <1>2, <1>3, <2>1, <2>2, StaysAnswered DEF CreatedIsAnswered
<1>4. CASE charge'[q].pos # charge[q].pos
  <2>1. charge'[q].pos = charge[q].pos + 1 /\ orderLog' = orderLog
      BY <1>4, ChargePasses
  <2>2. CASE charge[q].stage = "done"
    <3>1. Answered(q)'
        BY <2>2, StaysAnswered DEF CreatedIsAnswered
    <3>2. charge[q].pos + 1 \in DOMAIN orderLog[q]
        BY <2>2 DEF CountInv, ChargesCreated
    <3> QED BY <1>1, <1>2, <2>1, <3>1, <3>2
  <2>3. CASE charge[q].stage # "done"
    <3>1. charge[q].pos < Len(orderLog[q]) /\ orderLog[q][charge[q].pos + 1] # "order_created"
        BY <1>4, <2>3, ChargePasses
    <3> QED BY <1>1, <1>2, <2>1, <3>1, StaysAnswered DEF CreatedIsAnswered
  <2> QED BY <2>2, <2>3
<1> QED BY <1>3, <1>4

LEMMA NextDoneIsDecided ==
    TInv /\ RInv /\ HandlerCost /\ GiveUpCost /\ OrderIsKnown /\ DoneIsDecided /\ [Next]_vars
        => DoneIsDecided'
<1> SUFFICES ASSUME TInv, RInv, HandlerCost, GiveUpCost, OrderIsKnown, DoneIsDecided, [Next]_vars,
                    edits' = 0, NEW q \in Orders, NEW j \in 1 .. MaxPayEvents,
                    handler'[q][j].stage \in {"done", "acked"}
             PROVE  status'[q] \in {"completed", "cancelled"} \/ MayBeLost(q)'
    BY DEF DoneIsDecided
<1>1. edits = 0 /\ ~(edits' > edits)
    BY EditsGrow
<1>2. ASSUME status[q] \in {"completed", "cancelled"} \/ MayBeLost(q)
      PROVE  status'[q] \in {"completed", "cancelled"} \/ MayBeLost(q)'
  <2>1. request[q].stage = "storing" => status[q] = "none"
      BY DEF RInv, ReservedSoFar
  <2> QED BY <1>1, <1>2, <2>1, LostForGood, StatusCause DEF Target
<1>3. CASE handler'[q][j] = handler[q][j]
    BY <1>1, <1>2, <1>3 DEF DoneIsDecided
<1>4. CASE ReadOrder(q, j) /\ status[q] \in {"none", Target(payLog[q][j].type)}
  <2>1. payLog[q] # <<>>
      BY <1>4 DEF ReadOrder
  <2>2. status[q] \in {"completed", "cancelled"}
      BY <1>4, <2>1 DEF OrderIsKnown, Target
  <2> QED BY <1>2, <2>2
<1>5. CASE UpdateOrder(q, j)
  <2>1. status'[q] = Target(payLog[q][j].type)
      BY <1>5 DEF UpdateOrder, TInv, StatusOK
  <2> QED BY <2>1 DEF Target
<1>6. CASE UpdateFails(q, j) /\ (payLog[q][j].type = "payment_success" => MaxRetries <= handler[q][j].tries)
  <2>1. faults \in Nat /\ faults' = faults + 1
      BY <1>6, FaultsGrow DEF UpdateFails, Fault
  <2>2. payLog[q] \in Seq(PaymentEvents) /\ j \in DOMAIN payLog[q]
      BY <1>6 DEF UpdateFails, TInv, LogsOK, HandlerOK
  <2>3. payLog[q][j].type \in Types(payLog[q]) /\ payLog[q][j] \in PaymentEvents
      BY <2>2 DEF Types
  <2>4. payLog[q][j].type \in {"payment_success", "payment_failed"}
      BY <2>3 DEF PaymentEvents
  <2>5. MaxRetries <= faults \/ q \in Refused
    <3>1. handler[q][j] \in Handlers
        BY DEF TInv, HandlerOK, Handlers
    <3>2. handler[q][j].tries \in Nat /\ handler[q][j].tries <= faults
        BY <3>1 DEF Handlers, MaxRetries, HandlerCost
    <3>3. CASE payLog[q][j].type = "payment_success"
        BY <1>6, <2>1, <3>2, <3>3 DEF MaxRetries
    <3>4. CASE payLog[q][j].type = "payment_failed"
        BY <2>3, <3>4 DEF GiveUpCost, MaxAttempts, MaxRetries
    <3> QED BY <2>4, <3>3, <3>4
  <2>6. MayBeLost(q)'
      BY <2>1, <2>5 DEF MayBeLost, MaxRetries
  <2> QED BY <2>6
<1>7. CASE AckPayment(q, j) /\ handler[q][j].stage = "done"
    BY <1>1, <1>2, <1>7 DEF DoneIsDecided
<1> QED
    BY <1>3, <1>4, <1>5, <1>6, <1>7, HandlerCause

LEMMA NextDInv ==
    TInv /\ RInv /\ TriesCost /\ CountInv /\ DInv /\ [Next]_vars => DInv'
  BY NextHandlerCost, NextGiveUpCost, NextOrderIsKnown, NextCreatedIsAnswered, NextDoneIsDecided
     DEF DInv

LEMMA DecisionFollows ==
    TInv /\ AInv /\ SagaStatus /\ DInv => HandledOrderIsDecided
<1> SUFFICES ASSUME TInv, AInv, SagaStatus, DInv, NEW o \in Orders,
                    status[o] # "none", AllHandled(o), edits = 0
             PROVE  status[o] \in {"completed", "cancelled"} \/ MayBeLost(o)
    BY DEF HandledOrderIsDecided
<1>1. CASE status[o] = "pending"
  <2>1. PICK k \in DOMAIN orderLog[o] : orderLog[o][k] = "order_created"
      BY <1>1, AnnouncedMeaning DEF AInv, Announced
  <2>2. k \in 1 .. charge[o].pos
      BY <2>1, CountTypes DEF AllHandled
  <2>3. Answered(o)
      BY <2>1, <2>2 DEF DInv, CreatedIsAnswered
  <2>4. CASE payLog[o] # <<>>
    <3>1. payLog[o] \in Seq(PaymentEvents) /\ 1 \in DOMAIN payLog[o]
        BY <2>4 DEF TInv, LogsOK
    <3>2. handler[o][1].stage = "acked" /\ 1 \in 1 .. MaxPayEvents
        BY <3>1, Bounds, FaultsAssumption DEF AllHandled, MaxPayEvents
    <3> QED BY <3>2 DEF DInv, DoneIsDecided
  <2> QED BY <2>3, <2>4 DEF Answered
<1> QED BY <1>1 DEF SagaStatus

-----------------------------------------------------------------------------
(* Sums over finite sets.  MapThenSumSet is a fold along CHOOSE; Total is the  *)
(* same fold over a function.  Each fact is proved by looking at a smallest    *)
(* subset that would violate it.                                               *)

\* The fold that MapThenSumSet is made of, over a function of the elements.
Any(s) == CHOOSE x \in s : TRUE
IsFold(f, w, S) ==
    f = [s \in SUBSET S |-> IF s = {} THEN 0 ELSE w[Any(s)] + f[s \ {Any(s)}]]

LEMMA AnyIn == ASSUME NEW S, S # {} PROVE Any(S) \in S
  BY DEF Any

\* A smallest set among finite ones.
LEMMA SmallestSet ==
    ASSUME NEW S, IsFiniteSet(S), NEW U \in SUBSET (SUBSET S), U # {}
    PROVE  \E T \in U : \A V \in SUBSET T : V # T => V \notin U
<1> DEFINE R == StrictSubsetOrdering(S)
           F == FiniteSubsetsOf(S)
<1>1. IsWellFoundedOn(R, F)
    BY FS_StrictSubsetOrderingWellFounded
<1>2. U \subseteq F
    BY FS_Subset DEF FiniteSubsetsOf
<1>3. \E u \in U : \A v \in U : ~ (<<v, u>> \in R)
  <2> HIDE DEF R, F
  <2> QED BY <1>1, <1>2, WFMin
<1>4. PICK T \in U : \A v \in U : ~ (<<v, T>> \in R)
    BY <1>3
<1>5. ASSUME NEW V \in SUBSET T, V # T, V \in U PROVE FALSE
    BY <1>4, <1>5 DEF StrictSubsetOrdering
<1> QED BY <1>4, <1>5

\* Two folds agree where both are defined and their functions agree.
LEMMA FoldsAgree ==
    ASSUME NEW S, IsFiniteSet(S), NEW D, NEW E, S \subseteq D, S \subseteq E, NEW f, NEW g, NEW w, NEW v,
           IsFold(f, w, D), IsFold(g, v, E), \A x \in S : w[x] = v[x]
    PROVE  f[S] = g[S]
<1> DEFINE U == {T \in SUBSET S : f[T] # g[T]}
<1> SUFFICES ASSUME U # {} PROVE FALSE
    OBVIOUS
<1>1. PICK T \in U : \A V \in SUBSET T : V # T => V \notin U
  <2>1. U \in SUBSET (SUBSET S)
      OBVIOUS
  <2> HIDE DEF U
  <2> QED BY <2>1, SmallestSet
<1>2. T \in SUBSET D /\ T \in SUBSET E
    OBVIOUS
<1>3. f[T] = IF T = {} THEN 0 ELSE w[Any(T)] + f[T \ {Any(T)}]
    BY <1>2 DEF IsFold
<1>4. g[T] = IF T = {} THEN 0 ELSE v[Any(T)] + g[T \ {Any(T)}]
    BY <1>2 DEF IsFold
<1>5. CASE T = {}
    BY <1>3, <1>4, <1>5
<1>6. CASE T # {}
  <2>1. Any(T) \in T
      BY <1>6, AnyIn
  <2>2. T \ {Any(T)} \notin U /\ T \ {Any(T)} \in SUBSET S
      BY <1>1, <2>1
  <2>3. f[T \ {Any(T)}] = g[T \ {Any(T)}]
      BY <2>2
  <2>4. w[Any(T)] = v[Any(T)]
      BY <2>1
  <2> QED BY <1>3, <1>4, <1>6, <2>3, <2>4
<1> QED BY <1>5, <1>6

Total(w, S) == (CHOOSE f : IsFold(f, w, S))[S]

\* Every finite set has its fold.
LEMMA FoldExists ==
    ASSUME NEW S, IsFiniteSet(S), NEW w
    PROVE  \E f : IsFold(f, w, S)
<1> DEFINE U == {T \in SUBSET S : ~ \E f : IsFold(f, w, T)}
<1> SUFFICES ASSUME U # {} PROVE FALSE
    OBVIOUS
<1>1. PICK T \in U : \A V \in SUBSET T : V # T => V \notin U
  <2>1. U \in SUBSET (SUBSET S)
      OBVIOUS
  <2> HIDE DEF U
  <2> QED BY <2>1, SmallestSet
<1>2. ASSUME NEW V \in SUBSET T, V # T
      PROVE  IsFold(CHOOSE f : IsFold(f, w, V), w, V)
  <2>1. \E f : IsFold(f, w, V)
      BY <1>1, <1>2
  <2> QED BY <2>1
<1> DEFINE g == [s \in SUBSET T |-> IF s = {} THEN 0 ELSE w[Any(s)] + Total(w, s \ {Any(s)})]
<1>3. ASSUME NEW V \in SUBSET T, V # T
      PROVE  g[V] = Total(w, V)
  <2> DEFINE f == CHOOSE f : IsFold(f, w, V)
  <2>1. IsFold(f, w, V) /\ Total(w, V) = f[V]
      BY <1>2, <1>3 DEF Total
  <2>2. g[V] = IF V = {} THEN 0 ELSE w[Any(V)] + Total(w, V \ {Any(V)})
      OBVIOUS
  <2>3. f[V] = IF V = {} THEN 0 ELSE w[Any(V)] + f[V \ {Any(V)}]
    <3> HIDE DEF f
    <3>1. V \in SUBSET V
        OBVIOUS
    <3> QED BY <2>1, <3>1 DEF IsFold
  <2>4. CASE V # {}
    <3> DEFINE X == V \ {Any(V)}
    <3>1. Any(V) \in V /\ X \in SUBSET T /\ X # T /\ X \subseteq V
        BY <2>4, AnyIn
    <3>2. IsFold(CHOOSE h : IsFold(h, w, X), w, X)
        BY <1>2, <3>1
    <3>3. IsFiniteSet(X)
        BY <3>1, FS_Subset
    <3>4. f[X] = (CHOOSE h : IsFold(h, w, X))[X]
      <4> HIDE DEF f, X
      <4> QED BY <2>1, <3>1, <3>2, <3>3, FoldsAgree
    <3>5. f[X] = Total(w, X)
      <4> HIDE DEF f
      <4> QED BY <3>4 DEF Total
    <3> HIDE DEF f, g
    <3> QED BY <2>1, <2>2, <2>3, <2>4, <3>5
  <2> HIDE DEF f, g
  <2> QED BY <2>1, <2>2, <2>3, <2>4
<1>4. ASSUME NEW s \in SUBSET T
      PROVE  g[s] = IF s = {} THEN 0 ELSE w[Any(s)] + g[s \ {Any(s)}]
  <2>1. CASE s = {}
      BY <2>1
  <2>2. CASE s # {}
    <3>1. s \ {Any(s)} \in SUBSET T /\ s \ {Any(s)} # T
        BY <2>2, AnyIn
    <3>2. g[s \ {Any(s)}] = Total(w, s \ {Any(s)})
        BY <1>3, <3>1
    <3>3. g[s] = w[Any(s)] + Total(w, s \ {Any(s)})
        BY <2>2
    <3> HIDE DEF g
    <3> QED BY <2>2, <3>2, <3>3
  <2> QED BY <2>1, <2>2
<1>5. IsFold(g, w, T)
  <2>1. g = [s \in SUBSET T |-> g[s]]
      OBVIOUS
  <2> HIDE DEF g
  <2>2. [s \in SUBSET T |-> g[s]]
            = [s \in SUBSET T |-> IF s = {} THEN 0 ELSE w[Any(s)] + g[s \ {Any(s)}]]
      BY <1>4
  <2> QED BY <2>1, <2>2 DEF IsFold
<1> HIDE DEF g
<1> QED BY <1>1, <1>5

LEMMA TotalIsFold ==
    ASSUME NEW S, IsFiniteSet(S), NEW w, NEW f, IsFold(f, w, S)
    PROVE  Total(w, S) = f[S]
<1>1. IsFold(CHOOSE g : IsFold(g, w, S), w, S)
    OBVIOUS
<1> QED BY <1>1, FoldsAgree DEF Total

LEMMA TotalStep ==
    ASSUME NEW S, IsFiniteSet(S), NEW w
    PROVE  /\ Total(w, {}) = 0
           /\ S # {} => Total(w, S) = w[Any(S)] + Total(w, S \ {Any(S)})
<1>1. Total(w, {}) = 0
  <2>1. PICK f : IsFold(f, w, {})
      BY FS_EmptySet, FoldExists
  <2>2. Total(w, {}) = f[{}] /\ f[{}] = 0
      BY <2>1, TotalIsFold, FS_EmptySet DEF IsFold
  <2> QED BY <2>2
<1>2. ASSUME S # {} PROVE Total(w, S) = w[Any(S)] + Total(w, S \ {Any(S)})
  <2> DEFINE X == S \ {Any(S)}
  <2>1. PICK f : IsFold(f, w, S)
      BY FoldExists
  <2>2. IsFiniteSet(X) /\ X \subseteq S
      BY FS_Subset
  <2>3. PICK g : IsFold(g, w, X)
      BY <2>2, FoldExists
  <2>4. f[X] = g[X]
    <3> HIDE DEF X
    <3> QED BY <2>1, <2>2, <2>3, FoldsAgree
  <2>5. Total(w, X) = g[X] /\ Total(w, S) = f[S]
      BY <2>1, <2>2, <2>3, TotalIsFold
  <2>6. f[S] = w[Any(S)] + f[X]
      BY <2>1, <1>2 DEF IsFold
  <2> QED BY <2>4, <2>5, <2>6
<1> QED BY <1>1, <1>2

\* Totals of functions that agree are equal.
LEMMA TotalAgree ==
    ASSUME NEW S, IsFiniteSet(S), NEW w, NEW v, \A x \in S : w[x] = v[x]
    PROVE  Total(w, S) = Total(v, S)
<1>1. PICK f : IsFold(f, w, S)
    BY FoldExists
<1>2. PICK g : IsFold(g, v, S)
    BY FoldExists
<1> QED BY <1>1, <1>2, TotalIsFold, FoldsAgree

\* Whole numbers to add.
Ints(w, S) == \A x \in S : w[x] \in Int

LEMMA TotalIsInt ==
    ASSUME NEW S, IsFiniteSet(S), NEW w, Ints(w, S)
    PROVE  Total(w, S) \in Int
<1> DEFINE U == {T \in SUBSET S : Total(w, T) \notin Int}
<1> SUFFICES ASSUME U # {} PROVE FALSE
    OBVIOUS
<1>1. PICK T \in U : \A V \in SUBSET T : V # T => V \notin U
  <2>1. U \in SUBSET (SUBSET S)
      OBVIOUS
  <2> HIDE DEF U
  <2> QED BY <2>1, SmallestSet
<1>2. IsFiniteSet(T)
    BY FS_Subset
<1>3. T # {}
  <2>1. Total(w, {}) = 0 /\ Total(w, T) \notin Int
      BY <1>2, TotalStep
  <2> HIDE DEF U
  <2> QED BY <2>1
<1>4. Any(T) \in T /\ T \ {Any(T)} \in SUBSET T /\ T \ {Any(T)} # T
    BY <1>3, AnyIn
<1>5. Total(w, T \ {Any(T)}) \in Int
    BY <1>1, <1>4
<1>6. Total(w, T) = w[Any(T)] + Total(w, T \ {Any(T)})
    BY <1>2, <1>3, TotalStep
<1>7. w[Any(T)] \in Int
    BY <1>4 DEF Ints
<1> QED BY <1>5, <1>6, <1>7

\* The order in which elements are added does not matter.
LEMMA TotalAdd ==
    ASSUME NEW S, IsFiniteSet(S), NEW w, Ints(w, S), NEW x \in S
    PROVE  Total(w, S) = w[x] + Total(w, S \ {x})
<1> DEFINE U == {T \in SUBSET S : \E z \in T : Total(w, T) # w[z] + Total(w, T \ {z})}
<1> SUFFICES ASSUME U # {} PROVE FALSE
    OBVIOUS
<1>1. PICK T \in U : \A V \in SUBSET T : V # T => V \notin U
  <2>1. U \in SUBSET (SUBSET S)
      OBVIOUS
  <2> HIDE DEF U
  <2> QED BY <2>1, SmallestSet
<1>2. PICK z \in T : Total(w, T) # w[z] + Total(w, T \ {z})
    OBVIOUS
<1> DEFINE y == Any(T)
           Y == T \ {y}
           Z == T \ {z}
<1>3. y \in T /\ T \in SUBSET S
    BY AnyIn
<1>4. IsFiniteSet(T) /\ IsFiniteSet(Y) /\ IsFiniteSet(Z) /\ IsFiniteSet(Y \ {z})
    BY FS_Subset
<1>5. Total(w, T) = w[y] + Total(w, Y)
    BY <1>3, <1>4, TotalStep
<1>6. y # z
    BY <1>2, <1>5
<1>7. Total(w, Y) = w[z] + Total(w, Y \ {z})
    BY <1>1, <1>3, <1>6
<1>8. Total(w, Z) = w[y] + Total(w, Z \ {y})
    BY <1>1, <1>3, <1>6
<1>9. Total(w, Y \ {z}) = Total(w, Z \ {y})
  <2>1. Y \ {z} = Z \ {y}
      OBVIOUS
  <2> QED BY <2>1
<1>10. w[y] \in Int /\ w[z] \in Int /\ Total(w, Y \ {z}) \in Int
  <2>1. Ints(w, Y \ {z})
      BY <1>3 DEF Ints
  <2>2. w[y] \in Int /\ w[z] \in Int
      BY <1>3 DEF Ints
  <2> HIDE DEF y, Y
  <2> QED BY <1>4, <2>1, <2>2, TotalIsInt
<1>11. Total(w, T) # w[z] + Total(w, Z)
    BY <1>2
<1> HIDE DEF y, Y, Z
<1> QED BY <1>11, <1>5, <1>7, <1>8, <1>9, <1>10

\* A total follows one of its summands.
LEMMA TotalUpdate ==
    ASSUME NEW S, IsFiniteSet(S), NEW w, NEW v, Ints(w, S), Ints(v, S), NEW x \in S,
           \A y \in S \ {x} : v[y] = w[y]
    PROVE  Total(v, S) = Total(w, S) + v[x] - w[x]
<1> DEFINE X == S \ {x}
<1>1. IsFiniteSet(X) /\ Ints(w, X) /\ Ints(v, X) /\ v[x] \in Int /\ w[x] \in Int
    BY FS_Subset DEF Ints
<1>2. Total(w, X) = Total(v, X)
  <2>1. \A y \in X : w[y] = v[y]
      OBVIOUS
  <2> HIDE DEF X
  <2> QED BY <1>1, <2>1, TotalAgree
<1>3. Total(w, S) = w[x] + Total(w, X) /\ Total(v, S) = v[x] + Total(v, X)
    BY TotalAdd
<1>4. Total(w, X) \in Int
    BY <1>1, TotalIsInt
<1> HIDE DEF X
<1> QED BY <1>1, <1>2, <1>3, <1>4

\* Summands that are not smaller, and more of them, give no smaller total.
LEMMA TotalGrows ==
    ASSUME NEW S, IsFiniteSet(S), NEW R \in SUBSET S, NEW w, NEW v, Ints(w, S), Ints(v, S),
           \A x \in R : w[x] <= v[x], \A x \in S \ R : 0 <= v[x]
    PROVE  Total(w, R) <= Total(v, S)
<1> DEFINE U == {T \in SUBSET S : ~ (Total(w, T \cap R) <= Total(v, T))}
<1>1. CASE U = {}
  <2>1. S \cap R = R /\ S \in SUBSET S
      OBVIOUS
  <2> QED BY <1>1, <2>1
<1>2. CASE U # {}
  <2>1. PICK T \in U : \A V \in SUBSET T : V # T => V \notin U
    <3>1. U \in SUBSET (SUBSET S)
        OBVIOUS
    <3> HIDE DEF U
    <3> QED BY <1>2, <3>1, SmallestSet
  <2>2. IsFiniteSet(T) /\ Ints(w, T) /\ Ints(v, T) /\ T \in SUBSET S
      BY FS_Subset DEF Ints
  <2>3. CASE T = {}
    <3>1. Total(w, {}) = 0 /\ Total(v, {}) = 0
        BY FS_EmptySet, TotalStep
    <3> QED BY <2>1, <2>3, <3>1
  <2>4. CASE T # {}
    <3>1. PICK x \in T : TRUE
        BY <2>4
    <3> DEFINE X == T \ {x}
    <3>2. Total(w, X \cap R) <= Total(v, X)
        BY <2>1, <3>1
    <3>3. Total(v, T) = v[x] + Total(v, X)
        BY <2>2, <3>1, TotalAdd
    <3>4. IsFiniteSet(X) /\ Ints(v, X) /\ v[x] \in Int /\ w[x] \in Int
        BY <2>2, FS_Subset DEF Ints
    <3>5. IsFiniteSet(T \cap R) /\ Ints(w, T \cap R) /\ IsFiniteSet(X \cap R) /\ Ints(w, X \cap R)
        BY <2>2, FS_Subset DEF Ints
    <3>6. Total(v, X) \in Int /\ Total(w, X \cap R) \in Int
      <4> HIDE DEF X
      <4> QED BY <3>4, <3>5, TotalIsInt
    <3>7. CASE x \in R
      <4>1. x \in T \cap R /\ (T \cap R) \ {x} = X \cap R
          BY <3>7
      <4>2. Total(w, T \cap R) = w[x] + Total(w, X \cap R)
        <5> HIDE DEF X
        <5> QED BY <3>5, <4>1, TotalAdd
      <4>3. w[x] <= v[x] /\ ~ (Total(w, T \cap R) <= Total(v, T))
          BY <3>7
      <4> HIDE DEF X, U
      <4> QED BY <3>2, <3>3, <3>4, <3>6, <4>2, <4>3
    <3>8. CASE x \notin R
      <4>1. Total(w, T \cap R) = Total(w, X \cap R)
        <5>1. T \cap R = X \cap R
            BY <3>8
        <5> QED BY <5>1
      <4>2. 0 <= v[x] /\ ~ (Total(w, T \cap R) <= Total(v, T))
          BY <2>2, <3>8
      <4> HIDE DEF X, U
      <4> QED BY <3>2, <3>3, <3>4, <3>6, <4>1, <4>2
    <3> QED BY <3>7, <3>8
  <2> QED BY <2>3, <2>4
<1> QED BY <1>1, <1>2

LEMMA TotalZero ==
    ASSUME NEW S, IsFiniteSet(S), NEW w, \A x \in S : w[x] = 0
    PROVE  Total(w, S) = 0
<1> DEFINE U == {T \in SUBSET S : Total(w, T) # 0}
<1> SUFFICES ASSUME U # {} PROVE FALSE
    OBVIOUS
<1>1. PICK T \in U : \A V \in SUBSET T : V # T => V \notin U
  <2>1. U \in SUBSET (SUBSET S)
      OBVIOUS
  <2> HIDE DEF U
  <2> QED BY <2>1, SmallestSet
<1>2. IsFiniteSet(T) /\ Total(w, T) # 0 /\ T \in SUBSET S
    BY FS_Subset
<1>3. Total(w, {}) = 0
    BY <1>2, TotalStep
<1>4. T # {}
  <2> HIDE DEF U
  <2> QED BY <1>2, <1>3
<1>5. Any(T) \in T
    BY <1>4, AnyIn
<1>6. Total(w, T \ {Any(T)}) = 0
    BY <1>1, <1>5
<1>7. w[Any(T)] = 0
    BY <1>5
<1>8. Total(w, T) = w[Any(T)] + Total(w, T \ {Any(T)})
    BY <1>2, <1>4, TotalStep
<1> HIDE DEF U
<1> QED BY <1>2, <1>6, <1>7, <1>8

\* A finite set of numbers has a largest one.
LEMMA LargestNumber ==
    ASSUME NEW S, IsFiniteSet(S), S \subseteq Int, S # {}
    PROVE  Max(S) \in S /\ \A y \in S : y <= Max(S)
<1> DEFINE U == {T \in SUBSET S : T # {} /\ ~ \E x \in T : \A y \in T : y <= x}
<1>1. U = {}
  <2> SUFFICES ASSUME U # {} PROVE FALSE
      OBVIOUS
  <2>1. PICK T \in U : \A V \in SUBSET T : V # T => V \notin U
    <3>1. U \in SUBSET (SUBSET S)
        OBVIOUS
    <3> HIDE DEF U
    <3> QED BY <3>1, SmallestSet
  <2>2. PICK z \in T : TRUE
      OBVIOUS
  <2>3. T \subseteq Int /\ ~ \E x \in T : \A y \in T : y <= x
      OBVIOUS
  <2>4. T \ {z} \notin U
      BY <2>1, <2>2
  <2>5. CASE T \ {z} = {}
    <3>1. \A y \in T : y = z
        BY <2>5
    <3> QED BY <2>2, <2>3, <3>1
  <2>6. CASE T \ {z} # {}
    <3>1. PICK x \in T \ {z} : \A y \in T \ {z} : y <= x
        BY <2>4, <2>6
    <3> HIDE DEF U
    <3>2. z <= x => \A y \in T : y <= x
        BY <3>1
    <3>3. x <= z => \A y \in T : y <= z
        BY <2>2, <2>3, <3>1
    <3> QED BY <2>2, <2>3, <3>1, <3>2, <3>3
  <2> QED BY <2>5, <2>6
<1>2. \E x \in S : \A y \in S : y <= x
    BY <1>1
<1>3. \E x \in S : \A y \in S : x >= y
    BY <1>2
<1> QED BY <1>3 DEF Max

-----------------------------------------------------------------------------
(* Conservation of units: the reserved column of a product is the sum, over   *)
(* all items of all orders, of what was reserved and neither confirmed nor     *)
(* released.                                                                   *)

\* The units of an item in the hands of its order: reserved, neither sold nor
\* given back.
Net(count) == count.reserve - count.release - count.confirm

\* The items of o that are for p; the units of each in the hands of o, by the
\* counts of effects; their sum for an order and for all orders.
LinesOf(o, p) == {i \in ItemNumbers(o) : Items[o][i].product = p}
UnitsHeld(counts, o) == [i \in ItemNumbers(o) |-> Items[o][i].qty * Net(counts[o][i])]
HeldOf(counts, p) == [o \in Orders |-> Total(UnitsHeld(counts, o), LinesOf(o, p))]
Held(counts, p) == Total(HeldOf(counts, p), Orders)

\* The reserved units of a product are those the orders hold.
ReservedIsHeld == \A p \in Products : row[p].reserved = Held(effects, p)

\* What effects may be.
Counts == {e \in [Orders -> UNION {[ItemNumbers(o) -> [Ops -> Nat]] : o \in Orders}] :
               \A o \in Orders : e[o] \in [ItemNumbers(o) -> [Ops -> Nat]]}

LEMMA CountsOK == TInv => effects \in Counts
<1> SUFFICES ASSUME TInv PROVE effects \in Counts
    OBVIOUS
<1>1. effects = [o \in Orders |-> effects[o]]
    BY DEF TInv, StockOK
<1>2. \A o \in Orders : effects[o] \in [ItemNumbers(o) -> [Ops -> Nat]]
    BY DEF TInv, StockOK
<1> QED BY <1>1, <1>2 DEF Counts

LEMMA NetIsInt ==
    ASSUME NEW e \in Counts, NEW o \in Orders, NEW i \in ItemNumbers(o)
    PROVE  /\ Net(e[o][i]) \in Int /\ e[o][i].reserve \in Nat /\ e[o][i].release \in Nat
           /\ e[o][i].confirm \in Nat
           /\ Items[o][i].qty * Net(e[o][i]) \in Int
<1>1. e[o][i] \in [Ops -> Nat] /\ Items[o][i].qty \in Int
    BY ItemFacts DEF Counts
<1>2. e[o][i].reserve \in Nat /\ e[o][i].release \in Nat /\ e[o][i].confirm \in Nat
    BY <1>1 DEF Ops
<1>3. Net(e[o][i]) \in Int
    BY <1>2 DEF Net
<1> QED BY <1>1, <1>2, <1>3

LEMMA LinesAreFinite ==
    ASSUME NEW o \in Orders, NEW p
    PROVE  IsFiniteSet(LinesOf(o, p)) /\ IsFiniteSet(ItemNumbers(o))
<1>1. IsFiniteSet(ItemNumbers(o))
    BY ItemFacts, FS_Interval DEF ItemNumbers
<1> QED BY <1>1, FS_Subset DEF LinesOf

LEMMA HeldIsInt ==
    ASSUME NEW e \in Counts, NEW p
    PROVE  /\ \A o \in Orders : Ints(UnitsHeld(e, o), LinesOf(o, p))
           /\ Ints(HeldOf(e, p), Orders)
           /\ Held(e, p) \in Int
<1>1. ASSUME NEW o \in Orders
      PROVE  Ints(UnitsHeld(e, o), LinesOf(o, p))
    BY NetIsInt DEF Ints, UnitsHeld, LinesOf
<1>2. Ints(HeldOf(e, p), Orders)
    BY <1>1, LinesAreFinite, TotalIsInt DEF Ints, HeldOf
<1> QED BY <1>1, <1>2, OrdersAssumption, TotalIsInt DEF Held

\* What the orders hold follows the counts of a single item.
LEMMA HeldFollows ==
    ASSUME NEW e \in Counts, NEW f \in Counts, NEW o \in Orders, NEW i \in ItemNumbers(o),
           \A q \in Orders : \A j \in ItemNumbers(q) : (q # o \/ j # i) => f[q][j] = e[q][j],
           NEW p \in Products
    PROVE  Held(f, p) = Held(e, p) + IF Items[o][i].product = p
                                     THEN UnitsHeld(f, o)[i] - UnitsHeld(e, o)[i] ELSE 0
<1>1. \A q \in Orders : IsFiniteSet(LinesOf(q, p))
    BY LinesAreFinite
<1>2. /\ \A q \in Orders : Ints(UnitsHeld(e, q), LinesOf(q, p)) /\ Ints(UnitsHeld(f, q), LinesOf(q, p))
      /\ Ints(HeldOf(e, p), Orders) /\ Ints(HeldOf(f, p), Orders)
      /\ Held(e, p) \in Int
    BY HeldIsInt
<1>3. ASSUME NEW q \in Orders, q # o
      PROVE  HeldOf(f, p)[q] = HeldOf(e, p)[q]
  <2>1. \A j \in LinesOf(q, p) : UnitsHeld(f, q)[j] = UnitsHeld(e, q)[j]
      BY <1>3 DEF UnitsHeld, LinesOf
  <2> QED BY <1>1, <2>1, TotalAgree DEF HeldOf
<1>4. CASE Items[o][i].product = p
  <2>1. i \in LinesOf(o, p)
      BY <1>4 DEF LinesOf
  <2>2. \A j \in LinesOf(o, p) \ {i} : UnitsHeld(f, o)[j] = UnitsHeld(e, o)[j]
      BY DEF UnitsHeld, LinesOf
  <2>3. Total(UnitsHeld(f, o), LinesOf(o, p))
            = Total(UnitsHeld(e, o), LinesOf(o, p)) + UnitsHeld(f, o)[i] - UnitsHeld(e, o)[i]
      BY <1>1, <1>2, <2>1, <2>2, TotalUpdate
  <2>4. HeldOf(f, p)[o] = HeldOf(e, p)[o] + UnitsHeld(f, o)[i] - UnitsHeld(e, o)[i]
      BY <2>3 DEF HeldOf
  <2>5. Held(f, p) = Held(e, p) + HeldOf(f, p)[o] - HeldOf(e, p)[o]
      BY <1>2, <1>3, OrdersAssumption, TotalUpdate DEF Held
  <2>6. /\ UnitsHeld(f, o)[i] \in Int /\ UnitsHeld(e, o)[i] \in Int
        /\ HeldOf(f, p)[o] \in Int /\ HeldOf(e, p)[o] \in Int
      BY <1>2, <2>1 DEF Ints
  <2> QED BY <1>2, <1>4, <2>4, <2>5, <2>6
<1>5. CASE Items[o][i].product # p
  <2>1. \A j \in LinesOf(o, p) : UnitsHeld(f, o)[j] = UnitsHeld(e, o)[j]
      BY <1>5 DEF UnitsHeld, LinesOf
  <2>2. HeldOf(f, p)[o] = HeldOf(e, p)[o]
      BY <1>1, <2>1, TotalAgree DEF HeldOf
  <2>3. \A q \in Orders : HeldOf(f, p)[q] = HeldOf(e, p)[q]
      BY <1>3, <2>2
  <2>4. Held(f, p) = Held(e, p)
      BY <2>3, OrdersAssumption, TotalAgree DEF Held
  <2> QED BY <1>2, <1>5, <2>4
<1> QED BY <1>4, <1>5

\* What a call does to the row it is about, and to nothing else.
LEMMA ApplyFacts ==
    ASSUME TInv, NEW op \in Ops, NEW o \in Orders, NEW i \in ItemNumbers(o), Apply(op, o, i),
           NEW p \in Products
    PROVE  LET q == IF Items[o][i].product = p THEN Items[o][i].qty ELSE 0
               old == effects[o][i]
               new == effects'[o][i]
           IN  /\ Permitted(op, row[Items[o][i].product], Items[o][i].qty)
               /\ row[p].stock \in Int /\ row[p].reserved \in Int /\ q \in Int
               /\ op = "reserve" =>
                    /\ row'[p].stock = row[p].stock /\ row'[p].reserved = row[p].reserved + q
                    /\ new.reserve = old.reserve + 1
                    /\ new.release = old.release /\ new.confirm = old.confirm
               /\ op = "release" =>
                    /\ row'[p].stock = row[p].stock /\ row'[p].reserved = row[p].reserved - q
                    /\ new.release = old.release + 1
                    /\ new.reserve = old.reserve /\ new.confirm = old.confirm
               /\ op = "confirm" =>
                    /\ row'[p].stock = row[p].stock - q /\ row'[p].reserved = row[p].reserved - q
                    /\ new.confirm = old.confirm + 1
                    /\ new.reserve = old.reserve /\ new.release = old.release
<1> DEFINE r == Items[o][i].product
           qty == Items[o][i].qty
<1>1. r \in Products /\ qty \in Int
    BY ItemFacts
<1>2. row \in [Products -> Row]
    BY DEF TInv, StockOK
<1>3. Permitted(op, row[r], qty) /\ row' = [row EXCEPT ![r] = Effect(op, @, qty)]
    BY DEF Apply
<1>4. effects' = [effects EXCEPT ![o][i][op] = @ + 1] /\ effects \in Counts
    BY CountsOK DEF Apply
<1>5. effects'[o][i] = [effects[o][i] EXCEPT ![op] = @ + 1] /\ effects[o][i] \in [Ops -> Nat]
    BY <1>4 DEF Counts
<1>6. row[p].stock \in Int /\ row[p].reserved \in Int
    BY <1>2 DEF Row
<1>7. CASE r = p
  <2>1. row'[p] = Effect(op, row[p], qty)
      BY <1>1, <1>2, <1>3, <1>7
  <2>2. row[p] = [stock |-> row[p].stock, reserved |-> row[p].reserved]
      BY <1>2 DEF Row
  <2>3. CASE op = "reserve"
      BY <1>1, <1>3, <1>5, <1>6, <1>7, <2>1, <2>2, <2>3 DEF Effect, Ops
  <2>4. CASE op = "release"
      BY <1>1, <1>3, <1>5, <1>6, <1>7, <2>1, <2>2, <2>4 DEF Effect, Ops
  <2>5. CASE op = "confirm"
      BY <1>1, <1>3, <1>5, <1>6, <1>7, <2>1, <2>2, <2>5 DEF Effect, Ops
  <2> QED BY <2>3, <2>4, <2>5 DEF Ops
<1>8. CASE r # p
  <2>1. row'[p] = row[p]
      BY <1>1, <1>2, <1>3, <1>8
  <2>2. row[p].reserved + 0 = row[p].reserved /\ row[p].reserved - 0 = row[p].reserved
        /\ row[p].stock - 0 = row[p].stock /\ 0 \in Int
      BY <1>6
  <2>3. \A k \in Ops : effects'[o][i][k] = IF k = op THEN effects[o][i][k] + 1 ELSE effects[o][i][k]
      BY <1>5
  <2>4. effects'[o][i].reserve = effects'[o][i]["reserve"]
        /\ effects'[o][i].release = effects'[o][i]["release"]
        /\ effects'[o][i].confirm = effects'[o][i]["confirm"]
      OBVIOUS
  <2> QED BY <1>3, <1>6, <1>8, <2>1, <2>2, <2>3, <2>4 DEF Ops
<1> QED BY <1>7, <1>8

LEMMA ApplyOthers ==
    ASSUME TInv, NEW op \in Ops, NEW o \in Orders, NEW i \in ItemNumbers(o), Apply(op, o, i)
    PROVE  /\ effects \in Counts /\ effects' \in Counts
           /\ \A q \in Orders : \A j \in ItemNumbers(q) :
                 (q # o \/ j # i) => effects'[q][j] = effects[q][j]
<1>1. effects' = [effects EXCEPT ![o][i][op] = @ + 1] /\ effects \in Counts
    BY CountsOK DEF Apply
<1>2. /\ effects' = [q \in Orders |-> effects'[q]]
      /\ \A q \in Orders : effects'[q] \in [ItemNumbers(q) -> [Ops -> Nat]]
    BY ApplyTypeOK
<1>3. effects' \in Counts
    BY <1>2 DEF Counts
<1>4. \A q \in Orders : q # o => effects'[q] = effects[q]
    BY <1>1 DEF Counts
<1>5. \A j \in ItemNumbers(o) : j # i => effects'[o][j] = effects[o][j]
    BY <1>1 DEF Counts
<1> QED BY <1>1, <1>3, <1>4, <1>5

LEMMA Times ==
    ASSUME NEW q \in Int, NEW n \in Int
    PROVE  q * (n + 1) = q * n + q /\ q * (n - 1) = q * n - q
  OBVIOUS

\* The only steps that touch rows or counts are inventory operations.
LEMMA RowSteps ==
    ASSUME TInv, [Next]_vars
    PROVE  UNCHANGED stockVars \/ \E op \in Ops, o \in Orders : \E i \in ItemNumbers(o) : Apply(op, o, i)
<1>1. ASSUME NEW o \in Orders, ReserveItem(o) PROVE request[o].item \in ItemNumbers(o)
    BY <1>1 DEF ReserveItem, TInv, RequestOK
<1>2. ASSUME NEW o \in Orders, SettleItem(o) PROVE settle[o].item \in ItemNumbers(o)
    BY <1>2 DEF SettleItem, TInv, SettleOK
<1>3. \A type : Settlement(type) \in Ops
    BY DEF Settlement, Ops
<1>4. CASE OrderNext
  <2>1. PICK o \in Orders :
            \/ RequestStep(o) \/ LoseRequest(o)
            \/ \E i \in 1 .. MaxPayEvents : HandlerStep(o, i) \/ RedeliverPayment(o, i)
            \/ \E s \in OrderStatus : EditStatus(o, s)
      BY <1>4 DEF OrderNext
  <2>2. CASE ReserveItem(o)
      BY <1>1, <2>2 DEF ReserveItem, Ops
  <2>3. CASE ~ ReserveItem(o)
      BY <2>1, <2>3 DEF RequestStep, HandlerStep, ValidateUser, PriceItem, StoreOrder,
           CompensateRequest, LoseRequest, ReadOrder, UpdateOrder, UpdateFails, AckPayment,
           RedeliverPayment, EditStatus
  <2> QED BY <2>2, <2>3
<1>5. CASE PaymentNext
    BY <1>5 DEF PaymentNext, PaymentStep, TakeOrderEvent, CreatePayment, CreateRaises, Compensate,
           AckOrderCreated, RedeliverOrderCreated, PostPayment
<1>6. CASE ProductNext
  <2>1. PICK o \in Orders : ProductStep(o) \/ RedeliverOutcome(o)
      BY <1>6 DEF ProductNext
  <2>2. CASE SettleItem(o)
      BY <1>2, <1>3, <2>2 DEF SettleItem
  <2>3. CASE ~ SettleItem(o)
      BY <2>1, <2>3 DEF ProductStep, TakeOutcome, AckOutcome, RedeliverOutcome
  <2> QED BY <2>2, <2>3
<1> QED
    BY <1>4, <1>5, <1>6 DEF Next, RepeatOrderEvent, RepeatPaymentEvent, vars, stockVars

LEMMA NextReservedIsHeld == TInv /\ ReservedIsHeld /\ [Next]_vars => ReservedIsHeld'
<1> SUFFICES ASSUME TInv, ReservedIsHeld, [Next]_vars, NEW p \in Products
             PROVE  row'[p].reserved = Held(effects', p)
    BY DEF ReservedIsHeld, Held, HeldOf, UnitsHeld, LinesOf, ItemNumbers
<1>1. CASE UNCHANGED stockVars
    BY <1>1 DEF stockVars, ReservedIsHeld
<1>2. ASSUME NEW op \in Ops, NEW o \in Orders, NEW i \in ItemNumbers(o), Apply(op, o, i)
      PROVE  row'[p].reserved = Held(effects', p)
  <2> DEFINE qty == Items[o][i].qty
             q   == IF Items[o][i].product = p THEN qty ELSE 0
             old == effects[o][i]
             new == effects'[o][i]
  <2>1. Held(effects', p) = Held(effects, p) + IF Items[o][i].product = p
                  THEN UnitsHeld(effects', o)[i] - UnitsHeld(effects, o)[i] ELSE 0
      BY <1>2, ApplyOthers, HeldFollows
  <2>2. UnitsHeld(effects', o)[i] = qty * Net(new) /\ UnitsHeld(effects, o)[i] = qty * Net(old)
      BY DEF UnitsHeld
  <2>3. /\ Net(old) \in Int /\ Net(new) \in Int /\ qty \in Int
        /\ qty * Net(old) \in Int
      BY <1>2, ApplyOthers, NetIsInt, ItemFacts
  <2>4. /\ old.reserve \in Nat /\ old.release \in Nat /\ old.confirm \in Nat
      BY <1>2, ApplyOthers, NetIsInt
  <2>5. \/ op = "reserve" /\ Net(new) = Net(old) + 1 /\ row'[p].reserved = row[p].reserved + q
        \/ op # "reserve" /\ Net(new) = Net(old) - 1 /\ row'[p].reserved = row[p].reserved - q
    <3>1. CASE op = "reserve"
        BY <1>2, <2>4, <3>1, ApplyFacts DEF Net
    <3>2. CASE op = "release"
        BY <1>2, <2>4, <3>2, ApplyFacts DEF Net
    <3>3. CASE op = "confirm"
        BY <1>2, <2>4, <3>3, ApplyFacts DEF Net
    <3> QED BY <3>1, <3>2, <3>3 DEF Ops
  <2>6. row[p].reserved = Held(effects, p) /\ Held(effects, p) \in Int
      BY <1>2, ApplyOthers, HeldIsInt DEF ReservedIsHeld
  <2>7. \/ qty * Net(new) = qty * Net(old) + qty /\ row'[p].reserved = row[p].reserved + q
        \/ qty * Net(new) = qty * Net(old) - qty /\ row'[p].reserved = row[p].reserved - q
    <3> HIDE DEF qty, old, new, q
    <3> QED BY <2>3, <2>5, Times
  <2>8. qty * Net(new) \in Int
      BY <2>3, <2>7
  <2> HIDE DEF qty, old, new
  <2> QED BY <2>1, <2>2, <2>3, <2>6, <2>7, <2>8
<1> QED BY <1>1, <1>2, RowSteps

LEMMA InitReservedIsHeld == Init => ReservedIsHeld
<1> SUFFICES ASSUME Init, NEW p \in Products PROVE row[p].reserved = Held(effects, p)
    BY DEF ReservedIsHeld
<1>1. effects \in Counts
    BY InitTInv, CountsOK
<1>2. ASSUME NEW o \in Orders, NEW i \in ItemNumbers(o) PROVE UnitsHeld(effects, o)[i] = 0
    BY ItemFacts DEF Init, UnitsHeld, Net, Ops
<1>3. ASSUME NEW o \in Orders PROVE HeldOf(effects, p)[o] = 0
    BY <1>2, LinesAreFinite, TotalZero DEF HeldOf, LinesOf
<1>4. Held(effects, p) = 0
    BY <1>3, OrdersAssumption, TotalZero DEF Held
<1> QED BY <1>4 DEF Init

-----------------------------------------------------------------------------
(* What the pending orders want is part of what the orders hold. *)

\* The units of each item of o, of p for each order, and of all pending orders.
Wanted(o) == [i \in ItemNumbers(o) |-> Items[o][i].qty]
WantedOf(p) == [o \in Orders |-> Units(o, p)]
Pending == {o \in Orders : status[o] = "pending"}
PendingUnits(p) == Total(WantedOf(p), Pending)

\* The library's sum over the items is a Total.
LEMMA UnitsAreTotal ==
    ASSUME NEW o \in Orders, NEW p
    PROVE  Units(o, p) = Total(Wanted(o), LinesOf(o, p))
<1> DEFINE S == LinesOf(o, p)
           Body(f) == [s \in SUBSET S |->
                    IF s = {} THEN 0
                    ELSE Items[o][CHOOSE x \in s : TRUE].qty + f[s \ {CHOOSE x \in s : TRUE}]]
           sum == CHOOSE f : f = Body(f)
<1>1. Units(o, p) = sum[S]
    BY DEF Units, MapThenSumSet, MapThenFoldSet, LinesOf
<1>2. ASSUME NEW f
      PROVE  f = Body(f) <=> IsFold(f, Wanted(o), S)
  <2>1. \A s \in SUBSET S : s # {} => Wanted(o)[Any(s)] = Items[o][CHOOSE x \in s : TRUE].qty
      BY AnyIn DEF Wanted, Any, LinesOf
  <2>2. Body(f) = [s \in SUBSET S |-> IF s = {} THEN 0 ELSE Wanted(o)[Any(s)] + f[s \ {Any(s)}]]
      BY <2>1 DEF Any
  <2> HIDE DEF S, Body
  <2> QED BY <2>2 DEF IsFold
<1>3. IsFold(sum, Wanted(o), S)
  <2>1. PICK f : IsFold(f, Wanted(o), S)
      BY LinesAreFinite, FoldExists
  <2>2. f = Body(f)
      BY <1>2, <2>1
  <2>3. sum = Body(sum)
      BY <2>2
  <2> HIDE DEF sum
  <2> QED BY <2>3, <1>2
<1> HIDE DEF sum
<1> QED BY <1>1, <1>3, LinesAreFinite, TotalIsFold

\* So is the sum over the pending orders.
LEMMA PendingIsTotal ==
    ASSUME NEW p \in Products
    PROVE  (LET units(o) == Units(o, p)
            IN  MapThenSumSet(units, {o \in Orders : status[o] = "pending"})) = PendingUnits(p)
<1> DEFINE S == Pending
           Body(f) == [s \in SUBSET S |->
                    IF s = {} THEN 0
                    ELSE Units(CHOOSE x \in s : TRUE, p) + f[s \ {CHOOSE x \in s : TRUE}]]
           sum == CHOOSE f : f = Body(f)
<1>1. (LET units(o) == Units(o, p)
       IN  MapThenSumSet(units, {o \in Orders : status[o] = "pending"})) = sum[S]
    BY DEF MapThenSumSet, MapThenFoldSet, Pending
<1>2. ASSUME NEW f
      PROVE  f = Body(f) <=> IsFold(f, WantedOf(p), S)
  <2>1. \A s \in SUBSET S : s # {} => WantedOf(p)[Any(s)] = Units(CHOOSE x \in s : TRUE, p)
      BY AnyIn DEF WantedOf, Any, Pending
  <2>2. Body(f) = [s \in SUBSET S |-> IF s = {} THEN 0 ELSE WantedOf(p)[Any(s)] + f[s \ {Any(s)}]]
      BY <2>1 DEF Any
  <2> HIDE DEF S, Body
  <2> QED BY <2>2 DEF IsFold
<1>4. IsFiniteSet(S)
    BY OrdersAssumption, FS_Subset DEF Pending
<1>3. IsFold(sum, WantedOf(p), S)
  <2>1. PICK f : IsFold(f, WantedOf(p), S)
      BY <1>4, FoldExists
  <2>2. f = Body(f)
      BY <1>2, <2>1
  <2>3. sum = Body(sum)
      BY <2>2
  <2> HIDE DEF sum
  <2> QED BY <2>3, <1>2
<1>5. sum[S] = Total(WantedOf(p), S)
  <2> HIDE DEF sum, S
  <2> QED BY <1>3, <1>4, TotalIsFold
<1> QED BY <1>1, <1>5 DEF PendingUnits

\* No quantity is negative.
NoRefunds == \A o \in Orders : \A i \in ItemNumbers(o) : Items[o][i].qty >= 0

\* Counts as they are when an order is settled at most once.
SoundCounts ==
    \A o \in Orders : \A i \in ItemNumbers(o) :
        /\ effects[o][i].confirm + effects[o][i].release <= effects[o][i].reserve
        /\ status[o] = "pending" =>
              /\ effects[o][i].reserve = 1
              /\ effects[o][i].confirm = 0 /\ effects[o][i].release = 0

LEMMA PendingUnitsAreHeld ==
    ASSUME NoRefunds, TInv, SoundCounts, NEW p \in Products
    PROVE  PendingUnits(p) <= Held(effects, p)
<1>1. effects \in Counts
    BY CountsOK
<1>2. ASSUME NEW o \in Orders
      PROVE  /\ HeldOf(effects, p)[o] >= 0 /\ HeldOf(effects, p)[o] \in Int
             /\ status[o] = "pending" => WantedOf(p)[o] = HeldOf(effects, p)[o]
             /\ Units(o, p) \in Int
  <2>1. IsFiniteSet(LinesOf(o, p)) /\ Ints(UnitsHeld(effects, o), LinesOf(o, p))
      BY <1>1, LinesAreFinite, HeldIsInt
  <2>2. \A i \in LinesOf(o, p) : 0 <= UnitsHeld(effects, o)[i]
    <3> SUFFICES ASSUME NEW i \in ItemNumbers(o) PROVE 0 <= Items[o][i].qty * Net(effects[o][i])
        BY DEF UnitsHeld, LinesOf
    <3>1. Net(effects[o][i]) >= 0
        BY <1>1, NetIsInt DEF Net, SoundCounts
    <3>2. Items[o][i].qty >= 0 /\ Items[o][i].qty \in Int /\ Net(effects[o][i]) \in Int
        BY <1>1, NetIsInt, ItemFacts DEF NoRefunds
    <3> QED BY <3>1, <3>2
  <2>3. 0 <= Total(UnitsHeld(effects, o), LinesOf(o, p))
    <3>1. Total(Wanted(o), {}) = 0
        BY FS_EmptySet, TotalStep
    <3>2. Ints(Wanted(o), LinesOf(o, p))
        BY ItemFacts DEF Ints, Wanted, LinesOf
    <3> QED BY <2>1, <2>2, <3>1, <3>2, TotalGrows
  <2>4. Total(UnitsHeld(effects, o), LinesOf(o, p)) \in Int
      BY <2>1, TotalIsInt
  <2>5. ASSUME status[o] = "pending"
        PROVE  Total(Wanted(o), LinesOf(o, p)) = Total(UnitsHeld(effects, o), LinesOf(o, p))
    <3>1. ASSUME NEW i \in ItemNumbers(o) PROVE UnitsHeld(effects, o)[i] = Items[o][i].qty
      <4>1. Net(effects[o][i]) = 1
          BY <1>1, <2>5, NetIsInt DEF Net, SoundCounts
      <4>2. UnitsHeld(effects, o)[i] = Items[o][i].qty * Net(effects[o][i])
          BY DEF UnitsHeld
      <4> QED BY <4>1, <4>2, ItemFacts
    <3>2. \A i \in LinesOf(o, p) : Wanted(o)[i] = UnitsHeld(effects, o)[i]
        BY <3>1 DEF Wanted, LinesOf
    <3> QED BY <2>1, <3>2, TotalAgree
  <2>6. Units(o, p) \in Int
    <3>1. Ints(Wanted(o), LinesOf(o, p))
        BY ItemFacts DEF Ints, Wanted, LinesOf
    <3> QED BY <2>1, <3>1, UnitsAreTotal, TotalIsInt
  <2> QED BY <2>3, <2>4, <2>5, <2>6, UnitsAreTotal DEF HeldOf, WantedOf
<1>3. Ints(WantedOf(p), Orders) /\ Ints(HeldOf(effects, p), Orders)
    BY <1>2 DEF Ints, WantedOf
<1>4. /\ \A o \in Pending : WantedOf(p)[o] <= HeldOf(effects, p)[o]
      /\ \A o \in Orders \ Pending : 0 <= HeldOf(effects, p)[o]
      /\ Pending \in SUBSET Orders
    BY <1>2 DEF Pending
<1> QED BY <1>3, <1>4, OrdersAssumption, TotalGrows DEF PendingUnits, Held

-----------------------------------------------------------------------------
(* When nothing happens twice, an order goes through its stages once. *)

\* No fault that makes anything happen twice, and no requests about the order
\* beside its own.
NothingTwice == {"uncertain", "crash", "repeat"} \cap Faults = {} /\ MaxEdits = 0

\* Item i of o is neither sold nor given back.
Unsettled(o, i) == effects[o][i].confirm = 0 /\ effects[o][i].release = 0

\* The order events tell the history of the status, without repetition.
StatusMatches(o) ==
    \/ status[o] = "none" /\ orderLog[o] = <<>>
    \/ status[o] = "pending" /\ orderLog[o] = <<"order_created">>
    \/ status[o] = "completed" /\ orderLog[o] = <<"order_created", "order_success">>
    \/ status[o] = "cancelled" /\ orderLog[o] = <<"order_created", "order_failed">>

\* At most one payment event; the payment row and the final status agree with it.
DecidedOnce(o) ==
    \/ payLog[o] = <<>> /\ payments[o] = 0 /\ status[o] \in {"none", "pending"}
    \/ /\ Len(payLog[o]) = 1
       /\ status[o] \in {"pending", Target(payLog[o][1].type)}
       /\ payments[o] = IF payLog[o][1].type = "payment_success" THEN 1 ELSE 0

\* The payment service works on order_created alone, before its event.
ChargedOnce(o) ==
    /\ charge[o].stage # "idle" => charge[o].pos = 0 /\ status[o] # "none"
    /\ charge[o].stage \in {"creating", "compensating"} => payLog[o] = <<>>
    /\ charge[o].stage = "idle" /\ charge[o].pos = 0 => payLog[o] = <<>>

\* A handler that has read the order is about to decide a pending one.
UpdatesPending(o) ==
    \A i \in 1 .. MaxPayEvents : handler[o][i].stage = "update" => status[o] = "pending"

\* The product service works on the outcome alone, and an item it has not come to
\* is unsettled.
SettledOnce(o) ==
    /\ settle[o].pos <= Len(orderLog[o])
    /\ settle[o].stage # "idle" => settle[o].pos = 1 /\ Len(orderLog[o]) = 2
    /\ \A i \in ItemNumbers(o) :
          /\ effects[o][i].confirm + effects[o][i].release <= effects[o][i].reserve
          /\ settle[o].stage = "idle" /\ settle[o].pos <= 1 => Unsettled(o, i)
          /\ settle[o].stage = "working" /\ settle[o].item <= i => Unsettled(o, i)

Once(o) ==
    StatusMatches(o) /\ DecidedOnce(o) /\ ChargedOnce(o) /\ UpdatesPending(o) /\ SettledOnce(o)

OnceInv == \A o \in Orders : Once(o)

\* What Once(q) looks at.
StaysSame(q) ==
    /\ status'[q] = status[q] /\ orderLog'[q] = orderLog[q]
    /\ payLog'[q] = payLog[q] /\ payments'[q] = payments[q]
    /\ charge'[q] = charge[q] /\ handler'[q] = handler[q]
    /\ settle'[q] = settle[q] /\ effects'[q] = effects[q]

LEMMA OnceFrame == ASSUME NEW q \in Orders, Once(q), StaysSame(q) PROVE Once(q)'
<1> USE DEF StaysSame
<1>1. StatusMatches(q)'
    BY DEF Once, StatusMatches
<1>2. DecidedOnce(q)'
    BY DEF Once, DecidedOnce
<1>3. ChargedOnce(q)'
    BY DEF Once, ChargedOnce
<1>4. UpdatesPending(q)'
    BY DEF Once, UpdatesPending
<1>5. SettledOnce(q)'
    BY DEF Once, SettledOnce, Unsettled
<1> QED BY <1>1, <1>2, <1>3, <1>4, <1>5 DEF Once

\* The steps that are left.
PlainStep(o) ==
    \/ RequestStep(o) \/ LoseRequest(o)
    \/ \E i \in 1 .. MaxPayEvents : HandlerStep(o, i)
    \/ PaymentStep(o)
    \/ ProductStep(o)

LEMMA PlainSteps ==
    ASSUME NothingTwice, TInv, [Next]_vars
    PROVE  UNCHANGED vars \/ \E o \in Orders : PlainStep(o)
<1>1. edits = 0 /\ MaxEdits = 0
    BY DEF TInv, BoundsOK, NothingTwice
<1>2. ~ Fault("crash") /\ ~ Fault("repeat")
    BY DEF Fault, NothingTwice
<1>3. CASE OrderNext
    BY <1>1, <1>2, <1>3 DEF OrderNext, PlainStep, RedeliverPayment, EditStatus
<1>4. CASE PaymentNext
    BY <1>1, <1>2, <1>4 DEF PaymentNext, PlainStep, RedeliverOrderCreated, PostPayment
<1>5. CASE ProductNext
    BY <1>2, <1>5 DEF ProductNext, PlainStep, RedeliverOutcome
<1> QED BY <1>2, <1>3, <1>4, <1>5 DEF Next, RepeatOrderEvent, RepeatPaymentEvent

LEMMA ApplyOthersStay ==
    ASSUME TInv, NEW o \in Orders, NEW q \in Orders, q # o,
           UNCHANGED stockVars \/ \E op, i : Apply(op, o, i)
    PROVE  effects'[q] = effects[q]
<1>1. effects = [r \in Orders |-> effects[r]]
    BY DEF TInv, StockOK
<1>2. ASSUME NEW op, NEW i, Apply(op, o, i) PROVE effects'[q] = effects[q]
    BY <1>1, <1>2 DEF Apply
<1> QED BY <1>2 DEF stockVars

\* A step is about one order.
LEMMA OthersStay ==
    ASSUME TInv, NEW o \in Orders, PlainStep(o), NEW q \in Orders, q # o
    PROVE  StaysSame(q)
<1> USE DEF StaysSame, orderVars, paymentVars, productVars, logVars
<1>1. /\ status \in [Orders -> OrderStatus \cup {"none"}] /\ payments \in [Orders -> Nat]
      /\ orderLog \in [Orders -> Seq(OrderEvents)] /\ payLog \in [Orders -> Seq(PaymentEvents)]
      /\ charge \in [Orders -> Charges] /\ settle \in [Orders -> Settles]
      /\ handler \in [Orders -> [1 .. MaxPayEvents -> Handlers]]
    BY DEF TInv, StatusOK, PaymentsOK, LogsOK, ChargeOK, SettleOK, HandlerOK, Charges, Settles, Handlers
<1>2. CASE RequestStep(o) \/ LoseRequest(o)
  <2> USE DEF RequestStep, ValidateUser, ReserveItem, PriceItem, StoreOrder, CompensateRequest, LoseRequest
  <2>1. UNCHANGED stockVars \/ \E op, i : Apply(op, o, i)
      BY <1>2
  <2>2. effects'[q] = effects[q]
      BY <2>1, ApplyOthersStay
  <2>3. UNCHANGED <<handler, payments, charge, settle, payLog>>
      BY <1>2
  <2>4. UNCHANGED <<status, orderLog>> \/ (status' = [status EXCEPT ![o] = "pending"] /\ EmitOrder(o, "order_created"))
          \/ (UNCHANGED status /\ EmitOrder(o, "order_created"))
      BY <1>2
  <2> QED BY <1>1, <2>2, <2>3, <2>4 DEF EmitOrder
<1>3. ASSUME NEW i \in 1 .. MaxPayEvents, HandlerStep(o, i)
      PROVE  StaysSame(q)
  <2>1. UNCHANGED <<payments, charge, settle, payLog, row, effects>>
      BY <1>3 DEF HandlerStep, ReadOrder, UpdateOrder, UpdateFails, AckPayment, stockVars
  <2>2. \/ UNCHANGED <<status, orderLog>>
        \/ \E x, y : status' = [status EXCEPT ![o] = x] /\ EmitOrder(o, y)
      BY <1>3 DEF HandlerStep, ReadOrder, UpdateOrder, UpdateFails, AckPayment
  <2>3. \E h : handler' = [handler EXCEPT ![o] = h]
      BY <1>3 DEF HandlerStep, ReadOrder, UpdateOrder, UpdateFails, AckPayment, HandlerTo, AfterFailure
  <2> QED BY <1>1, <2>1, <2>2, <2>3 DEF EmitOrder
<1>4. CASE PaymentStep(o)
  <2>1. UNCHANGED <<status, handler, settle, orderLog, row, effects>>
      BY <1>4 DEF PaymentStep, TakeOrderEvent, CreatePayment, CreateRaises, Compensate, AckOrderCreated, stockVars
  <2>2. \E x : charge' = [charge EXCEPT ![o] = x]
      BY <1>4 DEF PaymentStep, TakeOrderEvent, CreatePayment, CreateRaises, Compensate, AckOrderCreated, ChargeTo
  <2>3. UNCHANGED <<payments, payLog>> \/ InsertPayment(o)
            \/ (UNCHANGED payments /\ EmitPayment(o, "payment_failed", 0))
      BY <1>4 DEF PaymentStep, TakeOrderEvent, CreatePayment, CreateRaises, Compensate, AckOrderCreated
  <2> QED BY <1>1, <2>1, <2>2, <2>3 DEF InsertPayment, EmitPayment
<1>5. CASE ProductStep(o)
  <2>1. UNCHANGED <<status, handler, payments, charge, orderLog, payLog>>
      BY <1>5 DEF ProductStep, TakeOutcome, SettleItem, AckOutcome
  <2>2. UNCHANGED stockVars \/ \E op, i : Apply(op, o, i)
      BY <1>5 DEF ProductStep, TakeOutcome, SettleItem, AckOutcome
  <2>3. effects'[q] = effects[q]
      BY <2>2, ApplyOthersStay
  <2>4. \E x : settle' = [settle EXCEPT ![o] = x]
      BY <1>5 DEF ProductStep, TakeOutcome, SettleItem, AckOutcome, PassItem
  <2> QED BY <1>1, <2>1, <2>3, <2>4
<1> QED BY <1>2, <1>3, <1>4, <1>5 DEF PlainStep

LEMMA InitOnce == Init => OnceInv
<1> SUFFICES ASSUME Init, NEW o \in Orders PROVE Once(o)
    BY DEF OnceInv
<1> USE DEF Init, OrderInit, PaymentInit, ProductInit
<1>1. StatusMatches(o) /\ DecidedOnce(o)
    BY DEF StatusMatches, DecidedOnce
<1>2. ChargedOnce(o) /\ UpdatesPending(o)
    BY DEF ChargedOnce, UpdatesPending
<1>3. SettledOnce(o)
    BY ItemFacts DEF SettledOnce, Unsettled, Ops, ItemNumbers
<1> QED BY <1>1, <1>2, <1>3 DEF Once

\* The order is stored once.
LEMMA RequestOnce ==
    ASSUME NothingTwice, TInv, RInv, NEW o \in Orders, Once(o), RequestStep(o) \/ LoseRequest(o)
    PROVE  Once(o)'
<1> USE DEF orderVars, paymentVars, productVars, logVars
<1>1. CASE ValidateUser(o) \/ PriceItem(o) \/ CompensateRequest(o) \/ LoseRequest(o)
    BY <1>1, OnceFrame DEF ValidateUser, PriceItem, CompensateRequest, LoseRequest, StaysSame, stockVars
<1>2. CASE ReserveItem(o)
  <2> DEFINE i == request[o].item
  <2>1. /\ UNCHANGED <<status, orderLog, payLog, payments, charge, handler, settle>>
        /\ UNCHANGED stockVars \/ Apply("reserve", o, i)
        /\ i \in ItemNumbers(o)
      BY <1>2 DEF ReserveItem, TInv, RequestOK
  <2>2. CASE UNCHANGED stockVars
      BY <2>1, <2>2, OnceFrame DEF StaysSame, stockVars
  <2>3. CASE Apply("reserve", o, i)
    <3>1. \A j \in ItemNumbers(o) :
              /\ effects'[o][j].confirm = effects[o][j].confirm
              /\ effects'[o][j].release = effects[o][j].release
              /\ effects'[o][j].reserve >= effects[o][j].reserve
      <4>1. effects'[o][i].reserve = effects[o][i].reserve + 1
            /\ effects'[o][i].confirm = effects[o][i].confirm
            /\ effects'[o][i].release = effects[o][i].release
          BY <2>1, <2>3, ItemFacts, ApplyFacts DEF Ops
      <4>2. \A j \in ItemNumbers(o) : j # i => effects'[o][j] = effects[o][j]
          BY <2>1, <2>3, ApplyOthers DEF Ops
      <4>3. \A j \in ItemNumbers(o) : effects[o][j].reserve \in Nat
          BY CountsOK, NetIsInt
      <4> HIDE DEF i
      <4> QED BY <4>1, <4>2, <4>3
    <3>2. \A j \in ItemNumbers(o) :
              /\ effects[o][j].reserve \in Nat /\ effects[o][j].confirm \in Nat
              /\ effects[o][j].release \in Nat
        BY CountsOK, NetIsInt
    <3>3. \A j \in ItemNumbers(o) : effects'[o][j].reserve \in Nat
        BY <2>1, <2>3, ApplyOthers, NetIsInt DEF Ops
    <3>4. SettledOnce(o)'
      <4> SUFFICES ASSUME NEW j \in ItemNumbers(o)
                   PROVE  /\ effects'[o][j].confirm + effects'[o][j].release <= effects'[o][j].reserve
                          /\ Unsettled(o, j) => Unsettled(o, j)'
          BY <2>1 DEF Once, SettledOnce, ItemNumbers
      <4>1. effects[o][j].confirm + effects[o][j].release <= effects[o][j].reserve
          BY DEF Once, SettledOnce
      <4>2. Unsettled(o, j) => Unsettled(o, j)'
          BY <3>1 DEF Unsettled
      <4> QED BY <3>1, <3>2, <3>3, <4>1, <4>2
    <3> QED BY <2>1, <3>4 DEF Once, StatusMatches, DecidedOnce, ChargedOnce, UpdatesPending
  <2> QED BY <2>1, <2>2, <2>3
<1>3. CASE StoreOrder(o)
  <2>1. ~ Fault("uncertain")
      BY DEF Fault, NothingTwice
  <2>2. /\ UNCHANGED <<payLog, payments, charge, handler, settle, effects>>
        /\ request[o].stage = "storing"
        /\ \/ UNCHANGED <<status, orderLog>>
           \/ status' = [status EXCEPT ![o] = "pending"] /\ EmitOrder(o, "order_created")
      BY <1>3, <2>1 DEF StoreOrder, stockVars
  <2>3. CASE UNCHANGED <<status, orderLog>>
      BY <2>2, <2>3, OnceFrame DEF StaysSame
  <2>4. CASE status' = [status EXCEPT ![o] = "pending"] /\ EmitOrder(o, "order_created")
    <3>1. status[o] = "none"
        BY <2>2 DEF RInv, ReservedSoFar
    <3>2. orderLog[o] = <<>>
        BY <3>1 DEF Once, StatusMatches
    <3>3. status'[o] = "pending"
        BY <2>4 DEF TInv, StatusOK
    <3>4. orderLog'[o] = <<"order_created">>
        BY <2>4, <3>2 DEF EmitOrder, TInv, LogsOK
    <3>5. payLog[o] = <<>> /\ payments[o] = 0
        BY <3>1 DEF Once, DecidedOnce, Target
    <3>6. settle[o].pos \in Nat
        BY DEF TInv, SettleOK
    <3>7. settle[o].stage = "idle" /\ settle[o].pos = 0
        BY <3>2, <3>6 DEF Once, SettledOnce
    <3>8. StatusMatches(o)' /\ DecidedOnce(o)'
        BY <2>2, <3>3, <3>4, <3>5 DEF StatusMatches, DecidedOnce
    <3>9. ChargedOnce(o)' /\ UpdatesPending(o)'
        BY <2>2, <3>1, <3>3 DEF Once, ChargedOnce, UpdatesPending
    <3>10. SettledOnce(o)'
        BY <2>2, <3>4, <3>7 DEF Once, SettledOnce, Unsettled
    <3> QED BY <3>8, <3>9, <3>10 DEF Once
  <2> QED BY <2>2, <2>3, <2>4
<1> QED BY <1>1, <1>2, <1>3 DEF RequestStep

\* The only event of an order's payment, if there is one.
LEMMA OneEvent ==
    ASSUME TInv, NEW o \in Orders, Once(o), NEW i \in DOMAIN payLog[o]
    PROVE  i = 1 /\ Len(payLog[o]) = 1 /\ status[o] \in {"pending", Target(payLog[o][1].type)}
<1>1. payLog[o] \in Seq(PaymentEvents)
    BY DEF TInv, LogsOK
<1>2. payLog[o] # <<>>
    BY <1>1
<1>3. Len(payLog[o]) = 1 /\ status[o] \in {"pending", Target(payLog[o][1].type)}
    BY <1>2 DEF Once, DecidedOnce
<1> QED BY <1>1, <1>3

\* A log of one event and the next.
LEMMA TwoEvents == ASSUME NEW a, NEW b PROVE Append(<<a>>, b) = <<a, b>>
<1>1. Append(<<a>>, b) = [k \in 1 .. 2 |-> IF k = 1 THEN a ELSE b]
    OBVIOUS
<1>2. <<a, b>> = [k \in 1 .. 2 |-> IF k = 1 THEN a ELSE b]
    OBVIOUS
<1> QED BY <1>1, <1>2

\* The order is decided once.
LEMMA HandlerOnce ==
    ASSUME NothingTwice, TInv, NEW o \in Orders, NEW i \in 1 .. MaxPayEvents, Once(o),
           HandlerStep(o, i)
    PROVE  Once(o)'
<1> USE DEF orderVars, paymentVars, productVars, logVars
<1>1. handler \in [Orders -> [1 .. MaxPayEvents -> Handlers]]
    BY DEF TInv, HandlerOK, Handlers
<1>2. ASSUME UNCHANGED <<status, orderLog, payLog, payments, charge, settle, effects>>,
             \/ ~ (handler'[o][i].stage = "update")
             \/ status[o] = "pending",
             \A j \in 1 .. MaxPayEvents : j # i => handler'[o][j] = handler[o][j]
      PROVE  Once(o)'
  <2>1. UpdatesPending(o)'
      BY <1>2 DEF Once, UpdatesPending
  <2>2. StatusMatches(o)' /\ DecidedOnce(o)' /\ ChargedOnce(o)'
      BY <1>2 DEF Once, StatusMatches, DecidedOnce, ChargedOnce
  <2>3. SettledOnce(o)'
      BY <1>2 DEF Once, SettledOnce, Unsettled
  <2> QED BY <2>1, <2>2, <2>3 DEF Once
<1>3. ASSUME NEW stage \in {"done", "acked", "update"}, HandlerTo(o, i, stage)
      PROVE  /\ handler'[o][i].stage = stage
             /\ \A j \in 1 .. MaxPayEvents : j # i => handler'[o][j] = handler[o][j]
  <2> DEFINE h == [handler[o][i] EXCEPT !.stage = stage]
  <2>1. handler' = [handler EXCEPT ![o][i] = h]
      BY <1>3 DEF HandlerTo
  <2>2. h.stage = stage
      BY <1>1 DEF Handlers
  <2> HIDE DEF h
  <2>3. handler'[o] = [handler[o] EXCEPT ![i] = h]
      BY <1>1, <2>1
  <2> QED BY <1>1, <2>2, <2>3
<1>4. CASE ReadOrder(o, i)
  <2>1. status[o] # "none" /\ status[o] # Target(payLog[o][i].type) => status[o] = "pending"
      BY <1>4, OneEvent DEF ReadOrder
  <2>2. /\ UNCHANGED <<status, orderLog, payLog, payments, charge, settle, effects>>
        /\ HandlerTo(o, i, "done") \/ (HandlerTo(o, i, "update") /\ status[o] = "pending")
      BY <1>4, <2>1 DEF ReadOrder, stockVars
  <2> QED BY <1>2, <1>3, <2>2
<1>5. CASE AckPayment(o, i)
  <2>1. /\ UNCHANGED <<status, orderLog, payLog, payments, charge, settle, effects>>
        /\ HandlerTo(o, i, "acked")
      BY <1>5 DEF AckPayment, stockVars
  <2> QED BY <1>2, <1>3, <2>1
<1>6. CASE UpdateFails(o, i)
  <2>1. ~ Fault("uncertain")
      BY DEF Fault, NothingTwice
  <2>2. UNCHANGED <<status, orderLog, payLog, payments, charge, settle, effects>> /\ AfterFailure(o, i)
      BY <1>6, <2>1 DEF UpdateFails, stockVars
  <2>3. /\ handler'[o][i].stage # "update"
        /\ \A j \in 1 .. MaxPayEvents : j # i => handler'[o][j] = handler[o][j]
    <3> DEFINE h == IF payLog[o][i].type = "payment_success" /\ handler[o][i].tries < MaxRetries
                    THEN [stage |-> "queued", tries |-> handler[o][i].tries + 1]
                    ELSE [handler[o][i] EXCEPT !.stage = "done"]
    <3>1. handler' = [handler EXCEPT ![o][i] = h]
        BY <2>2 DEF AfterFailure
    <3>2. h.stage # "update"
        BY <1>1 DEF Handlers
    <3> HIDE DEF h
    <3>3. handler'[o] = [handler[o] EXCEPT ![i] = h]
        BY <1>1, <3>1
    <3> QED BY <1>1, <3>2, <3>3
  <2> QED BY <1>2, <2>2, <2>3
<1>7. CASE UpdateOrder(o, i)
  <2> DEFINE type == payLog[o][1].type
  <2>1. handler[o][i].stage = "update" /\ i \in DOMAIN payLog[o] /\ status[o] = "pending"
      BY <1>7 DEF UpdateOrder, TInv, HandlerOK, Once, UpdatesPending
  <2>2. i = 1 /\ Len(payLog[o]) = 1
      BY <2>1, OneEvent
  <2>3. /\ UNCHANGED <<payLog, payments, charge, settle, effects>>
        /\ status' = [status EXCEPT ![o] = Target(type)]
        /\ EmitOrder(o, Outcome(type)) /\ HandlerTo(o, i, "done")
      BY <1>7, <2>2 DEF UpdateOrder, stockVars
  <2>4. orderLog[o] = <<"order_created">>
      BY <2>1 DEF Once, StatusMatches
  <2>5. status'[o] = Target(type) /\ orderLog'[o] = <<"order_created", Outcome(type)>>
    <3>1. orderLog'[o] = Append(<<"order_created">>, Outcome(type))
        BY <2>3, <2>4 DEF EmitOrder, TInv, LogsOK
    <3>2. status'[o] = Target(type)
        BY <2>3 DEF TInv, StatusOK
    <3> HIDE DEF type
    <3> QED BY <3>1, <3>2, TwoEvents
  <2>6. StatusMatches(o)'
      BY <2>5 DEF StatusMatches, Target, Outcome
  <2>7. DecidedOnce(o)'
      BY <2>2, <2>3, <2>5 DEF Once, DecidedOnce
  <2>8. ChargedOnce(o)'
      BY <2>3, <2>5 DEF Once, ChargedOnce, Target
  <2>9. UpdatesPending(o)'
    <3> SUFFICES ASSUME NEW j \in 1 .. MaxPayEvents, handler'[o][j].stage = "update" PROVE FALSE
        BY DEF UpdatesPending
    <3>1. j # i /\ handler[o][j].stage = "update"
        BY <1>3, <2>3
    <3>2. j \in DOMAIN payLog[o]
        BY <3>1 DEF TInv, HandlerOK
    <3> QED BY <2>2, <3>1, <3>2, OneEvent
  <2>10. SettledOnce(o)'
    <3>1. Len(orderLog[o]) = 1 /\ Len(orderLog'[o]) = 2 /\ settle[o].pos \in Nat
        BY <2>4, <2>5 DEF TInv, SettleOK
    <3> QED BY <2>3, <3>1 DEF Once, SettledOnce, Unsettled
  <2> QED BY <2>6, <2>7, <2>8, <2>9, <2>10 DEF Once
<1> QED BY <1>4, <1>5, <1>6, <1>7 DEF HandlerStep

\* The payment service decides once.
LEMMA PaymentOnce ==
    ASSUME NothingTwice, TInv, NEW o \in Orders, Once(o), PaymentStep(o)
    PROVE  Once(o)'
<1> USE DEF orderVars, paymentVars, productVars, logVars, stockVars
<1>1. /\ charge \in [Orders -> Charges] /\ payments \in [Orders -> Nat]
      /\ payLog \in [Orders -> Seq(PaymentEvents)] /\ orderLog[o] \in Seq(OrderEvents)
    BY DEF TInv, ChargeOK, Charges, PaymentsOK, LogsOK
<1>2. UNCHANGED <<status, orderLog, handler, settle, effects>>
    BY DEF PaymentStep, TakeOrderEvent, CreatePayment, CreateRaises, Compensate, AckOrderCreated
<1>3. StatusMatches(o)' /\ UpdatesPending(o)' /\ SettledOnce(o)'
    BY <1>2 DEF Once, StatusMatches, UpdatesPending, SettledOnce, Unsettled
<1>4. ASSUME NEW c \in Charges, charge' = [charge EXCEPT ![o] = c],
             UNCHANGED <<payments, payLog>>,
             c.stage # "idle" => c.pos = 0 /\ status[o] # "none",
             c.stage \in {"creating", "compensating"} => payLog[o] = <<>>,
             c.stage = "idle" => c.pos # 0
      PROVE  Once(o)'
  <2>1. charge'[o] = c
      BY <1>1, <1>4
  <2>2. DecidedOnce(o)'
      BY <1>2, <1>4 DEF Once, DecidedOnce
  <2>3. ChargedOnce(o)'
      BY <1>2, <1>4, <2>1 DEF ChargedOnce
  <2> QED BY <1>3, <2>2, <2>3 DEF Once
<1>5. ASSUME NEW c \in Charges, charge' = [charge EXCEPT ![o] = c], c.stage = "done", c.pos = 0,
             status[o] # "none", payLog[o] = <<>>,
             NEW type \in {"payment_success", "payment_failed"}, NEW key \in Nat,
             EmitPayment(o, type, key),
             payments'[o] = IF type = "payment_success" THEN 1 ELSE 0
      PROVE  Once(o)'
  <2>1. charge'[o] = c
      BY <1>1, <1>5
  <2>2. payLog'[o] = <<[type |-> type, key |-> key]>>
      BY <1>1, <1>5 DEF EmitPayment
  <2>3. status[o] \in {"none", "pending"}
      BY <1>1, <1>5 DEF Once, DecidedOnce
  <2>4. DecidedOnce(o)'
      BY <1>2, <1>5, <2>2, <2>3 DEF DecidedOnce
  <2>5. ChargedOnce(o)'
      BY <1>2, <1>5, <2>1 DEF ChargedOnce
  <2> QED BY <1>3, <2>4, <2>5 DEF Once
<1>6. charge[o].stage \in {"creating", "compensating"} =>
          /\ charge[o].pos = 0 /\ status[o] # "none" /\ payLog[o] = <<>>
          /\ payments[o] = 0
    BY DEF Once, ChargedOnce, DecidedOnce
<1>7. CASE TakeOrderEvent(o)
  <2>1. /\ charge[o].stage = "idle" /\ charge[o].pos \in Nat
        /\ charge[o].pos < Len(orderLog[o])
        /\ UNCHANGED <<payments, payLog>>
      BY <1>1, <1>7 DEF TakeOrderEvent, Charges
  <2>2. CASE orderLog[o][charge[o].pos + 1] = "order_created"
    <3> DEFINE c == [pos |-> charge[o].pos, stage |-> "creating", tries |-> 0]
    <3>1. charge' = [charge EXCEPT ![o] = c]
        BY <1>1, <1>7, <2>2 DEF TakeOrderEvent, Charges
    <3>2. c \in Charges /\ c.stage = "creating" /\ c.pos = charge[o].pos
        BY <1>1 DEF Charges, ChargeStage, MaxAttempts
    <3>3. charge[o].pos = 0 /\ status[o] # "none"
        BY <2>1, <2>2 DEF Once, StatusMatches
    <3>4. payLog[o] = <<>>
        BY <2>1, <3>3 DEF Once, ChargedOnce
    <3> HIDE DEF c
    <3> QED BY <1>4, <2>1, <3>1, <3>2, <3>3, <3>4
  <2>3. CASE orderLog[o][charge[o].pos + 1] # "order_created"
    <3> DEFINE c == [pos |-> charge[o].pos + 1, stage |-> "idle", tries |-> charge[o].tries]
    <3>1. charge' = [charge EXCEPT ![o] = c]
        BY <1>1, <1>7, <2>3 DEF TakeOrderEvent, Charges
    <3>2. c \in Charges /\ c.stage = "idle" /\ c.pos # 0
        BY <1>1, <2>1 DEF Charges
    <3> HIDE DEF c
    <3> QED BY <1>4, <2>1, <3>1, <3>2
  <2> QED BY <2>2, <2>3
<1>8. CASE CreatePayment(o)
  <2> DEFINE c == [charge[o] EXCEPT !.stage = "done"]
  <2>1. charge[o].stage = "creating" /\ InsertPayment(o) /\ charge' = [charge EXCEPT ![o] = c]
      BY <1>1, <1>8 DEF CreatePayment, ChargeTo, Charges
  <2>2. c \in Charges /\ c.stage = "done" /\ c.pos = charge[o].pos
      BY <1>1 DEF Charges, ChargeStage
  <2>3. payments'[o] = 1 /\ EmitPayment(o, "payment_success", 1)
      BY <1>1, <1>6, <2>1 DEF InsertPayment
  <2> HIDE DEF c
  <2> QED BY <1>5, <1>6, <2>1, <2>2, <2>3
<1>9. CASE CreateRaises(o)
  <2> DEFINE c == [charge[o] EXCEPT !.tries = @ + 1,
                                    !.stage = IF charge[o].tries + 1 = MaxAttempts
                                              THEN "compensating" ELSE "creating"]
  <2>1. ~ Fault("uncertain")
      BY DEF Fault, NothingTwice
  <2>2. /\ charge[o].stage = "creating" /\ UNCHANGED <<payments, payLog>>
        /\ charge' = [charge EXCEPT ![o] = c]
      BY <1>1, <1>9, <2>1 DEF CreateRaises, Charges
  <2>3. c \in Charges /\ c.stage \in {"creating", "compensating"} /\ c.pos = charge[o].pos
    <3>1. charge[o].tries + 1 \in 0 .. MaxAttempts
        BY <2>2 DEF TInv, ChargeOK, MaxAttempts
    <3> QED BY <1>1, <3>1 DEF Charges, ChargeStage
  <2> HIDE DEF c
  <2> QED BY <1>4, <1>6, <2>2, <2>3
<1>10. CASE Compensate(o)
  <2> DEFINE c == [charge[o] EXCEPT !.stage = "done"]
  <2>1. /\ charge[o].stage = "compensating" /\ charge' = [charge EXCEPT ![o] = c]
        /\ UNCHANGED payments /\ (UNCHANGED payLog \/ EmitPayment(o, "payment_failed", 0))
      BY <1>1, <1>10 DEF Compensate, ChargeTo, Charges
  <2>2. c \in Charges /\ c.stage = "done" /\ c.pos = charge[o].pos
      BY <1>1 DEF Charges, ChargeStage
  <2> HIDE DEF c
  <2> QED BY <1>4, <1>5, <1>6, <2>1, <2>2
<1>11. CASE AckOrderCreated(o)
  <2> DEFINE c == [pos |-> charge[o].pos + 1, stage |-> "idle", tries |-> 0]
  <2>1. charge' = [charge EXCEPT ![o] = c] /\ UNCHANGED <<payments, payLog>>
      BY <1>1, <1>11 DEF AckOrderCreated
  <2>2. c \in Charges /\ c.stage = "idle" /\ c.pos # 0
      BY <1>1 DEF Charges, ChargeStage, MaxAttempts
  <2> HIDE DEF c
  <2> QED BY <1>4, <2>1, <2>2
<1> QED BY <1>7, <1>8, <1>9, <1>10, <1>11 DEF PaymentStep

\* Every item of an order is settled once.
LEMMA ProductOnce ==
    ASSUME NothingTwice, TInv, RInv, NEW o \in Orders, Once(o), ProductStep(o)
    PROVE  Once(o)'
<1> USE DEF orderVars, paymentVars, productVars, logVars
<1>1. settle \in [Orders -> Settles] /\ orderLog[o] \in Seq(OrderEvents)
    BY DEF TInv, SettleOK, Settles, LogsOK
<1>2. UNCHANGED <<status, handler, payments, charge, orderLog, payLog>>
    BY DEF ProductStep, TakeOutcome, SettleItem, AckOutcome
<1>3. StatusMatches(o)' /\ DecidedOnce(o)' /\ ChargedOnce(o)' /\ UpdatesPending(o)'
    BY <1>2 DEF Once, StatusMatches, DecidedOnce, ChargedOnce, UpdatesPending
<1>4. SettledOnce(o)
    BY DEF Once
<1>5. /\ settle[o] \in Settles /\ Len(orderLog[o]) \in 0 .. 2
      /\ Len(orderLog[o]) > 0 => status[o] # "none" /\ orderLog[o][1] = "order_created"
  <2>1. StatusMatches(o)
      BY DEF Once
  <2>2. CASE orderLog[o] = <<>>
      BY <1>1, <2>2
  <2>3. CASE orderLog[o] # <<>>
    <3>1. PICK s : orderLog[o] = s /\ s \in Seq(OrderEvents) /\ status[o] # "none"
                   /\ s \in {<<"order_created">>, <<"order_created", "order_success">>,
                              <<"order_created", "order_failed">>}
        BY <1>1, <2>1, <2>3 DEF StatusMatches
    <3>2. Len(s) \in 1 .. 2 /\ s[1] = "order_created"
        BY <3>1
    <3> QED BY <1>1, <3>1, <3>2
  <2> QED BY <2>2, <2>3
<1>6. CASE TakeOutcome(o)
  <2>1. /\ settle[o].stage = "idle" /\ settle[o].pos < Len(orderLog[o]) /\ settle[o].pos \in Nat
        /\ UNCHANGED effects
      BY <1>1, <1>6 DEF TakeOutcome, Settles, stockVars
  <2> DEFINE n == Len(orderLog[o])
             pos == settle[o].pos
  <2>0. n \in 0 .. 2 /\ pos \in Nat /\ pos < n
      BY <1>5, <2>1
  <2>2. settle[o].pos <= 1 /\ \A i \in ItemNumbers(o) : Unsettled(o, i)
    <3>1. pos <= 1
      <4> HIDE DEF pos, n
      <4> QED BY <2>0
    <3> QED BY <1>4, <2>1, <3>1 DEF SettledOnce
  <2>3. CASE orderLog[o][settle[o].pos + 1] = "order_created"
    <3> DEFINE s == [settle[o] EXCEPT !.pos = @ + 1]
    <3>1. settle' = [settle EXCEPT ![o] = s]
        BY <1>1, <1>6, <2>3 DEF TakeOutcome, Settles
    <3>2. s.pos = settle[o].pos + 1 /\ s.stage = "idle"
        BY <1>5, <2>1 DEF Settles
    <3> HIDE DEF s
    <3>3. settle'[o] = s
        BY <1>1, <3>1
    <3>4. SettledOnce(o)'
        BY <1>2, <1>4, <1>5, <2>1, <2>2, <3>2, <3>3 DEF SettledOnce, Unsettled
    <3> QED BY <1>3, <3>4 DEF Once
  <2>4. CASE orderLog[o][settle[o].pos + 1] # "order_created"
    <3> DEFINE s == [settle[o] EXCEPT !.stage = "working", !.item = 1]
    <3>1. settle' = [settle EXCEPT ![o] = s]
        BY <1>1, <1>6, <2>4 DEF TakeOutcome, Settles
    <3>2. s.pos = settle[o].pos /\ s.stage = "working" /\ s.item = 1
        BY <1>5 DEF Settles
    <3> HIDE DEF s
    <3>3. settle'[o] = s
        BY <1>1, <3>1
    <3>4. settle[o].pos = 1 /\ Len(orderLog[o]) = 2
      <4>1. settle[o].pos # 0
          BY <1>5, <2>1, <2>4
      <4>2. pos = 1 /\ n = 2
        <5>1. pos # 0
            BY <4>1
        <5> HIDE DEF pos, n
        <5> QED BY <2>0, <5>1
      <4> QED BY <4>2
    <3>5. SettledOnce(o)'
        BY <1>2, <1>4, <2>1, <2>2, <3>2, <3>3, <3>4 DEF SettledOnce, Unsettled
    <3> QED BY <1>3, <3>5 DEF Once
  <2> QED BY <2>3, <2>4
<1>7. CASE AckOutcome(o)
  <2> DEFINE s == [pos |-> settle[o].pos + 1, stage |-> "idle", item |-> 1]
  <2>1. settle' = [settle EXCEPT ![o] = s] /\ settle[o].stage = "done" /\ UNCHANGED effects
      BY <1>7 DEF AckOutcome, stockVars
  <2>2. settle[o].pos = 1 /\ Len(orderLog[o]) = 2
      BY <1>4, <2>1 DEF SettledOnce
  <2>3. s.pos = 2 /\ s.stage = "idle"
      BY <2>2
  <2> HIDE DEF s
  <2>4. settle'[o] = s
      BY <1>1, <2>1
  <2>5. SettledOnce(o)'
      BY <1>2, <1>4, <2>1, <2>2, <2>3, <2>4 DEF SettledOnce, Unsettled
  <2> QED BY <1>3, <2>5 DEF Once
<1>8. CASE SettleItem(o)
  <2> DEFINE k  == settle[o].item
             op == Settlement(orderLog[o][settle[o].pos + 1])
  <2>1. /\ settle[o].stage = "working" /\ k \in ItemNumbers(o)
        /\ op \in {"confirm", "release"}
        /\ Apply(op, o, k) \/ UNCHANGED stockVars
        /\ PassItem(o)
      BY <1>8 DEF SettleItem, TInv, SettleOK, Settlement
  <2>2. settle[o].pos = 1 /\ Len(orderLog[o]) = 2 /\ status[o] # "none"
      BY <1>4, <1>5, <2>1 DEF SettledOnce
  <2>3. \A i \in ItemNumbers(o) : effects[o][i].reserve = 1
      BY <2>2 DEF RInv, ReservedSoFar
  <2>4. /\ settle'[o].pos = 1 /\ settle'[o].stage \in {"working", "done"}
        /\ settle'[o].stage = "working" => settle'[o].item = k + 1
      BY <1>1, <2>1, <2>2 DEF PassItem, Settles
  <2>5. \A i \in ItemNumbers(o) : k <= i => Unsettled(o, i)
      BY <1>4, <2>1 DEF SettledOnce
  <2>6. \A i \in ItemNumbers(o) :
            /\ i # k => effects'[o][i] = effects[o][i]
            /\ effects'[o][i].confirm + effects'[o][i].release <= effects'[o][i].reserve
    <3>1. CASE UNCHANGED stockVars
        BY <1>4, <3>1 DEF SettledOnce, stockVars
    <3>2. CASE Apply(op, o, k)
      <4> HIDE DEF op
      <4>1. \A i \in ItemNumbers(o) : i # k => effects'[o][i] = effects[o][i]
          BY <2>1, <3>2, ApplyOthers DEF Ops
      <4>2. /\ effects'[o][k].confirm + effects'[o][k].release = 1
            /\ effects'[o][k].reserve = 1
        <5>1. effects[o][k].reserve = 1 /\ effects[o][k].confirm = 0 /\ effects[o][k].release = 0
            BY <2>1, <2>3, <2>5 DEF Unsettled, ItemNumbers
        <5>2. PICK p \in Products : p = Items[o][k].product
            BY <2>1, ItemFacts
        <5>3. CASE op = "confirm"
            BY <2>1, <3>2, <5>1, <5>3, ApplyFacts DEF Ops
        <5>4. CASE op = "release"
            BY <2>1, <3>2, <5>1, <5>4, ApplyFacts DEF Ops
        <5> QED BY <2>1, <5>3, <5>4
      <4> HIDE DEF k
      <4> QED BY <1>4, <4>1, <4>2 DEF SettledOnce
    <3> QED BY <2>1, <3>1, <3>2
  <2>7. ASSUME NEW i \in ItemNumbers(o), settle'[o].stage = "working", k + 1 <= i
        PROVE  Unsettled(o, i)'
    <3>1. k \in Nat /\ i \in Nat
        BY <1>5 DEF Settles, ItemNumbers
    <3>2. i # k /\ k <= i
        BY <2>7, <3>1
    <3> HIDE DEF k
    <3> QED BY <2>5, <2>6, <3>2 DEF Unsettled
  <2>8. SettledOnce(o)'
    <3> HIDE DEF k, op
    <3> QED BY <1>2, <2>2, <2>4, <2>6, <2>7 DEF SettledOnce, ItemNumbers
  <2> QED BY <1>3, <2>8 DEF Once
<1> QED BY <1>6, <1>7, <1>8 DEF ProductStep

LEMMA NextOnce ==
    ASSUME NothingTwice, TInv, RInv, OnceInv, [Next]_vars
    PROVE  OnceInv'
<1>1. CASE UNCHANGED vars
    BY <1>1, OnceFrame DEF OnceInv, StaysSame, vars, orderVars, paymentVars, productVars,
       stockVars, logVars
<1>2. ASSUME NEW o \in Orders, PlainStep(o) PROVE OnceInv'
  <2>1. Once(o)'
      BY <1>2, RequestOnce, HandlerOnce, PaymentOnce, ProductOnce DEF PlainStep, OnceInv
  <2>2. ASSUME NEW q \in Orders, q # o PROVE Once(q)'
      BY <1>2, <2>2, OthersStay, OnceFrame DEF OnceInv
  <2> QED BY <2>1, <2>2 DEF OnceInv
<1> QED BY <1>1, <1>2, PlainSteps

LEMMA OnceIsSound == ASSUME TInv, RInv, OnceInv PROVE SoundCounts
<1> SUFFICES ASSUME NEW o \in Orders, NEW i \in ItemNumbers(o)
             PROVE  /\ effects[o][i].confirm + effects[o][i].release <= effects[o][i].reserve
                    /\ status[o] = "pending" =>
                          /\ effects[o][i].reserve = 1
                          /\ effects[o][i].confirm = 0 /\ effects[o][i].release = 0
    BY DEF SoundCounts
<1>1. SettledOnce(o) /\ StatusMatches(o)
    BY DEF OnceInv, Once
<1>2. ASSUME status[o] = "pending"
      PROVE  Unsettled(o, i)
  <2>1. Len(orderLog[o]) = 1
      BY <1>1, <1>2 DEF StatusMatches
  <2>2. settle[o].stage = "idle" /\ settle[o].pos <= 1
      BY <1>1, <2>1 DEF SettledOnce
  <2> QED BY <1>1, <2>2 DEF SettledOnce
<1>3. status[o] = "pending" => effects[o][i].reserve = 1
    BY DEF RInv, ReservedSoFar
<1> QED BY <1>1, <1>2, <1>3 DEF SettledOnce, Unsettled

-----------------------------------------------------------------------------
(* Refinement of OrderPromise.  Its Taken counts what is sold as well, so the  *)
(* stock enters the account.                                                   *)

\* The items of all orders that are for p, and the units of each that are
\* reserved and not given back.
OrderLines(p) == {l \in Orders \X (1 .. Max({Len(Items[o]) : o \in Orders})) :
                      l[2] \in DOMAIN Items[l[1]] /\ Items[l[1]][l[2]].product = p}
UnitsTaken(counts, p) ==
    [l \in OrderLines(p) |-> Items[l[1]][l[2]].qty
                             * (counts[l[1]][l[2]].reserve - counts[l[1]][l[2]].release)]

\* What has left the stock of a product, or is reserved of it, is taken.
TakenIsAccounted ==
    \A p \in Products :
        InitialStock[p] - row[p].stock + row[p].reserved
            = Total(UnitsTaken(effects, p), OrderLines(p))

LEMMA OrderLinesFacts ==
    ASSUME NEW p
    PROVE  /\ IsFiniteSet(OrderLines(p))
           /\ \A o \in Orders : \A i \in ItemNumbers(o) :
                 Items[o][i].product = p => <<o, i>> \in OrderLines(p)
           /\ \A l \in OrderLines(p) : /\ l[1] \in Orders /\ l[2] \in ItemNumbers(l[1])
                                       /\ l = <<l[1], l[2]>> /\ Items[l[1]][l[2]].product = p
<1> DEFINE S == {Len(Items[o]) : o \in Orders}
           n == Max(S)
<1>1. CASE Orders = {}
  <2>1. OrderLines(p) = {}
      BY <1>1 DEF OrderLines
  <2> QED BY <1>1, <2>1, FS_EmptySet
<1>2. CASE Orders # {}
  <2>1. IsFiniteSet(S)
    <3> DEFINE f == [o \in Orders |-> Len(Items[o])]
    <3>1. f \in Surjection(Orders, S)
        BY DEF Surjection
    <3> HIDE DEF S, f
    <3> QED BY <3>1, OrdersAssumption, FS_Surjection
  <2>2. S \subseteq Nat /\ S # {}
      BY <1>2, ItemFacts
  <2>3. n \in Nat /\ \A o \in Orders : Len(Items[o]) <= n
    <3>1. n \in S /\ \A y \in S : y <= n
      <4>1. S \subseteq Int /\ n = Max(S)
          BY <2>2
      <4> HIDE DEF S, n
      <4> QED BY <2>1, <2>2, <4>1, LargestNumber
    <3> QED BY <2>2, <3>1
  <2>4. IsFiniteSet(Orders \X (1 .. n))
    <3> HIDE DEF n
    <3>1. IsFiniteSet(1 .. n)
        BY <2>3, FS_Interval
    <3> QED BY <3>1, OrdersAssumption, FS_Product
  <2>5. IsFiniteSet(OrderLines(p))
    <3>1. OrderLines(p) \subseteq Orders \X (1 .. n)
        BY DEF OrderLines
    <3> QED BY <2>4, <3>1, FS_Subset
  <2>6. \A o \in Orders : DOMAIN Items[o] = ItemNumbers(o)
      BY ItemsAssumption DEF ItemNumbers
  <2>7. ASSUME NEW o \in Orders, NEW i \in ItemNumbers(o), Items[o][i].product = p
        PROVE  <<o, i>> \in OrderLines(p)
    <3>1. i \in 1 .. n
      <4>1. i \in 1 .. Len(Items[o]) /\ Len(Items[o]) \in Nat /\ Len(Items[o]) <= n /\ n \in Nat
          BY <2>3, ItemFacts DEF ItemNumbers
      <4> HIDE DEF n
      <4> QED BY <4>1
    <3>2. <<o, i>> \in Orders \X (1 .. n)
        BY <3>1
    <3> QED BY <2>6, <2>7, <3>2 DEF OrderLines
  <2>8. \A l \in OrderLines(p) : /\ l[1] \in Orders /\ l[2] \in ItemNumbers(l[1])
                                 /\ l = <<l[1], l[2]>> /\ Items[l[1]][l[2]].product = p
    <3> SUFFICES ASSUME NEW l \in OrderLines(p)
                 PROVE  /\ l[1] \in Orders /\ l[2] \in ItemNumbers(l[1])
                        /\ l = <<l[1], l[2]>> /\ Items[l[1]][l[2]].product = p
        OBVIOUS
    <3>1. l \in Orders \X (1 .. n) /\ l[2] \in DOMAIN Items[l[1]] /\ Items[l[1]][l[2]].product = p
        BY DEF OrderLines
    <3> HIDE DEF n
    <3>2. l[1] \in Orders /\ l = <<l[1], l[2]>>
        BY <3>1
    <3> QED BY <2>6, <3>1, <3>2
  <2> QED BY <2>5, <2>7, <2>8
<1> QED BY <1>1, <1>2

\* What the promise calls taken is a Total too.
LEMMA TakenIsTotal ==
    ASSUME NEW p
    PROVE  Promise!Taken(p) = Total(UnitsTaken(effects, p), OrderLines(p))
<1> DEFINE S == OrderLines(p)
           U(l) == Items[l[1]][l[2]].qty * (effects[l[1]][l[2]].reserve - effects[l[1]][l[2]].release)
           Body(f) == [s \in SUBSET S |->
                    IF s = {} THEN 0
                    ELSE U(CHOOSE x \in s : TRUE) + f[s \ {CHOOSE x \in s : TRUE}]]
           sum == CHOOSE f : f = Body(f)
<1>1. Promise!Taken(p) = sum[S]
    BY DEF Promise!Taken, Promise!MapThenSumSet, Promise!MapThenFoldSet, OrderLines, Promise!Max, Max
<1>2. ASSUME NEW f
      PROVE  f = Body(f) <=> IsFold(f, UnitsTaken(effects, p), S)
  <2>1. \A s \in SUBSET S : s # {} => UnitsTaken(effects, p)[Any(s)] = U(CHOOSE x \in s : TRUE)
      BY AnyIn DEF UnitsTaken, Any
  <2>2. Body(f) = [s \in SUBSET S |-> IF s = {} THEN 0
                                      ELSE UnitsTaken(effects, p)[Any(s)] + f[s \ {Any(s)}]]
      BY <2>1 DEF Any
  <2> HIDE DEF S, Body
  <2> QED BY <2>2 DEF IsFold
<1>3. IsFold(sum, UnitsTaken(effects, p), S)
  <2>1. PICK f : IsFold(f, UnitsTaken(effects, p), S)
      BY OrderLinesFacts, FoldExists
  <2>2. f = Body(f)
      BY <1>2, <2>1
  <2>3. sum = Body(sum)
    <3> HIDE DEF Body
    <3> QED BY <2>2
  <2> HIDE DEF sum
  <2> QED BY <2>3, <1>2
<1> HIDE DEF sum
<1> QED BY <1>1, <1>3, OrderLinesFacts, TotalIsFold

LEMMA TakenIsInt ==
    ASSUME NEW e \in Counts, NEW p
    PROVE  Ints(UnitsTaken(e, p), OrderLines(p)) /\ Total(UnitsTaken(e, p), OrderLines(p)) \in Int
<1>1. ASSUME NEW l \in OrderLines(p) PROVE UnitsTaken(e, p)[l] \in Int
  <2>1. PICK o, i : o \in Orders /\ i \in ItemNumbers(o) /\ l[1] = o /\ l[2] = i
      BY OrderLinesFacts
  <2>2. e[o][i].reserve \in Nat /\ e[o][i].release \in Nat /\ Items[o][i].qty \in Int
      BY <2>1, NetIsInt, ItemFacts
  <2>3. UnitsTaken(e, p)[l] = Items[o][i].qty * (e[o][i].reserve - e[o][i].release)
      BY <2>1 DEF UnitsTaken
  <2> QED BY <2>2, <2>3
<1>2. Ints(UnitsTaken(e, p), OrderLines(p))
    BY <1>1 DEF Ints
<1> QED BY <1>2, OrderLinesFacts, TotalIsInt

LEMMA InitTaken == Init => TakenIsAccounted
<1> SUFFICES ASSUME Init, NEW p \in Products
             PROVE  InitialStock[p] - row[p].stock + row[p].reserved
                        = Total(UnitsTaken(effects, p), OrderLines(p))
    BY DEF TakenIsAccounted
<1>1. ASSUME NEW l \in OrderLines(p) PROVE UnitsTaken(effects, p)[l] = 0
  <2>1. PICK o, i : o \in Orders /\ i \in ItemNumbers(o) /\ l[1] = o /\ l[2] = i
      BY OrderLinesFacts
  <2>2. effects[o][i].reserve = 0 /\ effects[o][i].release = 0
      BY <2>1 DEF Init, Ops
  <2>3. UnitsTaken(effects, p)[l] = Items[o][i].qty * 0
      BY <2>1, <2>2 DEF UnitsTaken
  <2> QED BY <2>1, <2>3, ItemFacts
<1>2. Total(UnitsTaken(effects, p), OrderLines(p)) = 0
    BY <1>1, OrderLinesFacts, TotalZero
<1> QED BY <1>2, StockAssumption DEF Init

LEMMA NextTaken == TInv /\ TakenIsAccounted /\ [Next]_vars => TakenIsAccounted'
<1> SUFFICES ASSUME TInv, TakenIsAccounted, [Next]_vars, NEW p \in Products
             PROVE  InitialStock[p] - row'[p].stock + row'[p].reserved
                        = Total(UnitsTaken(effects', p), OrderLines(p))
    BY DEF TakenIsAccounted, UnitsTaken, OrderLines
<1>1. CASE UNCHANGED stockVars
    BY <1>1 DEF stockVars, TakenIsAccounted
<1>2. ASSUME NEW op \in Ops, NEW o \in Orders, NEW i \in ItemNumbers(o), Apply(op, o, i)
      PROVE  InitialStock[p] - row'[p].stock + row'[p].reserved
                 = Total(UnitsTaken(effects', p), OrderLines(p))
  <2> DEFINE before == Total(UnitsTaken(effects, p), OrderLines(p))
             after  == Total(UnitsTaken(effects', p), OrderLines(p))
             qty == Items[o][i].qty
             old == effects[o][i].reserve - effects[o][i].release
             new == effects'[o][i].reserve - effects'[o][i].release
             isP == Items[o][i].product = p
  <2>1. effects \in Counts /\ effects' \in Counts
      BY <1>2, ApplyOthers
  <2>2. before \in Int /\ Ints(UnitsTaken(effects, p), OrderLines(p))
        /\ Ints(UnitsTaken(effects', p), OrderLines(p))
      BY <2>1, TakenIsInt
  <2>3. InitialStock[p] - row[p].stock + row[p].reserved = before
      BY DEF TakenIsAccounted
  <2>4. ASSUME NEW l \in OrderLines(p), l # <<o, i>>
        PROVE  UnitsTaken(effects', p)[l] = UnitsTaken(effects, p)[l]
    <3>1. PICK q, j : q \in Orders /\ j \in ItemNumbers(q) /\ l[1] = q /\ l[2] = j /\ l = <<q, j>>
        BY OrderLinesFacts
    <3>2. effects'[q][j] = effects[q][j]
        BY <1>2, <2>4, <3>1, ApplyOthers
    <3> QED BY <3>1, <3>2 DEF UnitsTaken
  <2>5. /\ row[p].stock \in Int /\ row[p].reserved \in Int /\ InitialStock[p] \in Int /\ qty \in Int
        /\ old \in Int
    <3>1. row[p].stock \in Int /\ row[p].reserved \in Int
        BY DEF TInv, StockOK, Row
    <3>2. InitialStock[p] \in Int /\ qty \in Int
        BY ItemFacts, StockAssumption
    <3>3. effects[o][i].reserve \in Nat /\ effects[o][i].release \in Nat
        BY <2>1, NetIsInt
    <3> QED BY <3>1, <3>2, <3>3
  <2>6. /\ op = "reserve" => new = old + 1
        /\ op = "release" => new = old - 1
        /\ op = "confirm" => new = old
    <3>1. effects[o][i].reserve \in Nat /\ effects[o][i].release \in Nat
        BY <2>1, NetIsInt
    <3>2. CASE op = "reserve"
        BY <1>2, <3>1, <3>2, ApplyFacts
    <3>3. CASE op = "release"
        BY <1>2, <3>1, <3>3, ApplyFacts
    <3>4. CASE op = "confirm"
        BY <1>2, <3>1, <3>4, ApplyFacts
    <3> QED BY <3>2, <3>3, <3>4
  <2> SUFFICES InitialStock[p] - row'[p].stock + row'[p].reserved = after
      OBVIOUS
  <2>7. CASE isP
    <3>1. <<o, i>> \in OrderLines(p)
        BY <2>7, OrderLinesFacts
    <3>2. after = before + UnitsTaken(effects', p)[<<o, i>>] - UnitsTaken(effects, p)[<<o, i>>]
        BY <2>2, <2>4, <3>1, OrderLinesFacts, TotalUpdate
    <3>3. UnitsTaken(effects', p)[<<o, i>>] = qty * new /\ UnitsTaken(effects, p)[<<o, i>>] = qty * old
        BY <3>1 DEF UnitsTaken
    <3> DEFINE a == qty * old
               b == qty * new
    <3>4. after = before + b - a
        BY <3>2, <3>3
    <3>5. /\ op = "reserve" => row'[p].stock = row[p].stock /\ row'[p].reserved = row[p].reserved + qty
          /\ op = "release" => row'[p].stock = row[p].stock /\ row'[p].reserved = row[p].reserved - qty
          /\ op = "confirm" => row'[p].stock = row[p].stock - qty
                               /\ row'[p].reserved = row[p].reserved - qty
        BY <1>2, <2>7, ApplyFacts
    <3>6. a \in Int
        BY <2>5
    <3> HIDE DEF before, after, qty, old, new
    <3>7. CASE op = "reserve"
      <4>1. b = a + qty
          BY <2>5, <2>6, <3>7, Times
      <4> HIDE DEF a, b
      <4> QED BY <2>2, <2>3, <2>5, <3>4, <3>5, <3>6, <3>7, <4>1
    <3>8. CASE op = "release"
      <4>1. b = a - qty
          BY <2>5, <2>6, <3>8, Times
      <4> HIDE DEF a, b
      <4> QED BY <2>2, <2>3, <2>5, <3>4, <3>5, <3>6, <3>8, <4>1
    <3>9. CASE op = "confirm"
      <4>1. b = a
          BY <2>6, <3>9
      <4> HIDE DEF a, b
      <4> QED BY <2>2, <2>3, <2>5, <3>4, <3>5, <3>6, <3>9, <4>1
    <3> QED BY <3>7, <3>8, <3>9 DEF Ops
  <2>8. CASE ~ isP
    <3>1. \A l \in OrderLines(p) : l # <<o, i>>
        BY <2>8, OrderLinesFacts
    <3>2. after = before
        BY <2>4, <3>1, OrderLinesFacts, TotalAgree
    <3>3. row'[p] = row[p]
        BY <1>2, <2>8, ItemFacts DEF Apply, TInv, StockOK
    <3>4. InitialStock[p] - row'[p].stock + row'[p].reserved = before
        BY <2>3, <3>3
    <3> HIDE DEF before, after
    <3> QED BY <3>2, <3>4
  <2> QED BY <2>7, <2>8
<1> QED BY <1>1, <1>2, RowSteps

\* Everything that holds while nothing happens twice.
PromiseInv == TInv /\ RInv /\ OnceInv /\ ReservedIsHeld /\ TakenIsAccounted

LEMMA InvariantPromise == ASSUME NothingTwice PROVE Spec => []PromiseInv
<1>1. Init => PromiseInv
    BY InitTInv, InitRInv, InitOnce, InitReservedIsHeld, InitTaken DEF PromiseInv
<1>2. PromiseInv /\ [Next]_vars => PromiseInv'
    BY NextTInv, NextRInv, NextOnce, NextReservedIsHeld, NextTaken DEF PromiseInv
<1> QED BY <1>1, <1>2, PTL DEF Spec

LEMMA RefinesInit == Init => Promise!Init
  BY ItemsAssumption DEF Init, OrderInit, PaymentInit, Promise!Init, Promise!Untouched, Promise!Ops,
     Ops, ItemNumbers

LEMMA RequestRefines ==
    ASSUME NothingTwice, PromiseInv, NEW o \in Orders, RequestStep(o) \/ LoseRequest(o)
    PROVE  \/ UNCHANGED Promise!vars
           \/ Promise!Place(o)
           \/ \E i \in DOMAIN Items[o] : Promise!Reserve(o, i)
<1> USE DEF orderVars, paymentVars, productVars, logVars, stockVars, Promise!vars
<1>1. CASE ValidateUser(o) \/ PriceItem(o) \/ CompensateRequest(o) \/ LoseRequest(o)
    BY <1>1 DEF ValidateUser, PriceItem, CompensateRequest, LoseRequest
<1>2. CASE ReserveItem(o)
  <2> DEFINE i == request[o].item
             p == Items[o][i].product
             qty == Items[o][i].qty
  <2>1. /\ UNCHANGED <<status, payments>> /\ request[o].stage = "reserving"
        /\ UNCHANGED effects \/ Apply("reserve", o, i)
        /\ i \in ItemNumbers(o)
      BY <1>2 DEF ReserveItem, PromiseInv, TInv, RequestOK
  <2>2. CASE UNCHANGED effects
      BY <2>1, <2>2
  <2>3. CASE Apply("reserve", o, i)
    <3>1. status[o] = "none" /\ effects[o][i].reserve = 0
        BY <2>1 DEF PromiseInv, RInv, ReservedSoFar, ItemNumbers
    <3>2. effects[o][i].confirm = 0 /\ effects[o][i].release = 0
      <4>1. effects[o][i].confirm + effects[o][i].release <= effects[o][i].reserve
          BY <2>1 DEF PromiseInv, OnceInv, Once, SettledOnce
      <4>2. effects[o][i].confirm \in Nat /\ effects[o][i].release \in Nat
          BY <2>1, CountsOK, NetIsInt DEF PromiseInv
      <4> QED BY <3>1, <4>1, <4>2
    <3>3. effects[o][i] = Promise!Untouched
      <4>1. effects[o][i] \in [Ops -> Nat]
          BY <2>1 DEF PromiseInv, TInv, StockOK
      <4> HIDE DEF i
      <4>2. \A op \in Ops : effects[o][i][op] = 0
          BY <3>1, <3>2 DEF Ops
      <4> QED BY <4>1, <4>2 DEF Promise!Untouched, Promise!Ops, Ops
    <3>4. p \in Products /\ qty \in Int
        BY <2>1, ItemFacts
    <3>5. Promise!Taken(p) + qty <= InitialStock[p]
      <4>1. Promise!Taken(p) = InitialStock[p] - row[p].stock + row[p].reserved
          BY <3>4, TakenIsTotal DEF PromiseInv, TakenIsAccounted
      <4>2. row[p].stock - row[p].reserved >= qty
          BY <2>3 DEF Apply, Permitted, Available
      <4>3. row[p].stock \in Int /\ row[p].reserved \in Int /\ InitialStock[p] \in Int
          BY <3>4, StockAssumption DEF PromiseInv, TInv, StockOK, Row
      <4> HIDE DEF p, qty
      <4> QED BY <3>4, <4>1, <4>2, <4>3
    <3>6. Promise!Effected(o, i, "reserve")
        BY <2>3 DEF Apply, Promise!Effected
    <3>7. Promise!Reserve(o, i)
        BY <2>1, <3>1, <3>3, <3>5, <3>6 DEF Promise!Reserve
    <3>8. i \in DOMAIN Items[o]
        BY <2>1, ItemsAssumption DEF ItemNumbers
    <3> HIDE DEF i
    <3> QED BY <3>7, <3>8
  <2> QED BY <2>1, <2>2, <2>3
<1>3. CASE StoreOrder(o)
  <2>1. /\ UNCHANGED <<payments, effects>> /\ request[o].stage = "storing"
        /\ UNCHANGED status \/ status' = [status EXCEPT ![o] = "pending"]
      BY <1>3 DEF StoreOrder
  <2>2. status[o] = "none" /\ \A i \in ItemNumbers(o) : effects[o][i].reserve = 1
      BY <2>1 DEF PromiseInv, RInv, ReservedSoFar
  <2>3. \A i \in DOMAIN Items[o] : effects[o][i].reserve = 1
      BY <2>2, ItemsAssumption DEF ItemNumbers
  <2> QED BY <2>1, <2>2, <2>3 DEF Promise!Place
<1> QED BY <1>1, <1>2, <1>3 DEF RequestStep

LEMMA HandlerRefines ==
    ASSUME NothingTwice, PromiseInv, NEW o \in Orders, NEW i \in 1 .. MaxPayEvents,
           HandlerStep(o, i)
    PROVE  UNCHANGED Promise!vars \/ Promise!Complete(o) \/ Promise!Cancel(o)
<1> USE DEF orderVars, paymentVars, productVars, logVars, stockVars, Promise!vars
<1>1. CASE ReadOrder(o, i) \/ AckPayment(o, i)
    BY <1>1 DEF ReadOrder, AckPayment
<1>2. CASE UpdateFails(o, i)
    BY <1>2 DEF UpdateFails, Fault, NothingTwice
<1>3. CASE UpdateOrder(o, i)
  <2>1. /\ status[o] = "pending" /\ i \in DOMAIN payLog[o]
      BY <1>3 DEF UpdateOrder, PromiseInv, TInv, HandlerOK, OnceInv, Once, UpdatesPending
  <2>2. i = 1 /\ payLog[o] # <<>>
    <3>1. i = 1 /\ Len(payLog[o]) = 1
        BY <2>1, OneEvent DEF PromiseInv, OnceInv
    <3> QED BY <3>1
  <2>3. payments[o] = IF payLog[o][1].type = "payment_success" THEN 1 ELSE 0
      BY <2>2 DEF PromiseInv, OnceInv, Once, DecidedOnce
  <2>4. /\ status' = [status EXCEPT ![o] = Target(payLog[o][1].type)]
        /\ UNCHANGED <<payments, effects>>
      BY <1>3, <2>2 DEF UpdateOrder
  <2>5. CASE payLog[o][1].type = "payment_success"
      BY <2>1, <2>3, <2>4, <2>5 DEF Target, Promise!Complete
  <2>6. CASE payLog[o][1].type # "payment_success"
      BY <2>1, <2>3, <2>4, <2>6 DEF Target, Promise!Cancel
  <2> QED BY <2>5, <2>6
<1> QED BY <1>1, <1>2, <1>3 DEF HandlerStep

LEMMA PaymentRefines ==
    ASSUME NothingTwice, PromiseInv, NEW o \in Orders, PaymentStep(o)
    PROVE  UNCHANGED Promise!vars \/ Promise!Pay(o)
<1> USE DEF orderVars, paymentVars, productVars, logVars, stockVars, Promise!vars
<1>1. CASE TakeOrderEvent(o) \/ Compensate(o) \/ AckOrderCreated(o)
    BY <1>1 DEF TakeOrderEvent, Compensate, AckOrderCreated
<1>2. CASE CreateRaises(o)
    BY <1>2 DEF CreateRaises, Fault, NothingTwice
<1>3. CASE CreatePayment(o)
  <2>1. /\ charge[o].stage = "creating" /\ payments' = [payments EXCEPT ![o] = @ + 1]
        /\ UNCHANGED <<status, effects>>
      BY <1>3 DEF CreatePayment, InsertPayment
  <2>2. payLog[o] = <<>> /\ status[o] # "none"
      BY <2>1 DEF PromiseInv, OnceInv, Once, ChargedOnce
  <2>3. payments[o] = 0 /\ status[o] = "pending"
      BY <2>2 DEF PromiseInv, OnceInv, Once, DecidedOnce
  <2>4. payments' = [payments EXCEPT ![o] = 1]
      BY <2>1, <2>3
  <2> QED BY <2>1, <2>3, <2>4 DEF Promise!Pay
<1> QED BY <1>1, <1>2, <1>3 DEF PaymentStep

LEMMA ProductRefines ==
    ASSUME NothingTwice, PromiseInv, NEW o \in Orders, ProductStep(o)
    PROVE  UNCHANGED Promise!vars \/ \E i \in DOMAIN Items[o] : Promise!Settle(o, i)
<1> USE DEF orderVars, paymentVars, productVars, logVars, stockVars, Promise!vars
<1>1. CASE TakeOutcome(o) \/ AckOutcome(o)
    BY <1>1 DEF TakeOutcome, AckOutcome
<1>2. CASE SettleItem(o)
  <2> DEFINE i == settle[o].item
             event == orderLog[o][settle[o].pos + 1]
  <2>1. /\ settle[o].stage = "working" /\ i \in ItemNumbers(o)
        /\ UNCHANGED effects \/ Apply(Settlement(event), o, i)
        /\ UNCHANGED <<status, payments>>
      BY <1>2 DEF SettleItem, PromiseInv, TInv, SettleOK
  <2>2. CASE UNCHANGED effects
      BY <2>1, <2>2
  <2>3. CASE Apply(Settlement(event), o, i)
    <3>1. settle[o].pos = 1 /\ Len(orderLog[o]) = 2
        BY <2>1 DEF PromiseInv, OnceInv, Once, SettledOnce
    <3>2. \/ status[o] = "completed" /\ event = "order_success"
          \/ status[o] = "cancelled" /\ event = "order_failed"
        BY <3>1 DEF PromiseInv, OnceInv, Once, StatusMatches
    <3>3. Unsettled(o, i)
        BY <2>1 DEF PromiseInv, OnceInv, Once, SettledOnce, ItemNumbers
    <3>4. effects[o][i].reserve = 1
        BY <2>1, <3>2 DEF PromiseInv, RInv, ReservedSoFar
    <3>5. effects[o][i] = [Promise!Untouched EXCEPT !.reserve = 1]
      <4>1. effects[o][i] \in [Ops -> Nat]
          BY <2>1 DEF PromiseInv, TInv, StockOK
      <4>2. effects[o][i].confirm = 0 /\ effects[o][i].release = 0
          BY <3>3 DEF Unsettled
      <4> HIDE DEF i
      <4>3. effects[o][i] = [op \in Ops |-> IF op = "reserve" THEN 1 ELSE 0]
          BY <3>4, <4>1, <4>2 DEF Ops
      <4> QED BY <4>3 DEF Promise!Untouched, Promise!Ops, Ops
    <3>6. effects' = [effects EXCEPT ![o][i][Settlement(event)] = @ + 1]
        BY <2>3 DEF Apply
    <3>7. i \in DOMAIN Items[o]
        BY <2>1, ItemsAssumption DEF ItemNumbers
    <3>8. \/ status[o] = "completed" /\ Promise!Effected(o, i, "confirm")
          \/ status[o] = "cancelled" /\ Promise!Effected(o, i, "release")
        BY <3>2, <3>6 DEF Settlement, Promise!Effected
    <3>9. Promise!Settle(o, i)
        BY <2>1, <3>5, <3>8 DEF Promise!Settle
    <3> HIDE DEF i
    <3> QED BY <3>7, <3>9
  <2> QED BY <2>1, <2>2, <2>3
<1> QED BY <1>1, <1>2 DEF ProductStep

LEMMA RefinesNext ==
    ASSUME NothingTwice, PromiseInv, [Next]_vars
    PROVE  [Promise!Next]_(Promise!vars)
<1>1. CASE UNCHANGED vars
    BY <1>1 DEF vars, orderVars, paymentVars, stockVars, Promise!vars
<1>2. ASSUME NEW o \in Orders, PlainStep(o) PROVE [Promise!Next]_(Promise!vars)
  <2>1. CASE RequestStep(o) \/ LoseRequest(o)
      BY <2>1, RequestRefines DEF Promise!Next
  <2>2. CASE PaymentStep(o)
      BY <2>2, PaymentRefines DEF Promise!Next
  <2>3. CASE ProductStep(o)
      BY <2>3, ProductRefines DEF Promise!Next
  <2>4. ASSUME NEW i \in 1 .. MaxPayEvents, HandlerStep(o, i) PROVE [Promise!Next]_(Promise!vars)
      BY <2>4, HandlerRefines DEF Promise!Next
  <2> QED BY <1>2, <2>1, <2>2, <2>3, <2>4 DEF PlainStep
<1> QED BY <1>1, <1>2, PlainSteps DEF PromiseInv

-----------------------------------------------------------------------------
(* Corollaries: what the disagreements with the documentation depend on. *)

LEMMA UnitsAreNat ==
    ASSUME NoRefunds, NEW o \in Orders, NEW p
    PROVE  Units(o, p) \in Int /\ Units(o, p) >= 0
<1>1. \A i \in LinesOf(o, p) : Wanted(o)[i] \in Int /\ 0 <= Wanted(o)[i]
    BY ItemFacts DEF Wanted, LinesOf, NoRefunds
<1>2. Ints(Wanted(o), LinesOf(o, p)) /\ IsFiniteSet(LinesOf(o, p))
    BY <1>1, LinesAreFinite DEF Ints
<1>3. Total(Wanted(o), {}) <= Total(Wanted(o), LinesOf(o, p))
    BY <1>1, <1>2, TotalGrows
<1>4. Total(Wanted(o), {}) = 0
    BY FS_EmptySet, TotalStep
<1> QED BY <1>2, <1>3, <1>4, UnitsAreTotal, TotalIsInt

\* Whatever happens, a row is never oversold when no quantity is negative.
RowsAreSound == \A p \in Products : Sound(row[p])

LEMMA InitRowsAreSound == Init => RowsAreSound
  BY StockAssumption DEF Init, RowsAreSound, Sound

LEMMA NextRowsAreSound ==
    ASSUME NoRefunds, TInv, RowsAreSound, [Next]_vars
    PROVE  RowsAreSound'
<1> SUFFICES ASSUME NEW p \in Products PROVE Sound(row[p])'
    BY DEF RowsAreSound
<1>1. CASE UNCHANGED stockVars
    BY <1>1 DEF stockVars, RowsAreSound, Sound
<1>2. ASSUME NEW op \in Ops, NEW o \in Orders, NEW i \in ItemNumbers(o), Apply(op, o, i)
      PROVE  Sound(row[p])'
  <2> DEFINE r   == Items[o][i].product
             qty == Items[o][i].qty
  <2>1. r \in Products /\ qty \in Int /\ qty >= 0
      BY ItemFacts DEF NoRefunds
  <2>2. row \in [Products -> Row] /\ 0 <= row[p].reserved /\ row[p].reserved <= row[p].stock
      BY DEF TInv, StockOK, RowsAreSound, Sound
  <2>3. row[p].stock \in Int /\ row[p].reserved \in Int
      BY <2>2 DEF Row
  <2>4. CASE r # p
    <3>1. row'[p] = row[p]
        BY <1>2, <2>1, <2>2, <2>4 DEF Apply
    <3> QED BY <2>2, <3>1 DEF Sound
  <2>5. CASE r = p
    <3> DEFINE s  == row[p].stock
               v  == row[p].reserved
               s1 == row'[p].stock
               v1 == row'[p].reserved
    <3>1. /\ s \in Int /\ v \in Int /\ qty \in Int /\ qty >= 0 /\ 0 <= v /\ v <= s
        BY <2>1, <2>2, <2>3
    <3>2. \/ op = "reserve" /\ s - v >= qty /\ s1 = s /\ v1 = v + qty
          \/ op = "release" /\ v >= qty /\ s1 = s /\ v1 = v - qty
          \/ op = "confirm" /\ v >= qty /\ s1 = s - qty /\ v1 = v - qty
      <4>1. Permitted(op, row[p], qty)
          BY <1>2, <2>5 DEF Apply
      <4>2. CASE op = "reserve"
          BY <1>2, <2>5, <4>1, <4>2, ApplyFacts DEF Permitted, Available
      <4>3. CASE op = "release"
        <5>1. row[p].reserved >= qty
            BY <4>1, <4>3 DEF Permitted
        <5>2. s1 = s /\ v1 = v - qty
            BY <1>2, <2>5, <4>3, ApplyFacts
        <5> QED BY <4>3, <5>1, <5>2
      <4>4. CASE op = "confirm"
          BY <1>2, <2>5, <4>1, <4>4, ApplyFacts DEF Permitted
      <4> QED BY <4>2, <4>3, <4>4 DEF Ops
    <3>3. 0 <= v1 /\ v1 <= s1
      <4> HIDE DEF s, v, s1, v1, qty
      <4> QED BY <3>1, <3>2
    <3> QED BY <3>3 DEF Sound
  <2> QED BY <2>4, <2>5
<1> QED BY <1>1, <1>2, RowSteps

\* What the pending orders want, as PendingUnitsAreInStock counts it.
LEMMA WantedIsTotal ==
    ASSUME NoRefunds, NEW p \in Products
    PROVE  (LET wanted(o) == IF Units(o, p) > 0 THEN Units(o, p) ELSE 0
            IN  MapThenSumSet(wanted, {o \in Orders : status[o] = "pending"})) = PendingUnits(p)
<1> DEFINE S == Pending
           W(o) == IF Units(o, p) > 0 THEN Units(o, p) ELSE 0
           Body(f) == [s \in SUBSET S |->
                    IF s = {} THEN 0
                    ELSE W(CHOOSE x \in s : TRUE) + f[s \ {CHOOSE x \in s : TRUE}]]
           sum == CHOOSE f : f = Body(f)
<1>1. (LET wanted(o) == IF Units(o, p) > 0 THEN Units(o, p) ELSE 0
       IN  MapThenSumSet(wanted, {o \in Orders : status[o] = "pending"})) = sum[S]
    BY DEF MapThenSumSet, MapThenFoldSet, Pending
<1>2. ASSUME NEW o \in Orders PROVE W(o) = Units(o, p)
  <2>1. Units(o, p) \in Int /\ Units(o, p) >= 0
      BY UnitsAreNat
  <2> QED BY <2>1
<1>3. ASSUME NEW f
      PROVE  f = Body(f) <=> IsFold(f, WantedOf(p), S)
  <2>1. ASSUME NEW s \in SUBSET S, s # {}
        PROVE  WantedOf(p)[Any(s)] = W(CHOOSE x \in s : TRUE)
    <3>1. Any(s) \in Orders
        BY <2>1, AnyIn DEF Pending
    <3>2. WantedOf(p)[Any(s)] = W(Any(s))
      <4> HIDE DEF W
      <4> QED BY <1>2, <3>1 DEF WantedOf
    <3> QED BY <3>2 DEF Any
  <2> HIDE DEF W
  <2>2. Body(f) = [s \in SUBSET S |-> IF s = {} THEN 0 ELSE WantedOf(p)[Any(s)] + f[s \ {Any(s)}]]
      BY <2>1 DEF Any
  <2> HIDE DEF S, Body
  <2> QED BY <2>2 DEF IsFold
<1>4. IsFiniteSet(S)
    BY OrdersAssumption, FS_Subset DEF Pending
<1>5. IsFold(sum, WantedOf(p), S)
  <2>1. PICK f : IsFold(f, WantedOf(p), S)
      BY <1>4, FoldExists
  <2>2. f = Body(f)
      BY <1>3, <2>1
  <2>3. sum = Body(sum)
    <3> HIDE DEF Body
    <3> QED BY <2>2
  <2> HIDE DEF sum
  <2> QED BY <2>3, <1>3
<1>6. sum[S] = Total(WantedOf(p), S)
  <2> HIDE DEF sum, S
  <2> QED BY <1>4, <1>5, TotalIsFold
<1> QED BY <1>1, <1>6 DEF PendingUnits

LEMMA OnceIsOneOutcome == ASSUME CInv, OnceInv PROVE NoMixedOutcome
<1> SUFFICES ASSUME NEW o \in Orders, NEW i \in ItemNumbers(o), NEW j \in ItemNumbers(o),
                    effects[o][i].confirm > 0, effects[o][j].release > 0
             PROVE  FALSE
    BY DEF NoMixedOutcome
<1>1. payments[o] > 0 /\ "payment_failed" \in Types(payLog[o])
    BY DEF CInv, SettlementHasCause
<1>2. PICK k \in DOMAIN payLog[o] : payLog[o][k].type = "payment_failed"
    BY <1>1 DEF Types
<1>3. DecidedOnce(o)
    BY DEF OnceInv, Once
<1>4. CASE payLog[o] = <<>>
    BY <1>2, <1>4
<1>5. CASE Len(payLog[o]) = 1 /\ payments[o] = IF payLog[o][1].type = "payment_success" THEN 1 ELSE 0
    BY <1>1, <1>2, <1>5
<1> QED BY <1>3, <1>4, <1>5 DEF DecidedOnce

\* A status that changes was not decided, and becomes CANCELLED from PENDING.
Undecided ==
    [\A o \in Orders : status'[o] # status[o] =>
        /\ status[o] \in {"none", "pending"}
        /\ status'[o] = "cancelled" => status[o] = "pending"]_status

LEMMA UndecidedWhenOnce ==
    ASSUME NothingTwice, PromiseInv, [Next]_vars
    PROVE  Undecided
<1>1. [Promise!Next]_(Promise!vars)
    BY RefinesNext
<1>2. status \in [Orders -> OrderStatus \cup {"none"}]
    BY DEF PromiseInv, TInv, StatusOK
<1>3. \/ UNCHANGED status
      \/ \E o \in Orders :
            \/ status[o] = "none" /\ status' = [status EXCEPT ![o] = "pending"]
            \/ /\ status[o] = "pending"
               /\ \/ status' = [status EXCEPT ![o] = "completed"]
                  \/ status' = [status EXCEPT ![o] = "cancelled"]
    BY <1>1 DEF Promise!Next, Promise!vars, Promise!Place, Promise!Pay, Promise!Complete,
                Promise!Cancel, Promise!Reserve, Promise!Settle
<1> QED BY <1>2, <1>3 DEF Undecided

LEMMA UndecidedWhenFew ==
    ASSUME MaxEdits = 0, TInv, RInv, CInv, AInv, OneDecision, SagaStatus, [Next]_vars
    PROVE  Undecided
<1>1. edits' = 0
    BY NextTInv DEF TInv, BoundsOK
<1> QED BY <1>1, DecidedAlike DEF Undecided

\* The faults under which a decision stands.
DecisionsStand == (NoGivingUp /\ MaxEdits = 0) \/ NothingTwice

LEMMA InvariantUndecided == ASSUME DecisionsStand PROVE Spec => [][Undecided]_vars
<1>1. CASE NothingTwice
  <2>1. PromiseInv /\ [Next]_vars => Undecided
      BY <1>1, UndecidedWhenOnce
  <2>2. Spec => []PromiseInv
      BY <1>1, InvariantPromise
  <2> QED BY <2>1, <2>2, PTL DEF Spec
<1>2. CASE NoGivingUp /\ MaxEdits = 0
  <2>1. TInv /\ TriesCost /\ OneDecision /\ [Next]_vars => OneDecision'
      BY <1>2, NextOneDecision
  <2>2. TInv /\ RInv /\ CInv /\ AInv /\ OneDecision /\ SagaStatus /\ [Next]_vars => Undecided
      BY <1>2, UndecidedWhenFew
  <2> QED
      BY <2>1, <2>2, InitTInv, NextTInv, InitRInv, NextRInv, InitCInv, NextCInv, InitAInv, NextAInv,
         InitTriesCost, NextTriesCost, InitOneDecision, InitSagaStatus, NextSagaStatus, PTL DEF Spec
<1> QED BY <1>1, <1>2 DEF DecisionsStand

-----------------------------------------------------------------------------
\* For any orders and faults, every service's state is well typed; in particular
\* work is always on an item, an attempt and an event that exist
\* (order_manager.py:56-481, payment_manager.py:80-252, product_manager.py:195-312).
THEOREM SagaTypeCorrect == Spec => []SagaTypeOK
<1>1. TInv => SagaTypeOK
    BY DEF TInv, SagaTypeOK, OrderTypeOK, PaymentTypeOK, ProductTypeOK, RequestOK, StatusOK,
           HandlerOK, PaymentsOK, ChargeOK, SettleOK, StockOK, LogsOK, BoundsOK, OrderEvents,
           PaymentEvents
<1> QED BY <1>1, InvariantTInv, PTL

\* For any items, stock and faults, an order is stored only after each of its
\* items was reserved, once (order_manager.py:124-219).
THEOREM StoredIsReserved == Spec => []OnlyReservedOrdersAreStored
<1>1. RInv => OnlyReservedOrdersAreStored
    BY DEF RInv, ReservedSoFar, OnlyReservedOrdersAreStored
<1> QED BY <1>1, InvariantRInv, PTL

\* Whatever is lost, repeated, retried or paid by hand, goods are sold only for
\* an order with a payment, and freed only for one whose payment was given up
\* (payment_manager.py:206-232, order_manager.py:311-460, product_manager.py:195-312).
THEOREM SettledForCause == Spec => []SettlementHasCause
<1>1. CInv => SettlementHasCause
    BY DEF CInv
<1> QED BY <1>1, InvariantCInv, PTL

\* Whatever faults occur, a status nobody set by hand is one the order's events
\* have announced: each change of it is committed with its outbox row
\* (order_manager.py:166-219, 328-353, 437-460).
THEOREM AnnouncedUnlessEdited == Spec => [](edits = 0 => StatusIsAnnounced)
<1>1. AInv => (edits = 0 => StatusIsAnnounced)
    BY DEF AInv
<1> QED BY <1>1, InitTInv, NextTInv, InitAInv, NextAInv, PTL DEF Spec

\* An order is not sold in part and freed in part, as long as nobody pays for it
\* by hand and one of these holds: no transaction of the services fails, whatever
\* else is lost, repeated or dies; or fewer faults happen, of any kind, than
\* create_payment has attempts; or nothing happens twice.  With three commits
\* taken for failures it may be, see MCCompletedCancelled
\* (payment_manager.py:103-160, order_manager.py:311-460, product_manager.py:195-312).
THEOREM SoldOrFreed ==
    ASSUME NoGivingUp \/ NothingTwice
    PROVE  Spec => [](edits = 0 => NoMixedOutcome)
<1>1. CASE NoGivingUp
  <2>1. TInv /\ CInv /\ OneDecision => (edits = 0 => NoMixedOutcome)
      BY OneOutcome
  <2>2. TInv /\ TriesCost /\ OneDecision /\ [Next]_vars => OneDecision'
      BY <1>1, NextOneDecision
  <2> QED
      BY <2>1, <2>2, InitTriesCost, NextTriesCost, InitOneDecision, InvariantCInv, PTL DEF Spec
<1>2. CASE NothingTwice
  <2>1. CInv /\ PromiseInv => NoMixedOutcome
      BY OnceIsOneOutcome DEF PromiseInv
  <2>2. Spec => []PromiseInv
      BY <1>2, InvariantPromise
  <2> QED BY <2>1, <2>2, InvariantCInv, PTL
<1> QED BY <1>1, <1>2

\* For any orders, whatever is lost, repeated, retried or paid by hand, an order
\* has no more payments, and no more payment events, than one and those that a
\* fault or a request of their own explains: no fault is paid for twice
\* (payment_manager.py:80-252, payment_service.py:131-177).
THEOREM PaymentsAreCaused == Spec => []PaymentEventsAreCaused
<1>1. TInv /\ CountInv => PaymentEventsAreCaused
  <2> SUFFICES ASSUME TInv, CountInv, NEW o \in Orders
               PROVE  Len(payLog[o]) <= 1 + faults + edits /\ payments[o] <= 1 + faults + edits
      BY DEF PaymentEventsAreCaused
  <2>1. /\ payments[o] <= Len(payLog[o])
        /\ Len(payLog[o]) + Cardinality(Due(o)) + Coming(o) <= 1 + faults + edits
      BY DEF CountInv, EventsAreCounted
  <2>2. /\ Len(payLog[o]) \in Nat /\ payments[o] \in Nat /\ faults \in Nat /\ edits \in Nat
        /\ Cardinality(Due(o)) \in Nat /\ Coming(o) \in Nat
      BY CountTypes
  <2> QED BY <2>1, <2>2
<1> QED BY <1>1, InvariantCount, PTL

\* While no event is delivered again, no commit is taken for a failure and
\* nobody works on an order by hand, and for orders of any size whose quantities
\* are not negative, the units of all orders that wait for their payment are
\* reserved at the same time (product_service.py:326-356,
\* product_manager.py:260-312).
THEOREM PendingStaysReserved ==
    ASSUME NothingTwice, NoRefunds
    PROVE  Spec => []PendingUnitsAreReserved
<1>1. PromiseInv => PendingUnitsAreReserved
  <2> SUFFICES ASSUME PromiseInv, NEW p \in Products
               PROVE  (LET units(o) == Units(o, p)
                       IN  MapThenSumSet(units, {o \in Orders : status[o] = "pending"}))
                          <= row[p].reserved
      BY DEF PendingUnitsAreReserved
  <2>1. PendingUnits(p) <= row[p].reserved
      BY OnceIsSound, PendingUnitsAreHeld DEF PromiseInv, ReservedIsHeld
  <2> QED BY <2>1, PendingIsTotal
<1> QED BY <1>1, InvariantPromise, PTL

\* Under the same faults, and for any integer quantities, the three services, their
\* consumers and the inventory together keep the promise of OrderPromise: an
\* order is reserved whole before it exists, is paid at most once, completed only
\* when paid and cancelled only when not, each of its items is then sold or freed
\* at most once, and a reservation finds its units beside all that is taken
\* (order_manager.py:56-481, payment_manager.py:80-252,
\* product_manager.py:195-312).
THEOREM KeepsOrderPromise ==
    ASSUME NothingTwice
    PROVE  Spec => ImplementsOrderPromise
<1>1. Init => Promise!Init
    BY RefinesInit
<1>2. PromiseInv /\ [Next]_vars => [Promise!Next]_(Promise!vars)
    BY RefinesNext
<1>3. Spec => []PromiseInv
    BY InvariantPromise
<1> QED BY <1>1, <1>2, <1>3, PTL DEF Spec, ImplementsOrderPromise, Promise!Spec

\* What makes a promise for more than there is possible is a negative quantity
\* alone: without one, and under the same faults, the units of all pending orders
\* are in stock together (schemas/order.py:6, product_service.py:326-356).
THEOREM PendingStaysInStock ==
    ASSUME NothingTwice, NoRefunds
    PROVE  Spec => []PendingUnitsAreInStock
<1>1. PromiseInv /\ RowsAreSound => PendingUnitsAreInStock
  <2> SUFFICES ASSUME PromiseInv, RowsAreSound, NEW p \in Products
               PROVE  (LET wanted(o) == IF Units(o, p) > 0 THEN Units(o, p) ELSE 0
                       IN  MapThenSumSet(wanted, {o \in Orders : status[o] = "pending"}))
                          <= row[p].stock
      BY DEF PendingUnitsAreInStock
  <2>1. PendingUnits(p) <= row[p].reserved
      BY OnceIsSound, PendingUnitsAreHeld DEF PromiseInv, ReservedIsHeld
  <2>2. row[p].reserved <= row[p].stock /\ row[p].reserved \in Int /\ row[p].stock \in Int
      BY DEF RowsAreSound, Sound, PromiseInv, TInv, StockOK, Row
  <2>3. PendingUnits(p) \in Int
    <3>1. Ints(WantedOf(p), Pending) /\ IsFiniteSet(Pending)
        BY UnitsAreNat, OrdersAssumption, FS_Subset DEF Ints, WantedOf, Pending
    <3> QED BY <3>1, TotalIsInt DEF PendingUnits
  <2>4. PendingUnits(p) <= row[p].stock
      BY <2>1, <2>2, <2>3
  <2> QED BY <2>4, WantedIsTotal
<1>2. Init => RowsAreSound
    BY InitRowsAreSound
<1>3. PromiseInv /\ RowsAreSound /\ [Next]_vars => RowsAreSound'
    BY NextRowsAreSound DEF PromiseInv
<1> QED BY <1>1, <1>2, <1>3, InvariantPromise, PTL DEF Spec

\* Whatever happens, and however often, the reserved units of a product are never
\* negative and never more than its stock, if no quantity is negative: repeated
\* confirmations and releases are stopped by the checks on the row
\* (product_service.py:326-356, 392-477).
THEOREM RowsStaySound == ASSUME NoRefunds PROVE Spec => []RowsAreSound
<1>1. TInv /\ RowsAreSound /\ [Next]_vars => RowsAreSound'
    BY NextRowsAreSound
<1> QED BY <1>1, InitRowsAreSound, InvariantTInv, PTL DEF Spec

\* COMPLETED and CANCELLED are final, as long as nobody sets a status or pays by
\* hand, if the payments never fail, or there are fewer faults than
\* create_payment has attempts, or nothing happens twice - the handlers do not
\* look at the status they overwrite (order_manager.py:311-353, 423-460).
THEOREM DecisionsAreFinal == ASSUME DecisionsStand PROVE Spec => DecisionIsFinal
<1>1. TInv /\ [Undecided]_vars
        => [\A o \in Orders :
                status[o] \in {"completed", "cancelled"} => status'[o] = status[o]]_status
    BY DEF Undecided, vars, orderVars
<1> QED BY <1>1, InvariantUndecided, InvariantTInv, PTL DEF DecisionIsFinal

\* What makes a completed order CANCELLED is at least three faults of which some
\* do something twice and some fail a transaction, or a request by hand
\* (order_manager.py:423-460).
THEOREM CompletedStaysCompleted == ASSUME DecisionsStand PROVE Spec => CompletedOrderIsNotCancelled
<1>1. [Undecided]_vars
        => [\A o \in Orders : status'[o] = "cancelled" =>
                status[o] \in {"pending", "cancelled"}]_status
    BY DEF Undecided, vars, orderVars
<1> QED BY <1>1, InvariantUndecided, PTL DEF CompletedOrderIsNotCancelled

\* An order is decided once its events are handled, unless every attempt that
\* would decide it fails (order_manager.py:275-481, payment_manager.py:80-309):
\* for any orders, and any faults of any number.
THEOREM HandledIsDecided == Spec => []HandledOrderIsDecided
<1>1. Init => TInv /\ RInv /\ AInv /\ CountInv /\ TriesCost /\ SagaStatus /\ DInv
    BY InitTInv, InitRInv, InitAInv, InitCountInv, InitTriesCost, InitSagaStatus, InitDInv
<1>2. TInv /\ RInv /\ AInv /\ CountInv /\ TriesCost /\ SagaStatus /\ DInv /\ [Next]_vars
        => (TInv /\ RInv /\ AInv /\ CountInv /\ TriesCost /\ SagaStatus /\ DInv)'
    BY NextTInv, NextRInv, NextAInv, NextCountInv, NextTriesCost, NextSagaStatus, NextDInv
<1>3. TInv /\ AInv /\ SagaStatus /\ DInv => HandledOrderIsDecided
    BY DecisionFollows
<1> QED
    BY <1>1, <1>2, <1>3, PTL DEF Spec
=============================================================================
