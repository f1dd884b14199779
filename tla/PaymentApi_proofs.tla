--------------------------- MODULE PaymentApi_proofs ---------------------------
(***************************************************************************)
(* Proofs about PaymentApi, for any requests, and whatever the secondary   *)
(* has.                                                                    *)
(*                                                                         *)
(* A request appends at most one payment and at most one charge            *)
(* (OncePerRequest), because it leaves the state in which it appends with  *)
(* the same step (Writers); so the log is no longer than Ids allows, and   *)
(* two charges of process_payment are never of one payment.                *)
(***************************************************************************)
EXTENDS PaymentApi, FunctionTheorems, FiniteSetTheorems, TLAPS

PaymentRows == [row : {"payment"}, by : HttpRequests, announced : BOOLEAN]
ChargeRows  == [row : {"charge"}, by : HttpRequests, payment : Ids,
                result : {"success", "failed"}, data : BOOLEAN]
Rows == PaymentRows \cup ChargeRows

\* Only a payment that is made can have the refused amount.
Asked(q) ==
    /\ q.at # "done" => q.answer = "none"
    /\ q.kind \in {"create", "process"} \/ q.amount = "any"

\* What has become of the request that appended a row.
Writers ==
    \A i \in 1 .. Len(log) : LET q == req[log[i].by] IN
        /\ q.amount # "35000" /\ q.answer \notin {"400", "404"}
        /\ log[i].row = "payment" =>
              /\ log[i].announced
              /\ q.at \in {"gateway", "done"} /\ q.kind \in {"create", "process"}
        /\ log[i].row = "charge" => q.at = "done" /\ q.kind \in {"process", "charge"}

OncePerRequest(s) ==
    \A i, j \in 1 .. Len(s) : s[i].row = s[j].row /\ s[i].by = s[j].by => i = j

\* A charge comes after its payment.
Charged ==
    \A i \in 1 .. Len(log) : log[i].row = "charge" =>
        /\ log[i].payment \in 1 .. i - 1
        /\ log[log[i].payment].row = "payment"
        /\ req[log[i].by].kind = "process" => log[log[i].payment].by = log[i].by

\* At the gateway, a request holds the payment it stored, and nothing else.
AtGateway ==
    \A r \in HttpRequests : req[r].at = "gateway" =>
        /\ req[r].kind = "process" /\ req[r].amount # "35000" /\ req[r].answer = "none"
        /\ req[r].payment \in 1 .. Len(log)
        /\ log[req[r].payment].row = "payment" /\ log[req[r].payment].by = r

ApiInv ==
    /\ ApiTypeOK
    /\ \A r \in HttpRequests : Asked(req[r])
    /\ Writers /\ OncePerRequest(log) /\ Charged /\ AtGateway

-----------------------------------------------------------------------------
LEMMA AppendFacts ==
    ASSUME NEW S, NEW s \in Seq(S), NEW e \in S
    PROVE  /\ Append(s, e) \in Seq(S)
           /\ Len(s) \in Nat /\ Len(Append(s, e)) = Len(s) + 1
           /\ \A k \in 1 .. Len(s) : Append(s, e)[k] = s[k]
           /\ Append(s, e)[Len(s) + 1] = e
  OBVIOUS

\* Two rows for each request: its payment and its charge.
LEMMA LogIsBounded ==
    ASSUME NEW s \in Seq(Rows), OncePerRequest(s)
    PROVE  Len(s) \in Nat /\ Len(s) <= 2 * Cardinality(HttpRequests)
<1> DEFINE kinds == {"payment", "charge"}
           pairs == HttpRequests \X kinds
           D     == 1 .. Len(s)
           f     == [i \in D |-> <<s[i].by, s[i].row>>]
<1>1. Len(s) \in Nat /\ \A i \in D : s[i] \in Rows
    OBVIOUS
<1>2. \A i \in D : s[i].by \in HttpRequests /\ s[i].row \in kinds
    BY <1>1 DEF Rows, PaymentRows, ChargeRows
<1>3. f \in Injection(D, pairs)
  <2>1. f \in [D -> pairs]
      BY <1>2
  <2>2. \A i, j \in D : f[i] = f[j] => i = j
      BY DEF OncePerRequest
  <2> QED BY <2>1, <2>2 DEF Injection, IsInjective
<1>4. IsFiniteSet(kinds) /\ Cardinality(kinds) = 2
  <2>1. kinds = {"payment"} \cup {"charge"}
      OBVIOUS
  <2>2. IsFiniteSet({"payment"}) /\ Cardinality({"payment"}) = 1
      BY FS_Singleton
  <2>3. IsFiniteSet({"payment"} \cup {"charge"})
      BY <2>2, FS_AddElement
  <2>4. Cardinality({"payment"} \cup {"charge"}) = 1 + 1
      BY <2>2, FS_AddElement
  <2> QED BY <2>1, <2>3, <2>4
<1>5. IsFiniteSet(pairs) /\ Cardinality(pairs) = Cardinality(HttpRequests) * 2
  <2> HIDE DEF kinds
  <2> QED BY <1>4, HttpRequestsAssumption, FS_Product
<1>6. Cardinality(D) = Len(s)
  <2>1. 0 \in Int /\ 1 \in Int /\ Len(s) \in Int
      BY <1>1
  <2>2. Cardinality(D) = IF 1 > Len(s) THEN 0 ELSE Len(s) - 1 + 1
      BY <2>1, FS_Interval
  <2> QED BY <1>1, <2>2
<1>7. Cardinality(D) <= Cardinality(pairs)
  <2> HIDE DEF f, D, pairs
  <2> QED BY <1>3, <1>5, FS_Injection
<1>8. Cardinality(HttpRequests) \in Nat
    BY HttpRequestsAssumption, FS_CardinalityType
<1> QED BY <1>1, <1>5, <1>6, <1>7, <1>8

LEMMA InitApiInv == ApiInit => ApiInv
<1> SUFFICES ASSUME ApiInit PROVE ApiInv
    OBVIOUS
<1>1. ASSUME NEW r \in HttpRequests PROVE 1 \in Ids
  <2>1. Cardinality(HttpRequests) \in Nat /\ Cardinality(HttpRequests) # 0
      BY HttpRequestsAssumption, FS_CardinalityType, FS_EmptySet
  <2> QED BY <2>1 DEF Ids
<1>2. ApiTypeOK
    BY <1>1 DEF ApiInit, ApiTypeOK, Request, Kinds, Amounts, Answers
<1> QED
    BY <1>2 DEF ApiInit, ApiInv, Asked, Writers, OncePerRequest, Charged, AtGateway

\* A request that goes on without appending.
LEMMA StepKeepsLog ==
    ASSUME ApiInv, NEW r \in HttpRequests, NEW w \in Request,
           UNCHANGED <<log, replicated>>, req' = [req EXCEPT ![r] = w],
           req[r].at # "done", w.at # "gateway", Asked(w),
           req[r].at = "gateway" =>
              /\ w.at = "done" /\ w.kind = req[r].kind /\ w.amount = req[r].amount
              /\ w.answer \notin {"400", "404"}
    PROVE  ApiInv'
<1>1. req \in [HttpRequests -> Request] /\ log \in Seq(Rows)
    BY DEF ApiInv, ApiTypeOK, Rows, PaymentRows, ChargeRows
<1>2. ApiTypeOK'
    BY <1>1 DEF ApiInv, ApiTypeOK
<1>3. \A i \in 1 .. Len(log) : log[i].by \in HttpRequests /\ log[i].row \in {"payment", "charge"}
    BY <1>1 DEF Rows, PaymentRows, ChargeRows
<1>4. ASSUME NEW i \in 1 .. Len(log)
      PROVE  \/ req'[log[i].by] = req[log[i].by]
             \/ log[i].by = r /\ req[r].at = "gateway" /\ log[i].row = "payment" /\ req'[log[i].by] = w
    BY <1>1, <1>3 DEF ApiInv, Writers
<1>5. Writers'
    BY <1>3, <1>4 DEF ApiInv, Writers
<1>6. Charged'
    BY <1>3, <1>4 DEF ApiInv, Charged
<1>7. AtGateway'
    BY <1>1 DEF ApiInv, AtGateway
<1>8. \A q \in HttpRequests : Asked(req'[q])
    BY <1>1 DEF ApiInv
<1> QED
    BY <1>2, <1>5, <1>6, <1>7, <1>8 DEF ApiInv, OncePerRequest

\* A request that appends a row.
LEMMA StepAppends ==
    ASSUME ApiInv, NEW r \in HttpRequests, NEW w, NEW e \in Rows, e.by = r,
           log' = Append(log, e), UNCHANGED replicated, req' = [req EXCEPT ![r] = w],
           Len(log') \in Ids => w \in Request,
           req[r].at \in {"service", "gateway"},
           w.kind = req[r].kind, w.amount = req[r].amount,
           w.amount # "35000", w.answer \notin {"400", "404"},
           e.row = "payment" =>
              /\ e.announced
              /\ req[r].at = "service" /\ w.at \in {"gateway", "done"}
              /\ w.kind \in {"create", "process"},
           e.row = "charge" =>
              /\ w.at = "done" /\ w.kind \in {"process", "charge"}
              /\ e.payment \in 1 .. Len(log) /\ log[e.payment].row = "payment"
              /\ w.kind = "process" => log[e.payment].by = r,
           w.at = "gateway" =>
              /\ w.kind = "process" /\ w.answer = "none" /\ e.row = "payment"
              /\ w.payment = Len(log')
    PROVE  ApiInv'
<1>1. req \in [HttpRequests -> Request] /\ log \in Seq(Rows) /\ replicated \in 0 .. Len(log)
    BY DEF ApiInv, ApiTypeOK, Rows, PaymentRows, ChargeRows
<1> DEFINE n == Len(log)
<1>2. /\ log' \in Seq(Rows) /\ n \in Nat /\ Len(log') = n + 1
      /\ \A k \in 1 .. n : log'[k] = log[k]
      /\ log'[n + 1] = e
    BY <1>1, AppendFacts
<1>3. \A i \in 1 .. n : log[i].by \in HttpRequests /\ log[i].row \in {"payment", "charge"}
    BY <1>1 DEF Rows, PaymentRows, ChargeRows
<1>4. e.row \in {"payment", "charge"}
    BY DEF Rows, PaymentRows, ChargeRows
<1> HIDE DEF n
<1>5. 1 .. Len(log') = 1 .. n \cup {n + 1}
    BY <1>2
<1>6. \A i \in 1 .. n : log[i].by = r => log[i].row = "payment" /\ e.row = "charge" /\ req[r].at = "gateway"
    BY <1>3, <1>4 DEF ApiInv, Writers, n
<1>7. OncePerRequest(log')
    BY <1>2, <1>3, <1>5, <1>6 DEF ApiInv, OncePerRequest, n
<1>8. ApiTypeOK'
  <2>1. n + 1 \in Ids
    <3>1. Len(log') <= 2 * Cardinality(HttpRequests)
        BY <1>2, <1>7, LogIsBounded
    <3>2. Cardinality(HttpRequests) \in Nat
        BY HttpRequestsAssumption, FS_CardinalityType
    <3> QED BY <1>2, <3>1, <3>2 DEF Ids
  <2>2. w \in Request
      BY <1>2, <2>1
  <2> QED BY <1>1, <1>2, <2>2 DEF ApiTypeOK, Rows, PaymentRows, ChargeRows, n
<1>9. Writers'
  <2>1. ASSUME NEW i \in 1 .. n
        PROVE  req'[log[i].by] = req[log[i].by] \/ (log[i].by = r /\ req'[log[i].by] = w)
      BY <1>1, <1>3
  <2>2. req'[r] = w
      BY <1>1
  <2> QED
      BY <1>2, <1>3, <1>4, <1>5, <1>6, <2>1, <2>2 DEF ApiInv, Writers, n
<1>10. Charged'
  <2>1. \A i \in 1 .. n : req'[log[i].by].kind = req[log[i].by].kind
      BY <1>1, <1>3
  <2>2. req'[r] = w
      BY <1>1
  <2>3. ASSUME NEW i \in 1 .. n, log[i].row = "charge"
        PROVE  /\ log[i].payment \in 1 .. i - 1 /\ log[i].payment \in 1 .. n
               /\ log'[log[i].payment].row = "payment"
               /\ req'[log[i].by].kind = "process" => log'[log[i].payment].by = log[i].by
    <3>1. log[i].payment \in 1 .. i - 1
        BY <2>3 DEF ApiInv, Charged, n
    <3>2. log[i].payment \in 1 .. n
        BY <1>2, <3>1
    <3> QED BY <1>2, <2>1, <2>3, <3>1, <3>2 DEF ApiInv, Charged, n
  <2>4. e.row = "charge" =>
          /\ e.payment \in 1 .. (n + 1) - 1
          /\ log'[e.payment].row = "payment"
          /\ req'[e.by].kind = "process" => log'[e.payment].by = e.by
      BY <1>2, <2>2 DEF n
  <2> QED BY <1>2, <1>5, <2>3, <2>4 DEF Charged
<1>11. AtGateway'
  <2>1. ASSUME NEW q \in HttpRequests, req'[q].at = "gateway", q # r
        PROVE  /\ req'[q] = req[q] /\ req[q].payment \in 1 .. n
               /\ log'[req[q].payment] = log[req[q].payment]
      BY <1>1, <1>2, <2>1 DEF ApiInv, AtGateway, n
  <2>2. req'[r] = w
      BY <1>1
  <2> QED BY <1>2, <1>5, <2>1, <2>2 DEF ApiInv, AtGateway, n
<1>12. \A q \in HttpRequests : Asked(req'[q])
  <2>1. Asked(req[r])
      BY DEF ApiInv
  <2>2. w.at \in {"gateway", "done"}
      BY <1>4
  <2>3. Asked(w)
      BY <2>1, <2>2 DEF Asked
  <2> QED BY <1>1, <2>3 DEF ApiInv
<1> QED
    BY <1>7, <1>8, <1>9, <1>10, <1>11, <1>12 DEF ApiInv

\* The request is answered.
LEMMA DoneRecord ==
    ASSUME NEW q \in Request, NEW answer \in Answers
    PROVE  LET w == [q EXCEPT !.at = "done", !.answer = answer]
           IN  /\ w \in Request
               /\ w.at = "done" /\ w.answer = answer /\ w.kind = q.kind /\ w.amount = q.amount
  BY DEF Request

LEMMA AnswerWithFacts ==
    ASSUME req \in [HttpRequests -> Request], NEW r \in HttpRequests, NEW answer \in Answers,
           AnswerWith(r, answer)
    PROVE  \E w \in Request :
               /\ req' = [req EXCEPT ![r] = w]
               /\ w.at = "done" /\ w.answer = answer
               /\ w.kind = req[r].kind /\ w.amount = req[r].amount
<1> DEFINE w == [req[r] EXCEPT !.at = "done", !.answer = answer]
<1>1. req' = [req EXCEPT ![r] = w]
    BY DEF AnswerWith
<1>2. /\ w \in Request
      /\ w.at = "done" /\ w.answer = answer /\ w.kind = req[r].kind /\ w.amount = req[r].amount
    BY DoneRecord
<1> HIDE DEF w
<1> QED BY <1>1, <1>2

\* An answer without a row, or with one.
LEMMA AnswerOK ==
    ASSUME ApiInv, NEW r \in HttpRequests, NEW answer \in Answers,
           UNCHANGED <<log, replicated>>, AnswerWith(r, answer),
           req[r].at = "service" \/ (req[r].at = "gateway" /\ answer \in {"500", "lost"})
    PROVE  ApiInv'
<1>1. PICK w \in Request :
               /\ req' = [req EXCEPT ![r] = w]
               /\ w.at = "done" /\ w.answer = answer
               /\ w.kind = req[r].kind /\ w.amount = req[r].amount
    BY AnswerWithFacts DEF ApiInv, ApiTypeOK
<1>2. Asked(w)
    BY <1>1 DEF ApiInv, Asked
<1> QED BY <1>1, <1>2, StepKeepsLog

LEMMA StoredOK ==
    ASSUME ApiInv, NEW r \in HttpRequests, NEW e \in Rows, e.by = r,
           Store(e), UNCHANGED replicated, AnswerWith(r, "500"),
           req[r].at \in {"service", "gateway"}, req[r].amount # "35000",
           e.row = "payment" =>
              /\ e.announced
              /\ req[r].at = "service" /\ req[r].kind \in {"create", "process"},
           e.row = "charge" =>
              /\ req[r].kind \in {"process", "charge"}
              /\ e.payment \in 1 .. Len(log) /\ log[e.payment].row = "payment"
              /\ req[r].kind = "process" => log[e.payment].by = r
    PROVE  ApiInv'
<1>1. PICK w \in Request :
               /\ req' = [req EXCEPT ![r] = w]
               /\ w.at = "done" /\ w.answer = "500"
               /\ w.kind = req[r].kind /\ w.amount = req[r].amount
    BY AnswerWithFacts DEF ApiInv, ApiTypeOK, Answers
<1> QED BY <1>1, StepAppends DEF Store

LEMMA PaymentRowFacts ==
    ASSUME NEW r \in HttpRequests
    PROVE  LET e == PaymentRow(r, TRUE)
           IN  e \in Rows /\ e.row = "payment" /\ e.by = r /\ e.announced
  BY DEF PaymentRow, Rows, PaymentRows

LEMMA ChargeRowFacts ==
    ASSUME NEW r \in HttpRequests, NEW p \in Ids, NEW result \in {"success", "failed"},
           NEW data \in BOOLEAN
    PROVE  LET e == ChargeRow(r, p, result, data)
           IN  e \in Rows /\ e.row = "charge" /\ e.by = r /\ e.payment = p
  BY DEF ChargeRow, Rows, ChargeRows

-----------------------------------------------------------------------------
LEMMA SendKeepsInv == ASSUME ApiInv, NEW r \in HttpRequests, SendRequest(r) PROVE ApiInv'
<1>1. PICK kind \in Kinds, amount \in Amounts, p \in Ids :
          /\ kind \in {"create", "process"} \/ amount = "any"
          /\ req' = [req EXCEPT ![r].kind = kind, ![r].at = "service",
                                ![r].amount = amount, ![r].payment = p]
    BY DEF SendRequest
<1> DEFINE w == [req[r] EXCEPT !.kind = kind, !.at = "service", !.amount = amount, !.payment = p]
<1>2. req[r] \in Request
    BY DEF ApiInv, ApiTypeOK
<1>3. req' = [req EXCEPT ![r] = w]
    BY <1>1
<1>4. w \in Request /\ w.at = "service" /\ w.kind = kind /\ w.amount = amount
      /\ w.answer = req[r].answer
    BY <1>2 DEF Request
<1>5. req[r].at = "idle" /\ req[r].answer = "none" /\ UNCHANGED <<log, replicated>>
    BY DEF SendRequest, ApiInv, Asked
<1> HIDE DEF w
<1>6. Asked(w)
    BY <1>1, <1>4, <1>5 DEF Asked
<1> QED BY <1>3, <1>4, <1>5, <1>6, StepKeepsLog

\* The payment is stored; the request fails or goes on to the gateway.
LEMMA CreateKeepsInv ==
    ASSUME ApiInv, NEW r \in HttpRequests, CreatePayment(r) \/ CreateFails(r)
    PROVE  ApiInv'
<1> DEFINE e == PaymentRow(r, TRUE)
<1>1. /\ req[r].at = "service" /\ req[r].kind \in {"create", "process"}
      /\ req[r].amount # "35000" /\ UNCHANGED replicated
    BY DEF CreatePayment, CreateFails, Creates
<1>2. e \in Rows /\ e.row = "payment" /\ e.by = r /\ e.announced
    BY PaymentRowFacts
<1>3. CASE UNCHANGED log /\ AnswerWith(r, "500")
    BY <1>1, <1>3, AnswerOK DEF Answers
<1>4. CASE Store(e) /\ AnswerWith(r, "500")
  <2> HIDE DEF e
  <2> QED BY <1>1, <1>2, <1>4, StoredOK
<1>5. CASE Store(e) /\ req[r].kind = "process"
             /\ req' = [req EXCEPT ![r].at = "gateway", ![r].payment = Len(log')]
  <2> DEFINE w == [req[r] EXCEPT !.at = "gateway", !.payment = Len(log')]
  <2>1. req[r] \in Request
      BY DEF ApiInv, ApiTypeOK
  <2>2. req[r].answer = "none"
      BY <1>1 DEF ApiInv, Asked
  <2>3. req' = [req EXCEPT ![r] = w]
      BY <1>5
  <2>4. /\ Len(log') \in Ids => w \in Request
        /\ w.at = "gateway" /\ w.payment = Len(log') /\ w.kind = req[r].kind
        /\ w.amount = req[r].amount /\ w.answer = req[r].answer
      BY <2>1 DEF Request
  <2>5. log' = Append(log, e) /\ req[r].kind = "process"
      BY <1>5 DEF Store
  <2> HIDE DEF w, e
  <2>6. w.amount # "35000" /\ w.answer = "none" /\ w.kind = "process"
      BY <1>1, <2>2, <2>4, <2>5
  <2> QED BY <1>1, <1>2, <2>3, <2>4, <2>5, <2>6, StepAppends
<1> QED
    BY <1>3, <1>4, <1>5 DEF CreatePayment, CreateFails, AfterCreate, Creates

LEMMA GatewayKeepsInv == ASSUME ApiInv, NEW r \in HttpRequests, ChargeAtGateway(r) PROVE ApiInv'
<1> DEFINE result == IF req[r].amount = "36000" THEN "failed" ELSE "success"
           p      == req[r].payment
           e      == ChargeRow(r, p, result, TRUE)
<1>1. /\ req[r].at = "gateway" /\ req[r].kind = "process" /\ req[r].amount # "35000"
      /\ p \in 1 .. Len(log) /\ log[p].row = "payment" /\ log[p].by = r
      /\ p \in Ids /\ UNCHANGED replicated /\ AnswerWith(r, "500")
    BY DEF ChargeAtGateway, ApiInv, AtGateway, ApiTypeOK, Request
<1>2. e \in Rows /\ e.row = "charge" /\ e.by = r /\ e.payment = p
    BY <1>1, ChargeRowFacts
<1>3. UNCHANGED log \/ Store(e)
    BY DEF ChargeAtGateway
<1> HIDE DEF e, p
<1>4. CASE UNCHANGED log
    BY <1>1, <1>4, AnswerOK DEF Answers
<1>5. CASE Store(e)
    BY <1>1, <1>2, <1>5, StoredOK
<1> QED BY <1>3, <1>4, <1>5

LEMMA AddChargeKeepsInv == ASSUME ApiInv, NEW r \in HttpRequests, AddCharge(r) PROVE ApiInv'
<1> DEFINE p == req[r].payment
<1>1. /\ req[r].at = "service" /\ req[r].kind = "charge" /\ UNCHANGED replicated
      /\ p \in Ids
    BY DEF AddCharge, ApiInv, ApiTypeOK, Request
<1>2. CASE UNCHANGED log /\ \E answer \in {"400", "500"} : AnswerWith(r, answer)
    BY <1>1, <1>2, AnswerOK DEF Answers
<1>3. ASSUME NEW result \in {"success", "failed"}, NEW data \in BOOLEAN, p \in Payments(Len(log)),
             Store(ChargeRow(r, p, result, data)), AnswerWith(r, "500")
      PROVE  ApiInv'
  <2> DEFINE e == ChargeRow(r, p, result, data)
  <2>1. e \in Rows /\ e.row = "charge" /\ e.by = r /\ e.payment = p
      BY <1>1, ChargeRowFacts
  <2>2. p \in 1 .. Len(log) /\ log[p].row = "payment"
      BY <1>3 DEF Payments
  <2>3. req[r].amount # "35000"
      BY <1>1 DEF ApiInv, Asked
  <2>4. Store(e)
      BY <1>3
  <2> HIDE DEF e, p
  <2> QED BY <1>1, <1>3, <2>1, <2>2, <2>3, <2>4, StoredOK
<1> QED BY <1>2, <1>3 DEF AddCharge

\* A read, a refusal, or the end of a request.
LEMMA AnswersKeepInv ==
    ASSUME ApiInv, NEW r \in HttpRequests,
           SimulateFailure(r) \/ UpdatePayment(r) \/ Read(r) \/ LoseRequest(r)
    PROVE  ApiInv'
<1>1. CASE SimulateFailure(r) \/ UpdatePayment(r)
    BY <1>1, AnswerOK DEF SimulateFailure, UpdatePayment, Creates, Answers
<1>2. CASE Read(r)
  <2>1. PICK answer \in {"500", "404", "200"} : AnswerWith(r, answer)
      BY <1>2 DEF Read
  <2> QED BY <1>2, <2>1, AnswerOK DEF Read, Answers
<1>3. CASE LoseRequest(r)
    BY <1>3, AnswerOK DEF LoseRequest, Answers
<1> QED BY <1>1, <1>2, <1>3

LEMMA UnchangedKeepsInv ==
    ASSUME ApiInv, UNCHANGED <<log, req>>, replicated' \in 0 .. Len(log)
    PROVE  ApiInv'
<1>1. ApiTypeOK'
    BY DEF ApiInv, ApiTypeOK
<1> QED BY <1>1 DEF ApiInv, Writers, OncePerRequest, Charged, AtGateway

LEMMA NextApiInv == ApiInv /\ [ApiNext]_apiVars => ApiInv'
<1> SUFFICES ASSUME ApiInv, [ApiNext]_apiVars PROVE ApiInv'
    OBVIOUS
<1>1. log \in Seq(Rows) /\ replicated \in 0 .. Len(log)
    BY DEF ApiInv, ApiTypeOK, Rows, PaymentRows, ChargeRows
<1>2. CASE Replicate
  <2>1. replicated' \in 0 .. Len(log)
      BY <1>1, <1>2 DEF Replicate
  <2> QED BY <1>2, <2>1, UnchangedKeepsInv DEF Replicate
<1>3. CASE UNCHANGED apiVars
    BY <1>1, <1>3, UnchangedKeepsInv DEF apiVars
<1> QED
    BY <1>2, <1>3, SendKeepsInv, CreateKeepsInv, GatewayKeepsInv, AddChargeKeepsInv,
       AnswersKeepInv DEF ApiNext

LEMMA InvariantApiInv == ApiSpec => []ApiInv
  BY InitApiInv, NextApiInv, PTL DEF ApiSpec

-----------------------------------------------------------------------------
\* The database, its copy and the requests are well typed, and every payment id
\* is in Ids: however requests fail, none of them commits more than a payment and
\* a charge (payment_service.py:131-177, 275-317, 318-431).
THEOREM ApiTypeCorrect == ApiSpec => []ApiTypeOK
<1>1. ApiInv => ApiTypeOK
    BY DEF ApiInv
<1> QED BY <1>1, InvariantApiInv, PTL

\* Wherever a request breaks off, a charge is of a stored and announced payment,
\* and process_payment charges the payment of its own try, once
\* (payment_service.py:340-420).
THEOREM ChargesAreOfPayments == ApiSpec => []ChargesFollowPayments
<1>1. ApiInv => ChargesFollowPayments
  <2> SUFFICES ASSUME ApiInv, NEW i \in 1 .. Len(log), log[i].row = "charge"
               PROVE  LET p == log[i].payment IN
                        /\ p < i /\ log[p].row = "payment" /\ log[p].announced
                        /\ req[log[i].by].kind = "process" =>
                             /\ log[p].by = log[i].by
                             /\ \A j \in Charges(Len(log), p) :
                                   req[log[j].by].kind = "process" => j = i
      BY DEF ChargesFollowPayments
  <2> DEFINE p == log[i].payment
  <2>1. /\ p \in 1 .. i - 1 /\ log[p].row = "payment"
        /\ req[log[i].by].kind = "process" => log[p].by = log[i].by
      BY DEF ApiInv, Charged
  <2>2. p < i /\ p \in 1 .. Len(log)
      BY <2>1
  <2>3. log[p].announced
      BY <2>1, <2>2 DEF ApiInv, Writers
  <2>4. ASSUME NEW j \in Charges(Len(log), p),
               req[log[i].by].kind = "process", req[log[j].by].kind = "process"
        PROVE  j = i
    <3>1. /\ j \in 1 .. Len(log) /\ log[j].row = "charge" /\ log[j].payment = p
        BY DEF Charges
    <3>2. log[j].by = log[i].by
        BY <2>1, <2>4, <3>1 DEF ApiInv, Charged
    <3> QED BY <3>1, <3>2 DEF ApiInv, OncePerRequest
  <2> QED BY <2>1, <2>2, <2>3, <2>4
<1> QED BY <1>1, InvariantApiInv, PTL

\* Nothing is in the database of a request that was refused, or that only reads
\* or changes a payment (payment_service.py:131-137, payment_api.py:20-150).
THEOREM RefusedRequestsStoreNothing == ApiSpec => []RefusedLeavesNothing
<1>1. ApiInv => RefusedLeavesNothing
  <2> SUFFICES ASSUME ApiInv, NEW i \in 1 .. Len(log)
               PROVE  /\ req[log[i].by].kind \in {"create", "process", "charge"}
                      /\ req[log[i].by].amount # "35000"
                      /\ req[log[i].by].answer \notin {"400", "404"}
      BY DEF RefusedLeavesNothing
  <2>1. log[i].row \in {"payment", "charge"}
      BY DEF ApiInv, ApiTypeOK
  <2> QED BY <2>1 DEF ApiInv, Writers
<1> QED BY <1>1, InvariantApiInv, PTL
=============================================================================
