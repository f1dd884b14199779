--------------------------- MODULE Requests_proofs ---------------------------
(***************************************************************************)
(* Proofs about GrpcClient, for any set of calls of any of the methods,    *)
(* and about the four modules that MCRequests puts side by side.           *)
(*                                                                         *)
(* A call takes effect once because it makes one attempt (OneAttempt): no  *)
(* error that leaves a method's body is one its decorators try again for.  *)
(* That one attempt is either still on the wire or was carried out.        *)
(*                                                                         *)
(* The modules side by side share no variable, and a step of MCRequests is *)
(* a step of one of them that leaves the others as they are: it is a step, *)
(* or a stutter, of each (StepOfEach).                                     *)
(***************************************************************************)
EXTENDS MCRequests, ProductCatalog_proofs, PaymentApi_proofs, Categories_proofs, TLAPS

\* A call makes at most one attempt, which the server carries out once.
OneAttempt ==
    \A c \in Calls :
        /\ call[c].tries <= 1
        /\ call[c].stage = "new" => call[c].tries = 0 /\ effects[c] = 0
        /\ wire[c] # {} => effects[c] = 0
        /\ effects[c] <= 1

\* An answer that says so, on its way or received, was preceded by the effect.
YesIsReserved ==
    \A c \in Calls : "yes" \in {reply[c], call[c].stage} => effects[c] > 0

ClientInv == ClientTypeOK /\ OneAttempt /\ YesIsReserved

-----------------------------------------------------------------------------
\* The except clauses let nothing through that the decorators look for.
LEMMA ConvertedIsUnexpected ==
    \A m \in Methods, error \in Expected \cup {"none"} : Converted(m, error) \notin Expected
  BY DEF Converted, Expected

LEMMA AttemptsArePositive ==
    \A c \in Calls : MethodOf[c] \in Methods /\ Attempts[MethodOf[c]] \in Nat \ {0}
  BY MethodAssumption DEF Attempts

\* The circuit's counter keeps its type, whatever it counts.
LEMMA CountTypeOK ==
    ASSUME breaker \in [Methods -> [failures : Nat, open : BOOLEAN]],
           NEW m \in Methods, NEW raised, Count(m, raised)
    PROVE  breaker' \in [Methods -> [failures : Nat, open : BOOLEAN]]
<1>1. Threshold[m] \in Nat
    BY DEF Threshold
<1>2. breaker[m].failures + 1 \in Nat /\ (breaker[m].failures + 1 >= Threshold[m]) \in BOOLEAN
    BY <1>1
<1> QED
    BY <1>2 DEF Count

\* An attempt that fails ends its call: the branch that sends again is not taken.
LEMMA FailureEndsCall ==
    ASSUME NEW c \in Calls, AttemptFails(c)
    PROVE  Answer(c, "error") /\ UNCHANGED <<reply, effects>>
           /\ \E raised : Count(MethodOf[c], raised)
<1>1. PICK error \in Expected : Fail(c, error)
    BY DEF AttemptFails
<1>2. Converted(MethodOf[c], error) \notin Expected
    BY AttemptsArePositive, ConvertedIsUnexpected
<1>3. Answer(c, "error") /\ Count(MethodOf[c], Converted(MethodOf[c], error)) /\ UNCHANGED reply
    BY <1>1, <1>2 DEF Fail
<1> QED
    BY <1>3 DEF AttemptFails

-----------------------------------------------------------------------------
LEMMA InitClientInv == ClientInit => ClientInv
<1>1. ASSUME ClientInit PROVE ClientTypeOK
    BY <1>1, AttemptsArePositive DEF ClientInit, ClientTypeOK, CallStage
<1>2. ASSUME ClientInit PROVE OneAttempt /\ YesIsReserved
    BY <1>2 DEF ClientInit, OneAttempt, YesIsReserved
<1> QED
    BY <1>1, <1>2 DEF ClientInv

LEMMA NextClientInv == ClientInv /\ [ClientNext]_clientVars => ClientInv'
<1> SUFFICES ASSUME ClientInv, [ClientNext]_clientVars PROVE ClientInv'
    OBVIOUS
<1> USE DEF ClientInv, CallStage
<1>1. ASSUME NEW c \in Calls, Invoke(c) PROVE ClientInv'
  <2>1. /\ call' = [call EXCEPT ![c] = [stage |-> "waiting", tries |-> 1]]
        /\ wire' = [wire EXCEPT ![c] = {1}]
        /\ reply' = [reply EXCEPT ![c] = "none"]
        /\ effects[c] = 0 /\ UNCHANGED <<effects, breaker, outage>>
    <3>1. call[c].tries = 0 /\ effects[c] = 0
        BY <1>1 DEF Invoke, OneAttempt
    <3>2. wire[c] = {} /\ wire[c] \cup {1} = {1}
        BY <3>1 DEF ClientTypeOK
    <3>3. call[c].tries + 1 = 1
        BY <3>1
    <3> QED BY <1>1, <3>1, <3>2, <3>3 DEF Invoke, Send
  <2>2. ClientTypeOK'
      BY <2>1, AttemptsArePositive DEF ClientTypeOK
  <2>3. OneAttempt'
      BY <2>1 DEF ClientTypeOK, OneAttempt
  <2>4. YesIsReserved'
      BY <2>1 DEF ClientTypeOK, YesIsReserved
  <2> QED BY <2>2, <2>3, <2>4
<1>2. ASSUME NEW c \in Calls, AttemptFails(c) PROVE ClientInv'
  <2>1. /\ call' = [call EXCEPT ![c].stage = "error"]
        /\ UNCHANGED <<wire, reply, effects>>
      BY <1>2, FailureEndsCall DEF Answer
  <2>2. breaker' \in [Methods -> [failures : Nat, open : BOOLEAN]]
      BY <1>2, FailureEndsCall, CountTypeOK, AttemptsArePositive DEF ClientTypeOK
  <2>3. outage' \in [Methods -> Nat]
      BY <1>2, AttemptsArePositive DEF AttemptFails, ClientTypeOK
  <2>4. ClientTypeOK'
      BY <2>1, <2>2, <2>3 DEF ClientTypeOK
  <2> QED
      BY <2>1, <2>4 DEF ClientTypeOK, OneAttempt, YesIsReserved
<1>3. ASSUME NEW c \in Calls, Receive(c) PROVE ClientInv'
  <2>1. /\ call' = [call EXCEPT ![c].stage = reply[c]]
        /\ reply[c] \in {"yes", "no"}
        /\ UNCHANGED <<wire, reply, effects>>
      BY <1>3 DEF Receive, Answer, ClientTypeOK
  <2>2. breaker' \in [Methods -> [failures : Nat, open : BOOLEAN]]
      BY <1>3, CountTypeOK, AttemptsArePositive DEF Receive, ClientTypeOK
  <2>3. outage' \in [Methods -> Nat]
      BY <1>3, AttemptsArePositive DEF Receive, ClientTypeOK
  <2>4. ClientTypeOK'
      BY <2>1, <2>2, <2>3 DEF ClientTypeOK
  <2> QED
      BY <2>1, <2>4 DEF ClientTypeOK, OneAttempt, YesIsReserved
<1>4. ASSUME NEW c \in Calls, NEW n \in wire[c], Serve(c, n) PROVE ClientInv'
  <2>1. PICK s \in Service :
            /\ effects' = [effects EXCEPT ![c] = @ + s.done]
            /\ reply' = [reply EXCEPT ![c] =
                   IF call[c] = [stage |-> "waiting", tries |-> n] THEN s.answer ELSE @]
      BY <1>4 DEF Serve
  <2>2. /\ s.done \in {0, 1} /\ s.answer \in {"yes", "no"}
        /\ s.answer = "yes" => s.done = 1
      BY DEF Service
  <2>3. wire[c] = {1} /\ wire' = [wire EXCEPT ![c] = {}] /\ n = 1
    <3>1. call[c].tries \in {0, 1}
        BY DEF ClientTypeOK, OneAttempt
    <3>2. 1 .. 0 = {} /\ 1 .. 1 = {1}
        OBVIOUS
    <3>3. wire[c] \subseteq {1}
        BY <3>1, <3>2 DEF ClientTypeOK
    <3>4. wire[c] = {1} /\ n = 1 /\ wire[c] \ {n} = {}
        BY <3>3
    <3> QED BY <1>4, <3>4 DEF Serve
  <2>4. effects[c] = 0 /\ effects' = [effects EXCEPT ![c] = s.done]
    <3>1. effects[c] = 0
        BY <1>4 DEF OneAttempt
    <3>2. effects[c] + s.done = s.done
        BY <2>2, <3>1
    <3> QED BY <2>1, <3>1, <3>2
  <2>5. UNCHANGED <<call, breaker, outage>>
      BY <1>4 DEF Serve
  <2>6. ClientTypeOK'
      BY <2>1, <2>2, <2>3, <2>4, <2>5 DEF ClientTypeOK
  <2>7. OneAttempt'
      BY <2>2, <2>3, <2>4, <2>5 DEF ClientTypeOK, OneAttempt
  <2>8. YesIsReserved'
      BY <2>1, <2>2, <2>4, <2>5 DEF ClientTypeOK, YesIsReserved
  <2> QED BY <2>6, <2>7, <2>8
<1>5. CASE UNCHANGED clientVars
    BY <1>5 DEF clientVars, ClientTypeOK, OneAttempt, YesIsReserved
<1> QED
    BY <1>1, <1>2, <1>3, <1>4, <1>5 DEF ClientNext

LEMMA InvariantClientInv == ClientSpec => []ClientInv
  BY InitClientInv, NextClientInv, PTL DEF ClientSpec

-----------------------------------------------------------------------------
(* The modules side by side *)

LEMMA StepOfEach ==
    ASSUME [Next]_vars
    PROVE  /\ [CatalogNext]_catalogVars /\ [ClientNext]_clientVars
           /\ [ApiNext]_apiVars /\ [CategoryNext]_categoryVars
<1>1. CASE UNCHANGED vars
    BY <1>1 DEF vars
<1>2. CASE Next
    BY <1>2 DEF Next
<1> QED BY <1>1, <1>2

-----------------------------------------------------------------------------
\* The clients' state is well typed; in particular no call makes more attempts
\* than its @retry allows (product_client.py:97-103, 156-162).
THEOREM ClientTypeCorrect == ClientSpec => []ClientTypeOK
<1>1. ClientInv => ClientTypeOK
    BY DEF ClientInv
<1> QED BY <1>1, InvariantClientInv, PTL

\* For any calls, however late the server is and whatever it answers, no call of
\* a method takes effect twice (product_client.py:155-206).
THEOREM NeverReservedTwice == ClientSpec => []ReservedAtMostOnce
<1>1. ClientInv => ReservedAtMostOnce
    BY DEF ClientInv, OneAttempt, ReservedAtMostOnce
<1> QED BY <1>1, InvariantClientInv, PTL

\* For any calls, True means that the server did what was asked
\* (product_client.py:177-186).
THEOREM TrueMeansReserved == ClientSpec => []TrueIsReserved
<1>1. ClientInv => TrueIsReserved
    BY DEF ClientInv, YesIsReserved, TrueIsReserved
<1> QED BY <1>1, InvariantClientInv, PTL

\* Side by side the modules still do only what each of them may do alone, for any
\* of their requests: what is proved of one of them holds of the specification
\* that the runs check (product_service.py, product_client.py, payment_service.py,
\* category_service.py).
THEOREM RequestsAreIndependent ==
    Spec => CatalogSpec /\ ClientSpec /\ ApiSpec /\ CategorySpec
<1>1. Init => CatalogInit /\ ClientInit /\ ApiInit /\ CategoryInit
    BY DEF Init
<1>2. [Next]_vars => /\ [CatalogNext]_catalogVars /\ [ClientNext]_clientVars
                     /\ [ApiNext]_apiVars /\ [CategoryNext]_categoryVars
    BY StepOfEach
<1> QED
    BY <1>1, <1>2, PTL DEF Spec, CatalogSpec, ClientSpec, ApiSpec, CategorySpec

\* The state of every module keeps its types, for any requests, calls, payments
\* and categories (product_service.py, product_client.py, payment_service.py,
\* category_service.py).
THEOREM RequestsTypeCorrect == Spec => []RequestsTypeOK
<1>1. Spec => []CatalogTypeOK /\ []ClientTypeOK /\ []ApiTypeOK /\ []CategoriesTypeOK
    BY RequestsAreIndependent, CatalogTypeCorrect, ClientTypeCorrect, ApiTypeCorrect,
       CategoriesTypeCorrect
<1> QED BY <1>1, PTL DEF RequestsTypeOK
=============================================================================
