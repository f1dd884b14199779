------------------------------ MODULE GrpcClient ------------------------------
(***************************************************************************)
(* The order service's gRPC clients, ProductClient and UserClient          *)
(* (fastapi_order/app/grpc/product_client.py, user_client.py): one call of *)
(* a decorated method.  The decorators are                                 *)
(*                                                                         *)
(*     @circuit(failure_threshold, expected_exception)                     *)
(*     @retry(stop_after_attempt, retry_if_exception_type)                 *)
(*     async def method: try: stub call ... except: convert the error      *)
(*                                                                         *)
(* and look at what leaves the method's body, after its except clauses.    *)
(* circuitbreaker, tenacity and grpc are external and modelled from how    *)
(* the clients use them: a request the client has given up on may still be *)
(* carried out by the server, once.  An open circuit is never closed in    *)
(* the model, since none opens.                                            *)
(***************************************************************************)
EXTENDS Naturals, FiniteSets

Methods == {"get_user", "get_product", "check_and_reserve_inventory"}

CONSTANTS Calls,      \* calls made by create_order
          MethodOf    \* MethodOf[c]

ASSUME MethodAssumption == MethodOf \in [Calls -> Methods]

\* failure_threshold and stop_after_attempt of each method's decorators.
Threshold == [m \in Methods |-> IF m = "get_user" THEN 5 ELSE 3]
Attempts  == [m \in Methods |-> IF m = "check_and_reserve_inventory" THEN 2 ELSE 3]

\* expected_exception and retry_if_exception_type.
Expected == {"RpcError", "ConnectionError", "TimeoutError"}

VARIABLES call,      \* call[c]: [stage, tries]
          wire,      \* wire[c]: attempts of c the server has not carried out
          effects,   \* effects[c]: how often the server did what c asks for
          reply,     \* reply[c]: the server's answer to the attempt c waits for
          breaker,   \* breaker[m]: [failures, open], one per method and process
          outage     \* history: attempts of m that failed since one was answered

clientVars == <<call, wire, effects, reply, breaker, outage>>

CallStage == {"new", "waiting", "yes", "no", "error"}

ClientTypeOK ==
    /\ call \in [Calls -> [stage : CallStage, tries : Nat]]
    /\ wire \in [Calls -> SUBSET Nat]
    /\ \A c \in Calls : /\ call[c].tries <= Attempts[MethodOf[c]]
                        /\ wire[c] \subseteq 1 .. call[c].tries
    /\ effects \in [Calls -> Nat]
    /\ reply \in [Calls -> {"none", "yes", "no"}]
    /\ breaker \in [Methods -> [failures : Nat, open : BOOLEAN]]
    /\ outage \in [Methods -> Nat]

ClientInit ==
    /\ call = [c \in Calls |-> [stage |-> "new", tries |-> 0]]
    /\ wire = [c \in Calls |-> {}]
    /\ effects = [c \in Calls |-> 0]
    /\ reply = [c \in Calls |-> "none"]
    /\ breaker = [m \in Methods |-> [failures |-> 0, open |-> FALSE]]
    /\ outage = [m \in Methods |-> 0]

-----------------------------------------------------------------------------
\* The next attempt of c leaves for the server.
Send(c) ==
    LET n == call[c].tries + 1
    IN  /\ call' = [call EXCEPT ![c] = [stage |-> "waiting", tries |-> n]]
        /\ wire' = [wire EXCEPT ![c] = @ \cup {n}]
        /\ reply' = [reply EXCEPT ![c] = "none"]

\* c is over: its caller sees this outcome.
Answer(c, outcome) ==
    /\ call' = [call EXCEPT ![c].stage = outcome]
    /\ UNCHANGED wire

\* Mutant of Invoke: the caller asks again after an error.
InvokeAgain(c) ==
    /\ call[c].stage \in {"new", "error"}
    /\ Send(c)
    /\ UNCHANGED <<effects, breaker, outage>>

\* The caller enters the method: through the closed circuit to the server.
Invoke(c) ==
    /\ call[c].stage = "new"
    /\ ~breaker[MethodOf[c]].open
    /\ Send(c)
    /\ UNCHANGED <<effects, breaker, outage>>

\* What the server may do and answer: it is done, it is refused, or it is done
\* and answered False because a later step of the handler failed.
Service == {[done |-> 1, answer |-> "yes"], [done |-> 0, answer |-> "no"],
            [done |-> 1, answer |-> "no"]}

\* The server carries out an attempt, in time or late.
Serve(c, n) ==
    /\ n \in wire[c]
    /\ wire' = [wire EXCEPT ![c] = @ \ {n}]
    /\ \E s \in Service :
          /\ effects' = [effects EXCEPT ![c] = @ + s.done]
          /\ reply' = [reply EXCEPT ![c] =
                 IF call[c] = [stage |-> "waiting", tries |-> n] THEN s.answer ELSE @]
    /\ UNCHANGED <<call, breaker, outage>>

\* The circuit counts a call that ended with this exception (or none).
Count(m, raised) ==
    breaker' = [breaker EXCEPT ![m] =
        IF raised \in Expected
        THEN [failures |-> @.failures + 1, open |-> @.failures + 1 >= Threshold[m]]
        ELSE [failures |-> 0, open |-> FALSE]]

\* Mutant of Converted: the error is raised as it came.
ConvertedNot(m, error) == error

\* What leaves the method's body for an error of the stub: the lookups raise an
\* HTTPException, the reservation returns (False, message).
Converted(m, error) ==
    IF m = "check_and_reserve_inventory" THEN "none" ELSE "HTTPException"

\* An error leaves the stub call: the decorators see the converted one.
Fail(c, error) ==
    LET m == MethodOf[c]
        raised == Converted(m, error)
    IN  IF raised \in Expected /\ call[c].tries < Attempts[m]
        THEN Send(c) /\ UNCHANGED breaker
        ELSE Answer(c, "error") /\ Count(m, raised) /\ UNCHANGED reply

\* The stub call ends without an answer: unreachable, or the deadline of
\* default_timeout has passed.
AttemptFails(c) ==
    /\ call[c].stage = "waiting"
    /\ \E error \in Expected : Fail(c, error)
    /\ outage' = [outage EXCEPT ![MethodOf[c]] = @ + 1]
    /\ UNCHANGED effects

\* Mutant of Receive: the answer is taken for a success without a look at it.
ReceiveUnchecked(c) ==
    /\ call[c].stage = "waiting"
    /\ reply[c] # "none"
    /\ Answer(c, "yes")
    /\ Count(MethodOf[c], "none")
    /\ outage' = [outage EXCEPT ![MethodOf[c]] = 0]
    /\ UNCHANGED <<effects, reply>>

\* The server's answer arrives; a refusal of a lookup is an HTTPException, and a
\* refusal that comes with a status code is converted like any other error.
Receive(c) ==
    /\ call[c].stage = "waiting"
    /\ reply[c] # "none"
    /\ Answer(c, reply[c])
    /\ Count(MethodOf[c], IF reply[c] = "yes" THEN "none" ELSE Converted(MethodOf[c], "none"))
    /\ outage' = [outage EXCEPT ![MethodOf[c]] = 0]
    /\ UNCHANGED <<effects, reply>>

ClientNext ==
    \E c \in Calls :
        \/ Invoke(c) \/ AttemptFails(c) \/ Receive(c)
        \/ \E n \in wire[c] : Serve(c, n)

ClientSpec == ClientInit /\ [][ClientNext]_clientVars

-----------------------------------------------------------------------------
\* CheckAndReserveInventory is not idempotent: no call of it, whatever its
\* outcome, reserves more than once (product_client.py:155-206).
ReservedAtMostOnce == \A c \in Calls : effects[c] <= 1

\* A call is answered True only when the server did what it asks for
\* (product_client.py:177-186).
TrueIsReserved == \A c \in Calls : call[c].stage = "yes" => effects[c] > 0

\* README.md:465: Retry, Timeout and Circuit Breaker are applied at the code
\* level so that the failure of one service does not spread.  After
\* failure_threshold failed attempts in a row the circuit is open
\* (product_client.py:96, 135-142, 192-206).
OutageOpensCircuit ==
    \A m \in Methods : outage[m] >= Threshold[m] => breaker[m].open
=============================================================================
