------------------------------ MODULE MCReplicas ------------------------------
(***************************************************************************)
(* Small instances of the modules with liveness properties, for TLC.  They *)
(* have no variable in common, so a behaviour of one of them shows all     *)
(* there is to see of it: `part` is the module that moves, under its own   *)
(* fairness, and the others stay as they are.                              *)
(***************************************************************************)
EXTENDS EventConsumer, UserDirectory, ServiceLifecycle, SearchIndex, TLC

CONSTANTS a, b, operator, cron

\* Two pods, of any two services or of one.
MCDeployments ==
    {(a :> "order" @@ b :> "order"), (a :> "payment" @@ b :> "payment"),
     (a :> "product" @@ b :> "product"), (a :> "user" @@ b :> "user"),
     (a :> "order" @@ b :> "payment"), (a :> "order" @@ b :> "product"),
     (a :> "order" @@ b :> "user"), (a :> "payment" @@ b :> "product"),
     (a :> "payment" @@ b :> "user"), (a :> "product" @@ b :> "user")}

\* The operator makes and fills the index; the others come from a timer and a
\* status page.
MCAsks == operator :> {"create", "full"} @@ cron :> {"incremental", "status"}

VARIABLE part

vars == <<part, consumerVars, userVars, lifecycleVars, searchVars>>

Init ==
    /\ part \in {"consumer", "users", "lifecycle", "search"}
    /\ ConsumerInit /\ UserInit /\ LifecycleInit /\ SearchInit
    /\ part # "lifecycle" => serviceOf = (a :> "order" @@ b :> "order") /\ ~ mysql /\ ~ kafka

Next ==
    /\ UNCHANGED part
    /\ \/ part = "consumer"  /\ ConsumerNext  /\ UNCHANGED <<userVars, lifecycleVars, searchVars>>
       \/ part = "users"     /\ UserNext      /\ UNCHANGED <<consumerVars, lifecycleVars, searchVars>>
       \/ part = "lifecycle" /\ LifecycleNext /\ UNCHANGED <<consumerVars, userVars, searchVars>>
       \/ part = "search"    /\ SearchNext    /\ UNCHANGED <<consumerVars, userVars, lifecycleVars>>

Moves(name, action) == part = name /\ action

\* ConsumerFairness, UserFairness, LifecycleFairness and SearchFairness, each for
\* the behaviours of its module.
Fairness ==
    /\ \A r \in Replicas :
         /\ WF_consumerVars(Moves("consumer", Start(r)))
         /\ WF_consumerVars(Moves("consumer", LoopStep(r)))
         /\ WF_consumerVars(Moves("consumer", loop[r] = "dead" /\ LeaveIdle(r)))
    /\ WF_consumerVars(Moves("consumer", \E f \in Assignments : Assign(f)))
    /\ \A s \in Secondaries : WF_userVars(Moves("users", ReplicateUsers(s)))
    /\ \A r \in Pods :
         /\ WF_lifecycleVars(Moves("lifecycle", StartupStep(r)))
         /\ WF_lifecycleVars(Moves("lifecycle", ServeGrpc(r)))
         /\ WF_lifecycleVars(Moves("lifecycle", Probe(r)))
         /\ WF_lifecycleVars(Moves("lifecycle", ShutDown(r)))
    /\ \A s \in Services : WF_lifecycleVars(Moves("lifecycle", ReplicateTable(s)))
    /\ \A q \in Products : WF_searchVars(Moves("search", Sync(q)))

Spec == Init /\ [][Next]_vars /\ Fairness

\* Every module's variables are of their types: kafka_consumer.py, user.py,
\* main.py and elasticsearch_service.py.
ReplicasTypeOK == TypeOK /\ UserTypeOK /\ LifecycleTypeOK /\ SearchTypeOK
=============================================================================
