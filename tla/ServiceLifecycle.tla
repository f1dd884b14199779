--------------------------- MODULE ServiceLifecycle ---------------------------
(***************************************************************************)
(* How the pods of the services start, stop and are probed: lifespan,      *)
(* safe_create_tables_if_not_exist and the two probes in the main.py of    *)
(* fastapi_order, fastapi_payment, fastapi_product and fastapi_user.       *)
(*                                                                         *)
(*   order    write -> kafka -> serving                                    *)
(*   payment  write -> read -> kafka -> serving                            *)
(*   product  write -> read -> es -> grpc -> kafka -> serving              *)
(*   user     grpc -> serving                                              *)
(*                                                                         *)
(* `write` and `read` look for the tables on the primary and on a          *)
(* secondary and create them if they are missing.  In order and payment a  *)
(* step that raises ends the process, which Kubernetes restarts; product   *)
(* logs the exception and goes on.                                         *)
(*                                                                         *)
(* One table stands for the tables of a service.  Consumers whose loop     *)
(* dies while the pod serves are the subject of EventConsumer.             *)
(***************************************************************************)
EXTENDS Naturals

CONSTANTS Pods,
          Deployments, \* the ways the pods can belong to services
          MaxOutages,  \* bound: outages of MySQL and Kafka
          MaxStops     \* bound: pods killed, drained or without a gRPC port

Services == {"order", "payment", "product", "user"}

ASSUME LifecycleAssumption ==
    Deployments \subseteq [Pods -> Services] /\ MaxOutages \in Nat /\ MaxStops \in Nat

VARIABLES serviceOf, \* serviceOf[r]: the service pod r belongs to, which never changes
          at,        \* at[r]: the step pod r is at
          primary,   \* services whose table the primary has
          secondary, \* services whose table the secondary has
          consumer,  \* consumer[r]: a consumer was started
          grpc,      \* grpc[r]: the task of the gRPC server
          routed,    \* routed[r]: the pod gets traffic
          mysql,     \* MySQL can be reached
          kafka,     \* Kafka can be reached
          outages, stops

pod == <<at, consumer, grpc>>
tables == <<primary, secondary>>
environment == <<serviceOf, mysql, kafka, outages, stops>>
lifecycleVars == <<pod, tables, routed, environment>>

Steps == {"down", "write", "create", "read", "es", "grpc", "kafka", "serving", "stopping"}

LifecycleTypeOK ==
    /\ serviceOf \in Deployments
    /\ at \in [Pods -> Steps]
    /\ primary \subseteq Services
    /\ secondary \subseteq primary
    /\ consumer \in [Pods -> BOOLEAN]
    /\ grpc \in [Pods -> {"off", "starting", "up", "dead"}]
    /\ routed \in [Pods -> BOOLEAN]
    /\ mysql \in BOOLEAN
    /\ kafka \in BOOLEAN
    /\ outages \in 0 .. MaxOutages
    /\ stops \in 0 .. MaxStops

LifecycleInit ==
    /\ serviceOf \in Deployments
    /\ at = [r \in Pods |-> "down"]
    /\ primary = {}
    /\ secondary = {}
    /\ consumer = [r \in Pods |-> FALSE]
    /\ grpc = [r \in Pods |-> "off"]
    /\ routed = [r \in Pods |-> FALSE]
    /\ mysql \in BOOLEAN
    /\ kafka \in BOOLEAN
    /\ outages = 0
    /\ stops = 0

-----------------------------------------------------------------------------
(* Startup *)

\* The step of lifespan after this one.
After(r) ==
    CASE at[r] \in {"write", "create"} -> IF serviceOf[r] = "order" THEN "kafka" ELSE "read"
      [] at[r] = "read"  -> IF serviceOf[r] = "product" THEN "es" ELSE "kafka"
      [] at[r] = "es"    -> "grpc"
      [] at[r] = "grpc"  -> IF serviceOf[r] = "product" THEN "kafka" ELSE "serving"
      [] at[r] = "kafka" -> "serving"

Continue(r) == at' = [at EXCEPT ![r] = After(r)] /\ UNCHANGED <<consumer, grpc>>

Exit(r) ==
    /\ at' = [at EXCEPT ![r] = "down"]
    /\ consumer' = [consumer EXCEPT ![r] = FALSE]
    /\ grpc' = [grpc EXCEPT ![r] = "off"]

\* Kubernetes starts the container, also after it ended.
StartPod(r) ==
    /\ at[r] = "down"
    /\ at' = [at EXCEPT ![r] = IF serviceOf[r] = "user" THEN "grpc" ELSE "write"]
    /\ UNCHANGED <<consumer, grpc, tables, routed, environment>>

\* The step raises.  Product skips the rest of its database setup.
Raise(r) ==
    IF serviceOf[r] # "product" THEN Exit(r)
    ELSE /\ at' = [at EXCEPT ![r] = IF at[r] = "kafka" THEN "serving" ELSE "es"]
         /\ UNCHANGED <<consumer, grpc>>

\* Mutant of LookForTables: no checkfirst.
LookForNoTables(r) ==
    /\ at[r] = "write"
    /\ IF mysql THEN at' = [at EXCEPT ![r] = "create"] /\ UNCHANGED <<consumer, grpc>>
                ELSE Raise(r)
    /\ UNCHANGED <<tables, routed, environment>>

\* Mutant of LookForTables: drop_all first.
LookAfterDrop(r) ==
    /\ at[r] = "write"
    /\ IF mysql THEN /\ at' = [at EXCEPT ![r] = "create"]
                     /\ primary' = primary \ {serviceOf[r]}
                     /\ secondary' = secondary \ {serviceOf[r]}
                     /\ UNCHANGED <<consumer, grpc>>
                ELSE Raise(r) /\ UNCHANGED tables
    /\ UNCHANGED <<routed, environment>>

\* create_all(checkfirst=True) on the primary looks for the table ...
LookForTables(r) ==
    /\ at[r] = "write"
    /\ IF ~ mysql THEN Raise(r)
       ELSE IF serviceOf[r] \in primary THEN Continue(r)
       ELSE at' = [at EXCEPT ![r] = "create"] /\ UNCHANGED <<consumer, grpc>>
    /\ UNCHANGED <<tables, routed, environment>>

\* Mutant of CreateTables: with the engine for reading.
CreateTablesOnReplica(r) ==
    /\ at[r] = "create"
    /\ IF mysql /\ serviceOf[r] \notin secondary
       THEN secondary' = secondary \cup {serviceOf[r]} /\ Continue(r)
       ELSE Raise(r) /\ UNCHANGED secondary
    /\ UNCHANGED <<primary, routed, environment>>

\* ... and creates it, unless another pod did so in the meantime.
CreateTables(r) ==
    /\ at[r] = "create"
    /\ IF mysql /\ serviceOf[r] \notin primary
       THEN primary' = primary \cup {serviceOf[r]} /\ Continue(r)
       ELSE Raise(r) /\ UNCHANGED primary
    /\ UNCHANGED <<secondary, routed, environment>>

\* The same on a secondary, which has no table to offer before it has
\* replicated it, and does not let anybody create one.
LookForReplica(r) ==
    /\ at[r] = "read"
    /\ IF mysql /\ serviceOf[r] \in secondary THEN Continue(r) ELSE Raise(r)
    /\ UNCHANGED <<tables, routed, environment>>

\* elasticsearch_config.get_client: its failure is logged.
ConnectElasticsearch(r) ==
    /\ at[r] = "es"
    /\ Continue(r)
    /\ UNCHANGED <<tables, routed, environment>>

\* The gRPC server is a task of its own, which nobody waits for ...
CreateGrpcTask(r) ==
    /\ at[r] = "grpc"
    /\ grpc' = [grpc EXCEPT ![r] = "starting"]
    /\ at' = [at EXCEPT ![r] = After(r)]
    /\ UNCHANGED <<consumer, tables, routed, environment>>

\* ... and in which an exception stays.
ServeGrpc(r) ==
    /\ grpc[r] = "starting"
    /\ \/ /\ grpc' = [grpc EXCEPT ![r] = "up"]
          /\ UNCHANGED stops
       \/ /\ stops < MaxStops
          /\ stops' = stops + 1
          /\ grpc' = [grpc EXCEPT ![r] = "dead"]
    /\ UNCHANGED <<at, consumer, tables, routed, serviceOf, mysql, kafka, outages>>

StartConsumer(r) ==
    /\ at[r] = "kafka"
    /\ IF kafka THEN /\ consumer' = [consumer EXCEPT ![r] = TRUE]
                     /\ at' = [at EXCEPT ![r] = After(r)]
                     /\ UNCHANGED grpc
                ELSE Raise(r)
    /\ UNCHANGED <<tables, routed, environment>>

-----------------------------------------------------------------------------
(* Probes and the end of a pod *)

\* Mutant of Ready: one of the two databases or the consumer is enough.
ReadyByAny(r) == at[r] = "serving" /\ (mysql \/ consumer[r])

\* The answer of /health/ready is 200.
Ready(r) ==
    /\ at[r] = "serving"
    /\ serviceOf[r] \in {"order", "payment"} => mysql
    /\ serviceOf[r] = "payment" => consumer[r]

\* The readiness probe of the kubelet, failing or succeeding often enough.
Probe(r) ==
    /\ routed[r] # Ready(r)
    /\ routed' = [routed EXCEPT ![r] = Ready(r)]
    /\ UNCHANGED <<pod, tables, environment>>

\* SIGTERM: the shutdown half of lifespan.
Terminate(r) ==
    /\ at[r] = "serving"
    /\ stops < MaxStops
    /\ stops' = stops + 1
    /\ at' = [at EXCEPT ![r] = "stopping"]
    /\ UNCHANGED <<consumer, grpc, tables, routed, serviceOf, mysql, kafka, outages>>

ShutDown(r) ==
    /\ at[r] = "stopping"
    /\ Exit(r)
    /\ UNCHANGED <<tables, routed, environment>>

\* The process is killed, or a startup takes longer than the liveness probe
\* (30 to 40 seconds) waits for an answer.
Kill(r) ==
    /\ at[r] # "down"
    /\ stops < MaxStops
    /\ stops' = stops + 1
    /\ Exit(r)
    /\ UNCHANGED <<tables, routed, serviceOf, mysql, kafka, outages>>

-----------------------------------------------------------------------------
(* MySQL and Kafka *)

ReplicateTable(s) ==
    /\ s \in primary \ secondary
    /\ mysql
    /\ secondary' = secondary \cup {s}
    /\ UNCHANGED <<pod, primary, routed, environment>>

Outage ==
    /\ outages < MaxOutages
    /\ outages' = outages + 1
    /\ \/ mysql /\ mysql' = FALSE /\ UNCHANGED kafka
       \/ kafka /\ kafka' = FALSE /\ UNCHANGED mysql
    /\ UNCHANGED <<pod, tables, routed, serviceOf, stops>>

Recover ==
    /\ \/ ~ mysql /\ mysql' = TRUE /\ UNCHANGED kafka
       \/ ~ kafka /\ kafka' = TRUE /\ UNCHANGED mysql
    /\ UNCHANGED <<pod, tables, routed, serviceOf, outages, stops>>

StartupStep(r) ==
    \/ StartPod(r) \/ LookForTables(r) \/ CreateTables(r) \/ LookForReplica(r)
    \/ ConnectElasticsearch(r) \/ CreateGrpcTask(r) \/ StartConsumer(r)

LifecycleNext ==
    \/ \E r \in Pods :
         \/ StartupStep(r) \/ ServeGrpc(r) \/ Probe(r)
         \/ Terminate(r) \/ ShutDown(r) \/ Kill(r)
    \/ \E s \in Services : ReplicateTable(s)
    \/ Outage \/ Recover

\* Coroutines, kubelets and the replication go on; outages need not end.
LifecycleFairness ==
    /\ \A r \in Pods : /\ WF_lifecycleVars(StartupStep(r)) /\ WF_lifecycleVars(ServeGrpc(r))
                       /\ WF_lifecycleVars(Probe(r)) /\ WF_lifecycleVars(ShutDown(r))
    /\ \A s \in Services : WF_lifecycleVars(ReplicateTable(s))

LifecycleSpec == LifecycleInit /\ [][LifecycleNext]_lifecycleVars /\ LifecycleFairness

-----------------------------------------------------------------------------
(* Properties *)

\* What a pod needs to do its part.
Wired(r) ==
    /\ serviceOf[r] # "user" => serviceOf[r] \in primary /\ consumer[r]
    /\ grpc[r] # "dead"

\* Pods that start at the same time on an empty database, before its replica
\* has the tables, or while MySQL or Kafka is away, disturb one another (payment
\* main.py:64-82, order main.py:72-75); once both are back every pod of order
\* and payment ends up serving, with tables and consumer.
EveryPodIsWired ==
    <>[](mysql /\ kafka) =>
        \A r \in Pods :
            <>[](serviceOf[r] \in {"order", "payment"} => at[r] = "serving" /\ Wired(r))

\* An outage of MySQL that does not end takes the pods of order and payment out
\* of traffic, those that serve as well as those that start (order main.py:161,
\* payment main.py:180).
OutageCutsTraffic ==
    <>[](~ mysql) =>
        \A r \in Pods : <>[](serviceOf[r] \in {"order", "payment"} => ~ routed[r])

\* A pod of order or payment serves only after every step of its startup went
\* well: whatever raced, failed or restarted, with its tables - payment also on
\* the secondary it reads from - and its consumer (order main.py:72-102, payment
\* main.py:66-83).
ServingPodsAreWired ==
    \A r \in Pods : (at[r] = "serving" /\ serviceOf[r] \in {"order", "payment"}) =>
        /\ serviceOf[r] \in primary /\ consumer[r]
        /\ serviceOf[r] = "payment" => serviceOf[r] \in secondary

\* Product goes on after a failed database setup (product main.py:100-110).  Of two
\* pods that race for the tables one fails harmlessly: without outage a pod that
\* serves has its tables.
RaceLeavesTables ==
    []mysql => [](\A r \in Pods :
        (at[r] = "serving" /\ serviceOf[r] = "product") => "product" \in primary)
=============================================================================
