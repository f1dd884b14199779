---------------------------- MODULE Replicas_proofs ----------------------------
(***************************************************************************)
(* Proofs about EventConsumer, UserDirectory and ServiceLifecycle, for any *)
(* replicas, partitions, clients, secondaries and pods and any number of   *)
(* events, crashes and outages, and about MCReplicas, which puts them side *)
(* by side with SearchIndex.                                               *)
(*                                                                         *)
(* Consumers.  An offset is stored by Commit alone, which takes the        *)
(* positions of every partition assigned to the caller, whatever event the *)
(* caller has just handled: also one it fetched before the last rebalance. *)
(* What makes this safe is that a position is as good as a stored offset   *)
(* whenever its owner handles nothing (PositionsAreEarned): a reset puts   *)
(* it where everything below is finished or missed, and from there a fetch *)
(* moves it past one event, which the same loop then finishes before it    *)
(* commits or fetches again.  InStep says the same of the distance.        *)
(*                                                                         *)
(* Users.  A registration is about a document of its client from the       *)
(* insert on, and the majority that acknowledged it only grows (ToldIsHeld,*)
(* HoldersStay).                                                           *)
(*                                                                         *)
(* Pods.  What a step of a startup needs is what the steps before it have  *)
(* made (StartupIsEarned); product, which goes on after a failure, fails   *)
(* without an outage only when another pod made its table (RaceIsHarmless).*)
(***************************************************************************)
EXTENDS MCReplicas, SearchIndex_proofs, FiniteSetTheorems, TLAPS

(* Consumers *)

\* A loop that works has an event to work on.
WorksOnEvent ==
    \A r \in Replicas : loop[r] \in {"handling", "committing"} => current[r] \in Events

\* Below the position of an owner everything is finished or missed, but for the
\* event it is handling.
PositionsAreEarned ==
    \A r \in Replicas, p \in Partitions : owner[p] = r =>
        \A i \in 0 .. position[r][p] - 1 :
            \/ <<p, i>> \in finished \cup missed
            \/ loop[r] = "handling" /\ current[r] = <<p, i>>

\* An owner that polls stands at the stored offset, another one event further.
InStep ==
    \A r \in Replicas, p \in Partitions :
        (owner[p] = r /\ committed[p] # Unset) =>
            /\ position[r][p] <= committed[p] + 1
            /\ loop[r] = "polling" => position[r][p] <= committed[p]

ConsumerInv == TypeOK /\ WorksOnEvent /\ PositionsAreEarned /\ InStep /\ CommitsOnlyFinished

-----------------------------------------------------------------------------
LEMMA ConsumerBounds == MaxEvents \in Nat /\ MaxUpsets \in Nat
  BY BoundsAssumption

\* A position a new owner takes over is one of the log's, or its end.
LEMMA ResetPositionType ==
    ASSUME TypeOK, NEW p \in Partitions
    PROVE  ResetPosition(p) \in 0 .. MaxEvents
  BY DEF TypeOK, ResetPosition, Unset

LEMMA InitConsumerInv == ConsumerInit => ConsumerInv
<1> SUFFICES ASSUME ConsumerInit PROVE ConsumerInv
    OBVIOUS
<1>1. TypeOK
  <2>1. 0 \in 0 .. MaxEvents /\ 0 \in 0 .. MaxUpsets
      BY ConsumerBounds
  <2> QED
      BY <2>1 DEF ConsumerInit, TypeOK, Stage
<1>2. WorksOnEvent /\ PositionsAreEarned /\ InStep
    BY NoOwnerAssumption DEF ConsumerInit, WorksOnEvent, PositionsAreEarned, InStep
<1>3. CommitsOnlyFinished
    BY DEF ConsumerInit, CommitsOnlyFinished, Unset
<1> QED
    BY <1>1, <1>2, <1>3 DEF ConsumerInv

\* While the group has no assignment, nothing is asked of positions.
LEMMA NoOwnerNoDuty ==
    ASSUME VoidAssignment
    PROVE  PositionsAreEarned' /\ InStep'
  BY NoOwnerAssumption DEF VoidAssignment, PositionsAreEarned, InStep

\* The steps that end an assignment or leave the group without one: they move
\* no offset and finish no event.
LEMMA VoidingStep ==
    ASSUME ConsumerInv, VoidAssignment, UNCHANGED <<log, committed, position, finished, missed>>,
           member' \in SUBSET Replicas, upsets' \in 0 .. MaxUpsets,
           loop' \in [Replicas -> Stage], current' \in [Replicas -> Events \cup {NoEvent}],
           WorksOnEvent'
    PROVE  ConsumerInv'
<1>1. TypeOK'
    BY DEF ConsumerInv, TypeOK, VoidAssignment
<1>2. CommitsOnlyFinished'
    BY DEF ConsumerInv, CommitsOnlyFinished
<1> QED
    BY <1>1, <1>2, NoOwnerNoDuty DEF ConsumerInv

LEMMA NextConsumerInv == ConsumerInv /\ [ConsumerNext]_consumerVars => ConsumerInv'
<1> SUFFICES ASSUME ConsumerInv, [ConsumerNext]_consumerVars PROVE ConsumerInv'
    OBVIOUS
<1> USE ConsumerBounds DEF ConsumerInv
<1>1. ASSUME NEW p \in Partitions, Publish(p) PROVE ConsumerInv'
  <2>1. TypeOK'
      BY <1>1 DEF Publish, TypeOK, groupVars, loopVars
  <2> QED
      BY <1>1, <2>1 DEF Publish, groupVars, loopVars, WorksOnEvent, PositionsAreEarned,
                        InStep, CommitsOnlyFinished
<1>2. ASSUME NEW r \in Replicas, Start(r) PROVE ConsumerInv'
  <2>1. loop' \in [Replicas -> Stage] /\ member' \in SUBSET Replicas
      BY <1>2 DEF Start, Goto, TypeOK, Stage
  <2>2. WorksOnEvent'
      BY <1>2 DEF Start, Goto, TypeOK, WorksOnEvent
  <2> QED
      BY <1>2, <2>1, <2>2, VoidingStep DEF Start, TypeOK
<1>3. ASSUME NEW r \in Replicas, NEW p \in Partitions, Fetch(r, p) PROVE ConsumerInv'
  <2> USE <1>3 DEF Fetch, Goto, groupVars
  <2>1. position[r][p] \in 0 .. MaxEvents - 1 /\ <<p, position[r][p]>> \in Events
      BY DEF TypeOK, Events
  <2>2. TypeOK'
      BY <2>1 DEF TypeOK, Stage
  <2>3. WorksOnEvent'
      BY <2>1 DEF TypeOK, WorksOnEvent
  <2>4. PositionsAreEarned'
      BY <2>1 DEF TypeOK, PositionsAreEarned
  <2>5. InStep'
      BY <2>1 DEF TypeOK, InStep, Unset
  <2> QED
      BY <2>2, <2>3, <2>4, <2>5 DEF CommitsOnlyFinished
<1>4. ASSUME NEW r \in Replicas, Handle(r) PROVE ConsumerInv'
  <2> USE <1>4 DEF Handle, Goto, groupVars
  <2>1. TypeOK' /\ WorksOnEvent'
      BY DEF TypeOK, WorksOnEvent, Stage
  <2>2. PositionsAreEarned'
      BY DEF TypeOK, PositionsAreEarned
  <2> QED
      BY <2>1, <2>2 DEF TypeOK, InStep, CommitsOnlyFinished
<1>5. ASSUME NEW r \in Replicas, Commit(r) PROVE ConsumerInv'
  <2> USE <1>5 DEF Commit, Goto
  <2>1. TypeOK' /\ WorksOnEvent'
      BY DEF TypeOK, WorksOnEvent, Stage
  <2>2. PositionsAreEarned'
      BY DEF TypeOK, PositionsAreEarned
  <2>3. InStep'
      BY DEF TypeOK, InStep
  <2>4. CommitsOnlyFinished'
      BY DEF PositionsAreEarned, CommitsOnlyFinished
  <2> QED
      BY <2>1, <2>2, <2>3, <2>4
<1>6. ASSUME NEW r \in Replicas, CommitRaises(r) PROVE ConsumerInv'
  <2> USE <1>6 DEF CommitRaises, Goto, groupVars
  <2>1. TypeOK' /\ WorksOnEvent'
      BY DEF TypeOK, WorksOnEvent, Stage
  <2>2. PositionsAreEarned' /\ InStep'
      BY DEF TypeOK, PositionsAreEarned, InStep
  <2> QED
      BY <2>1, <2>2 DEF CommitsOnlyFinished
<1>7. ASSUME NEW r \in Replicas, LeaveIdle(r) PROVE ConsumerInv'
  <2>1. upsets' \in 0 .. MaxUpsets /\ member' \in SUBSET Replicas
      BY <1>7 DEF LeaveIdle, TypeOK
  <2>2. WorksOnEvent'
      BY <1>7 DEF LeaveIdle, loopVars, WorksOnEvent
  <2> QED
      BY <1>7, <2>1, <2>2, VoidingStep DEF LeaveIdle, loopVars, TypeOK
<1>8. ASSUME NEW r \in Replicas, Crash(r) PROVE ConsumerInv'
  <2>1. /\ upsets' \in 0 .. MaxUpsets /\ member' \in SUBSET Replicas
        /\ loop' \in [Replicas -> Stage] /\ current' \in [Replicas -> Events \cup {NoEvent}]
      BY <1>8 DEF Crash, Goto, TypeOK, Stage
  <2>2. WorksOnEvent'
      BY <1>8 DEF Crash, Goto, TypeOK, WorksOnEvent
  <2> QED
      BY <1>8, <2>1, <2>2, VoidingStep DEF Crash
<1>9. ASSUME Rebalance PROVE ConsumerInv'
  <2>1. upsets' \in 0 .. MaxUpsets
      BY <1>9 DEF Rebalance, TypeOK
  <2>2. WorksOnEvent'
      BY <1>9 DEF Rebalance, loopVars, WorksOnEvent
  <2> QED
      BY <1>9, <2>1, <2>2, VoidingStep DEF Rebalance, loopVars, TypeOK
<1>10. ASSUME NEW f \in Assignments, Assign(f) PROVE ConsumerInv'
  <2> USE <1>10 DEF Assign, Assignments
  <2>1. \A p \in Partitions : ResetPosition(p) \in 0 .. MaxEvents
      BY ResetPositionType
  <2>2. TypeOK'
    <3>1. position' \in [Replicas -> [Partitions -> 0 .. MaxEvents]]
        BY <2>1
    <3>2. owner' \in [Partitions -> Replicas \cup {NoOwner}] /\ missed' \in SUBSET Events
        BY DEF TypeOK
    <3> QED BY <3>1, <3>2 DEF TypeOK
  <2>3. PositionsAreEarned'
    <3>1. SUFFICES ASSUME NEW r \in Replicas, NEW p \in Partitions, f[p] = r,
                          NEW i \in 0 .. ResetPosition(p) - 1
                   PROVE  <<p, i>> \in finished' \cup missed'
        BY DEF PositionsAreEarned
    <3>2. <<p, i>> \in Events
        BY <2>1 DEF Events
    <3>3. <<p, i>>[2] < ResetPosition(<<p, i>>[1])
        BY <2>1
    <3> QED BY <3>2, <3>3
  <2>4. InStep'
      BY <2>1 DEF InStep, TypeOK, ResetPosition
  <2> QED
      BY <2>2, <2>3, <2>4 DEF WorksOnEvent, CommitsOnlyFinished
<1>11. CASE UNCHANGED consumerVars
    BY <1>11 DEF consumerVars, groupVars, loopVars, TypeOK, WorksOnEvent,
                 PositionsAreEarned, InStep, CommitsOnlyFinished
<1> QED
    BY <1>1, <1>2, <1>3, <1>4, <1>5, <1>6, <1>7, <1>8, <1>9, <1>10, <1>11
       DEF ConsumerNext, LoopStep

LEMMA InvariantConsumerInv == ConsumerSpec => []ConsumerInv
  BY InitConsumerInv, NextConsumerInv, PTL DEF ConsumerSpec

-----------------------------------------------------------------------------
(* Users *)

\* A registration that waits for its acknowledgement, or has it, is about a
\* document of its client.
UserIsInserted ==
    \A k \in Clients : post[k].at \in {"ack", "created"} =>
        post[k].user \in 1 .. Len(users) /\ users[post[k].user] = k

\* A client is told its id when a majority of the members has the document.
ToldIsHeld ==
    \A k \in Clients : post[k].at = "created" =>
        2 * Holders(post[k].user) > Cardinality(Secondaries) + 1

UserInv == UserTypeOK /\ Len(users) <= MaxUsers /\ UserIsInserted /\ ToldIsHeld

LEMMA InitUserInv == UserInit => UserInv
<1> SUFFICES ASSUME UserInit PROVE UserInv
    OBVIOUS
<1>1. Len(users) = 0 /\ users \in Seq(Clients)
    BY DEF UserInit
<1>2. 0 \in 0 .. MaxUsers /\ 0 \in 0 .. MaxFaults /\ 0 \in 0 .. Len(users)
    BY <1>1, UserAssumption
<1>3. UserTypeOK
    BY <1>1, <1>2 DEF UserInit, UserTypeOK
<1> QED BY <1>1, <1>3, UserAssumption DEF UserInit, UserInv, UserIsInserted, ToldIsHeld

\* A document no member loses has no fewer holders later.
LEMMA HoldersStay ==
    ASSUME NEW u \in Nat, applied \in [Secondaries -> Nat], applied' \in [Secondaries -> Nat],
           \A s \in Secondaries : applied[s] <= applied'[s]
    PROVE  Holders(u) <= Holders(u)' /\ Holders(u) \in Nat /\ Holders(u)' \in Nat
<1> DEFINE S == {s \in Secondaries : applied[s] >= u}
           T == {s \in Secondaries : applied'[s] >= u}
<1>1. S \subseteq T /\ T \subseteq Secondaries
    OBVIOUS
<1>2. Holders(u) = 1 + Cardinality(S) /\ Holders(u)' = 1 + Cardinality(T)
    BY DEF Holders
<1> HIDE DEF S, T
<1>3. IsFiniteSet(T) /\ IsFiniteSet(S)
    BY <1>1, UserAssumption, FS_Subset
<1>4. Cardinality(S) <= Cardinality(T) /\ Cardinality(S) \in Nat /\ Cardinality(T) \in Nat
    BY <1>1, <1>3, FS_Subset, FS_CardinalityType
<1> QED BY <1>2, <1>4

\* Nothing is taken away: documents, and what a secondary has applied.
LEMMA UsersOnlyGrow ==
    ASSUME UserInv, [UserNext]_userVars
    PROVE  /\ users' \in Seq(Clients) /\ Len(users) <= Len(users') /\ Len(users') <= MaxUsers
           /\ \A u \in 1 .. Len(users) : users'[u] = users[u]
           /\ applied' \in [Secondaries -> 0 .. Len(users')]
           /\ \A s \in Secondaries : applied[s] <= applied'[s]
<1> USE DEF UserInv, UserTypeOK
<1>0. Len(users) \in Nat /\ MaxUsers \in Nat
    BY UserAssumption
<1>1. ASSUME NEW k \in Clients, InsertUser(k)
      PROVE  /\ users' \in Seq(Clients) /\ Len(users') = Len(users) + 1 /\ Len(users') <= MaxUsers
             /\ \A u \in 1 .. Len(users) : users'[u] = users[u]
             /\ applied' = applied
    BY <1>0, <1>1 DEF InsertUser
<1>2. ASSUME NEW s \in Secondaries, ReplicateUsers(s)
      PROVE  /\ users' = users
             /\ applied' \in [Secondaries -> 0 .. Len(users)]
             /\ \A t \in Secondaries : applied[t] <= applied'[t]
    BY <1>0, <1>2 DEF ReplicateUsers
<1>3. CASE UNCHANGED <<users, applied>>
    BY <1>0, <1>3
<1>4. \/ UNCHANGED <<users, applied>>
      \/ \E k \in Clients : InsertUser(k)
      \/ \E s \in Secondaries : ReplicateUsers(s)
    BY DEF UserNext, userVars, Post, ListCollections, CreateCollection, Acknowledge, PostFails, Lookup
<1>5. ASSUME NEW k \in Clients, InsertUser(k) PROVE \A s \in Secondaries : applied[s] \in 0 .. Len(users)'
    BY <1>0, <1>1, <1>5
<1> QED BY <1>0, <1>1, <1>2, <1>3, <1>4, <1>5

\* The steps that change the registration of a client.
LEMMA PostMoves ==
    ASSUME UserInv, [UserNext]_userVars, NEW k \in Clients
    PROVE  \/ post'[k] = post[k]
           \/ post'[k].at \notin {"ack", "created"}
           \/ InsertUser(k) \/ Acknowledge(k)
<1> DEFINE Registration == [at : {"idle", "list", "create", "insert", "ack", "created", "failed"},
                            user : 0 .. MaxUsers]
<1>1. post \in [Clients -> Registration]
    BY DEF UserInv, UserTypeOK
<1>2. ASSUME NEW d \in Clients, NEW stage, PostTo(d, stage), stage \notin {"ack", "created"}
      PROVE  post'[k] = post[k] \/ post'[k].at \notin {"ack", "created"}
    BY <1>1, <1>2 DEF PostTo
<1>3. ASSUME NEW d \in Clients, d # k, InsertUser(d) \/ Acknowledge(d) PROVE post'[k] = post[k]
    BY <1>1, <1>3 DEF InsertUser, Acknowledge, PostTo
<1>4. \/ UNCHANGED post
      \/ \E d \in Clients : \/ InsertUser(d) \/ Acknowledge(d)
                            \/ \E stage \in {"list", "create", "insert", "failed"} : PostTo(d, stage)
    BY DEF UserNext, userVars, Post, ListCollections, CreateCollection, PostFails, Lookup,
           ReplicateUsers
<1> HIDE DEF Registration
<1> QED BY <1>2, <1>3, <1>4

LEMMA NextUserInv == UserInv /\ [UserNext]_userVars => UserInv'
<1> SUFFICES ASSUME UserInv, [UserNext]_userVars PROVE UserInv'
    OBVIOUS
<1>0. Len(users) \in Nat /\ Len(users') \in Nat /\ MaxUsers \in Nat /\ MaxFaults \in Nat
    BY UsersOnlyGrow, UserAssumption DEF UserInv, UserTypeOK
<1>1. ASSUME NEW k \in Clients, InsertUser(k)
      PROVE  /\ post'[k] = [at |-> "ack", user |-> Len(users')]
             /\ Len(users') = Len(users) + 1 /\ users'[Len(users')] = k
             /\ Len(users') \in 0 .. MaxUsers
  <2>1. users \in Seq(Clients) /\ users' = Append(users, k)
      BY <1>1 DEF InsertUser, UserInv, UserTypeOK
  <2>2. Len(users') = Len(users) + 1 /\ users'[Len(users) + 1] = k
      BY <2>1
  <2>3. post'[k] = [at |-> "ack", user |-> Len(users) + 1]
      BY <1>1 DEF InsertUser, UserInv, UserTypeOK
  <2> QED BY <1>0, <1>1, <2>2, <2>3 DEF InsertUser
<1>2. ASSUME NEW k \in Clients, Acknowledge(k)
      PROVE  /\ post[k].at = "ack" /\ post'[k] = [at |-> "created", user |-> post[k].user]
             /\ 2 * Holders(post[k].user) > Cardinality(Secondaries) + 1
    BY <1>2 DEF Acknowledge, PostTo, UserInv, UserTypeOK
<1>3. UserTypeOK'
  <2>1. users' \in Seq(Clients) /\ applied' \in [Secondaries -> 0 .. Len(users')]
      BY UsersOnlyGrow
  <2>2. collection' \in BOOLEAN /\ faults' \in 0 .. MaxFaults
    <3>1. collection' \in {collection, TRUE}
        BY DEF UserNext, userVars, Post, ListCollections, CreateCollection, InsertUser, Acknowledge,
           PostFails, Lookup, ReplicateUsers
    <3>2. faults' = faults \/ (faults' = faults + 1 /\ faults < MaxFaults)
        BY DEF UserNext, userVars, Post, ListCollections, CreateCollection, InsertUser, Acknowledge,
           PostFails, Lookup, ReplicateUsers
    <3>3. collection \in BOOLEAN /\ faults \in 0 .. MaxFaults
        BY DEF UserInv, UserTypeOK
    <3>4. faults' \in 0 .. MaxFaults
        BY <1>0, <3>2, <3>3
    <3> QED BY <3>1, <3>3, <3>4
  <2>3. answer' \in [Clients -> [Channels -> {"none", "200", "400", "404", "500"}]]
    <3>1. ASSUME NEW k \in Clients, NEW ch \in Channels, Lookup(k, ch)
          PROVE  answer' \in [Clients -> [Channels -> {"none", "200", "400", "404", "500"}]]
      <4>1. PICK result \in {"user", "none", "raise"} :
                answer' = [answer EXCEPT ![k][ch] = Told(ch, result)]
          BY <3>1 DEF Lookup, Find, FindById, FindByName
      <4>2. Told(ch, result) \in {"200", "400", "404", "500"}
          BY <4>1 DEF Told, ValidateUser, GetUser, Respond
      <4> QED BY <4>1, <4>2 DEF UserInv, UserTypeOK
    <3>2. UNCHANGED answer \/ \E k \in Clients, ch \in Channels : Lookup(k, ch)
        BY DEF UserNext, userVars, Post, ListCollections, CreateCollection, InsertUser, Acknowledge,
           PostFails, ReplicateUsers
    <3> QED BY <3>1, <3>2 DEF UserInv, UserTypeOK
  <2>4. post' \in [Clients -> [at : {"idle", "list", "create", "insert", "ack", "created", "failed"},
                               user : 0 .. MaxUsers]]
    <3>1. ASSUME NEW k \in Clients, NEW stage, PostTo(k, stage),
                 stage \in {"list", "create", "insert", "created", "failed"}
          PROVE  post' \in [Clients -> [at : {"idle", "list", "create", "insert", "ack", "created",
                                              "failed"}, user : 0 .. MaxUsers]]
        BY <3>1 DEF PostTo, UserInv, UserTypeOK
    <3>2. \/ UNCHANGED post
          \/ \E k \in Clients :
                \/ InsertUser(k)
                \/ \E stage \in {"list", "create", "insert", "created", "failed"} : PostTo(k, stage)
        BY DEF UserNext, userVars, Post, ListCollections, CreateCollection, Acknowledge, PostFails,
           Lookup, ReplicateUsers
    <3>3. ASSUME NEW k \in Clients, InsertUser(k)
          PROVE  post' \in [Clients -> [at : {"idle", "list", "create", "insert", "ack", "created",
                                              "failed"}, user : 0 .. MaxUsers]]
      <4>1. Len(users) + 1 \in 0 .. MaxUsers
          BY <1>0, <3>3 DEF InsertUser
      <4> QED BY <3>3, <4>1 DEF InsertUser, UserInv, UserTypeOK
    <3> QED BY <3>1, <3>2, <3>3 DEF UserInv, UserTypeOK
  <2> QED BY <2>1, <2>2, <2>3, <2>4 DEF UserTypeOK
\* A registration that is at its acknowledgement, or past it, was so before with
\* the same document, or has just inserted it.
<1>4. ASSUME NEW k \in Clients, post'[k].at \in {"ack", "created"}
      PROVE  \/ InsertUser(k)
             \/ /\ post[k].at \in {"ack", "created"} /\ post'[k].user = post[k].user
                /\ post'[k].at = "created" =>
                       2 * Holders(post[k].user) > Cardinality(Secondaries) + 1
  <2>1. CASE post'[k] = post[k]
      BY <1>4, <2>1 DEF UserInv, ToldIsHeld
  <2>2. CASE Acknowledge(k)
    <3>1. post'[k] = [at |-> "created", user |-> post[k].user] /\ post[k].at = "ack"
          /\ 2 * Holders(post[k].user) > Cardinality(Secondaries) + 1
        BY <1>2, <2>2
    <3> DEFINE u == post[k].user
    <3>2. post'[k].user = u
        BY <3>1
    <3> QED BY <3>1, <3>2
  <2> QED BY <1>4, <2>1, <2>2, PostMoves
<1>5. UserIsInserted'
  <2> SUFFICES ASSUME NEW k \in Clients, post'[k].at \in {"ack", "created"}
               PROVE  post'[k].user \in 1 .. Len(users') /\ users'[post'[k].user] = k
      BY DEF UserIsInserted
  <2>1. CASE InsertUser(k)
    <3>1. post'[k].user = Len(users') /\ Len(users') \in 1 .. Len(users') /\ users'[Len(users')] = k
        BY <1>0, <1>1, <2>1
    <3> QED BY <3>1
  <2>2. CASE post'[k].user = post[k].user /\ post[k].at \in {"ack", "created"}
    <3>1. post[k].user \in 1 .. Len(users) /\ users[post[k].user] = k
        BY <2>2 DEF UserInv, UserIsInserted
    <3>2. post[k].user \in 1 .. Len(users') /\ users'[post[k].user] = k
        BY <1>0, <3>1, UsersOnlyGrow
    <3> QED BY <2>2, <3>2
  <2> QED BY <1>4, <2>1, <2>2
<1>6. ToldIsHeld'
  <2> SUFFICES ASSUME NEW k \in Clients, post'[k].at = "created"
               PROVE  (2 * Holders(post[k].user) > Cardinality(Secondaries) + 1)'
      BY DEF ToldIsHeld
  <2>1. ~ InsertUser(k)
      BY <1>1
  <2>2. /\ post'[k].user = post[k].user /\ post[k].at \in {"ack", "created"}
        /\ 2 * Holders(post[k].user) > Cardinality(Secondaries) + 1
      BY <1>4, <2>1
  <2>3. PICK u \in Nat : u = post[k].user
      BY <1>0, <2>2 DEF UserInv, UserIsInserted
  <2>4. Holders(u) <= Holders(u)' /\ Holders(u) \in Nat /\ Holders(u)' \in Nat
    <3>1. applied \in [Secondaries -> Nat] /\ applied' \in [Secondaries -> Nat]
        BY <1>0, UsersOnlyGrow DEF UserInv, UserTypeOK
    <3> QED BY <3>1, HoldersStay, UsersOnlyGrow
  <2>5. Holders(post[k].user)' = Holders(u)' /\ Holders(post[k].user) = Holders(u)
      BY <2>2, <2>3 DEF Holders
  <2>6. Cardinality(Secondaries) \in Nat
      BY UserAssumption, FS_CardinalityType
  <2>7. 2 * Holders(u)' > Cardinality(Secondaries) + 1
      BY <2>2, <2>4, <2>5, <2>6
  <2> QED BY <2>5, <2>7
<1> QED BY <1>0, <1>3, <1>5, <1>6, UsersOnlyGrow DEF UserInv

LEMMA InvariantUserInv == UserSpec => []UserInv
  BY InitUserInv, NextUserInv, PTL DEF UserSpec

-----------------------------------------------------------------------------
(* Pods *)

\* A pod of order or payment is past a step only if the step went well.
StartupIsEarned ==
    \A r \in Pods : serviceOf[r] \in {"order", "payment"} =>
        /\ at[r] \notin {"es", "grpc"}
        /\ at[r] \in {"read", "kafka", "serving", "stopping"} => serviceOf[r] \in primary
        /\ at[r] \in {"kafka", "serving", "stopping"} =>
               (serviceOf[r] = "payment" => serviceOf[r] \in secondary)
        /\ at[r] \in {"serving", "stopping"} => consumer[r]

LifecycleInv == LifecycleTypeOK /\ StartupIsEarned

\* A pod of product that is past the creation of its table has it.
RaceIsHarmless ==
    \A r \in Pods : (serviceOf[r] = "product" /\ at[r] \notin {"down", "write", "create"}) =>
        "product" \in primary

LEMMA InitLifecycleInv == LifecycleInit => LifecycleInv /\ RaceIsHarmless
<1> SUFFICES ASSUME LifecycleInit PROVE LifecycleInv /\ RaceIsHarmless
    OBVIOUS
<1>1. 0 \in 0 .. MaxOutages /\ 0 \in 0 .. MaxStops
    BY LifecycleAssumption
<1>2. LifecycleTypeOK
    BY <1>1 DEF LifecycleInit, LifecycleTypeOK, Steps
<1> QED
    BY <1>2 DEF LifecycleInit, LifecycleInv, StartupIsEarned, RaceIsHarmless

\* What a step may do to a pod: nothing, end it, or bring it one step on.
PodStays(r) == at'[r] = at[r] /\ consumer'[r] = consumer[r]
PodEnds(r)  == at'[r] = "down"
PodMoves(r) ==
    \/ at[r] = "down" /\ at'[r] = IF serviceOf[r] = "user" THEN "grpc" ELSE "write"
    \/ LookForTables(r) \/ CreateTables(r) \/ LookForReplica(r)
    \/ ConnectElasticsearch(r) \/ CreateGrpcTask(r) \/ StartConsumer(r)
    \/ at[r] = "serving" /\ at'[r] = "stopping" /\ consumer'[r] = consumer[r]

LEMMA PodSteps ==
    ASSUME LifecycleTypeOK, [LifecycleNext]_lifecycleVars, NEW r \in Pods
    PROVE  PodStays(r) \/ PodEnds(r) \/ PodMoves(r)
<1> USE DEF LifecycleTypeOK
<1>1. CASE UNCHANGED lifecycleVars
    BY <1>1 DEF lifecycleVars, pod, PodStays
<1>2. ASSUME NEW q \in Pods, StartupStep(q) PROVE PodStays(r) \/ PodMoves(r)
  <2>1. CASE q # r
    <3>1. at'[r] = at[r] /\ consumer'[r] = consumer[r]
        BY <1>2, <2>1 DEF StartupStep, StartPod, LookForTables, CreateTables, LookForReplica,
           ConnectElasticsearch, CreateGrpcTask, StartConsumer, Continue, Raise, Exit
    <3> QED BY <3>1 DEF PodStays
  <2>2. CASE q = r
    <3>1. CASE StartPod(r)
        BY <3>1 DEF StartPod, PodMoves
    <3> QED BY <1>2, <2>2, <3>1 DEF StartupStep, PodMoves
  <2> QED BY <2>1, <2>2
<1>3. ASSUME NEW q \in Pods, ShutDown(q) \/ Kill(q) PROVE PodStays(r) \/ PodEnds(r)
    BY <1>3 DEF ShutDown, Kill, Exit, PodStays, PodEnds
<1>4. ASSUME NEW q \in Pods, Terminate(q) PROVE PodStays(r) \/ PodMoves(r)
    BY <1>4 DEF Terminate, PodStays, PodMoves
<1>5. ASSUME NEW q \in Pods, ServeGrpc(q) \/ Probe(q) PROVE PodStays(r)
    BY <1>5 DEF ServeGrpc, Probe, pod, PodStays
<1>6. ASSUME NEW s \in Services, ReplicateTable(s) PROVE PodStays(r)
    BY <1>6 DEF ReplicateTable, pod, PodStays
<1>7. CASE Outage \/ Recover
    BY <1>7 DEF Outage, Recover, pod, PodStays
<1> QED BY <1>1, <1>2, <1>3, <1>4, <1>5, <1>6, <1>7 DEF LifecycleNext

\* Tables are created and replicated, never dropped.
LEMMA TablesStay ==
    ASSUME LifecycleTypeOK, [LifecycleNext]_lifecycleVars
    PROVE  /\ serviceOf' = serviceOf
           /\ primary \subseteq primary' /\ primary' \subseteq Services
           /\ secondary \subseteq secondary' /\ secondary' \subseteq primary'
<1> USE DEF LifecycleTypeOK, tables, environment
<1>1. CASE UNCHANGED lifecycleVars
    BY <1>1 DEF lifecycleVars
<1>2. ASSUME NEW r \in Pods, StartupStep(r)
      PROVE  /\ serviceOf' = serviceOf /\ secondary' = secondary
             /\ primary' \in {primary, primary \cup {serviceOf[r]}}
    BY <1>2 DEF StartupStep, StartPod, LookForTables, CreateTables, LookForReplica,
       ConnectElasticsearch, CreateGrpcTask, StartConsumer
<1>3. ASSUME NEW r \in Pods
      PROVE  serviceOf[r] \in Services
    BY LifecycleAssumption
<1>4. ASSUME NEW r \in Pods, ServeGrpc(r) \/ Probe(r) \/ Terminate(r) \/ ShutDown(r) \/ Kill(r)
      PROVE  UNCHANGED <<serviceOf, primary, secondary>>
    BY <1>4 DEF ServeGrpc, Probe, Terminate, ShutDown, Kill
<1>5. ASSUME NEW s \in Services, ReplicateTable(s)
      PROVE  /\ UNCHANGED <<serviceOf, primary>> /\ s \in primary
             /\ secondary' = secondary \cup {s}
    BY <1>5 DEF ReplicateTable
<1>6. CASE Outage \/ Recover
    BY <1>6 DEF Outage, Recover
<1> QED BY <1>1, <1>2, <1>3, <1>4, <1>5, <1>6 DEF LifecycleNext

LEMMA LifecycleTypeStep == LifecycleTypeOK /\ [LifecycleNext]_lifecycleVars => LifecycleTypeOK'
<1> SUFFICES ASSUME LifecycleTypeOK, [LifecycleNext]_lifecycleVars PROVE LifecycleTypeOK'
    OBVIOUS
<1> USE DEF LifecycleTypeOK, environment, pod
<1>1. CASE UNCHANGED lifecycleVars
    BY <1>1 DEF lifecycleVars, tables
<1>2. MaxOutages \in Nat /\ MaxStops \in Nat
    BY LifecycleAssumption
<1>3. ASSUME NEW r \in Pods, StartupStep(r) PROVE LifecycleTypeOK'
  <2>1. UNCHANGED <<routed, serviceOf, mysql, kafka, outages, stops>>
      BY <1>3 DEF StartupStep, StartPod, LookForTables, CreateTables, LookForReplica,
         ConnectElasticsearch, CreateGrpcTask, StartConsumer
  <2>2. at' \in [Pods -> Steps]
    <3>1. at[r] \in {"write", "create", "read", "es", "grpc", "kafka"} => After(r) \in Steps
        BY DEF After, Steps
    <3> QED BY <1>3, <3>1 DEF StartupStep, StartPod, LookForTables, CreateTables, LookForReplica,
         ConnectElasticsearch, CreateGrpcTask, StartConsumer, Continue, Raise, Exit, Steps
  <2>3. consumer' \in [Pods -> BOOLEAN]
      BY <1>3 DEF StartupStep, StartPod, LookForTables, CreateTables, LookForReplica,
         ConnectElasticsearch, CreateGrpcTask, StartConsumer, Continue, Raise, Exit
  <2>4. grpc' \in [Pods -> {"off", "starting", "up", "dead"}]
      BY <1>3 DEF StartupStep, StartPod, LookForTables, CreateTables, LookForReplica,
         ConnectElasticsearch, CreateGrpcTask, StartConsumer, Continue, Raise, Exit
  <2> QED BY <2>1, <2>2, <2>3, <2>4, TablesStay
<1>4. ASSUME NEW r \in Pods, ServeGrpc(r) \/ Terminate(r) \/ ShutDown(r) \/ Kill(r)
      PROVE  LifecycleTypeOK'
  <2>1. UNCHANGED <<routed, serviceOf, mysql, kafka, outages>>
      BY <1>4 DEF ServeGrpc, Terminate, ShutDown, Kill
  <2>2. stops' \in 0 .. MaxStops
      BY <1>2, <1>4 DEF ServeGrpc, Terminate, ShutDown, Kill
  <2>3. at' \in [Pods -> Steps] /\ consumer' \in [Pods -> BOOLEAN]
      BY <1>4 DEF ServeGrpc, Terminate, ShutDown, Kill, Exit, Steps
  <2>4. grpc' \in [Pods -> {"off", "starting", "up", "dead"}]
      BY <1>4 DEF ServeGrpc, Terminate, ShutDown, Kill, Exit
  <2> QED BY <2>1, <2>2, <2>3, <2>4, TablesStay
<1>5. ASSUME NEW r \in Pods, Probe(r) PROVE LifecycleTypeOK'
  <2>1. Ready(r) \in BOOLEAN
      BY DEF Ready
  <2> QED BY <1>5, <2>1, TablesStay DEF Probe
<1>6. ASSUME NEW s \in Services, ReplicateTable(s) PROVE LifecycleTypeOK'
    BY <1>6, TablesStay DEF ReplicateTable
<1>7. CASE Outage \/ Recover
  <2>1. UNCHANGED <<serviceOf, at, consumer, grpc, routed, stops>>
      BY <1>7 DEF Outage, Recover
  <2>2. mysql' \in BOOLEAN /\ kafka' \in BOOLEAN
      BY <1>7 DEF Outage, Recover
  <2>3. outages' \in 0 .. MaxOutages
      BY <1>2, <1>7 DEF Outage, Recover
  <2> QED BY <2>1, <2>2, <2>3, TablesStay
<1> QED BY <1>1, <1>3, <1>4, <1>5, <1>6, <1>7 DEF LifecycleNext

LEMMA NextLifecycleInv == LifecycleInv /\ [LifecycleNext]_lifecycleVars => LifecycleInv'
<1> SUFFICES ASSUME LifecycleInv, [LifecycleNext]_lifecycleVars,
                    NEW r \in Pods, serviceOf[r] \in {"order", "payment"}
             PROVE  /\ at'[r] \notin {"es", "grpc"}
                    /\ at'[r] \in {"read", "kafka", "serving", "stopping"} => serviceOf[r] \in primary'
                    /\ at'[r] \in {"kafka", "serving", "stopping"} =>
                           (serviceOf[r] = "payment" => serviceOf[r] \in secondary')
                    /\ at'[r] \in {"serving", "stopping"} => consumer'[r]
    BY LifecycleTypeStep, TablesStay DEF LifecycleInv, StartupIsEarned
<1> USE DEF LifecycleInv, LifecycleTypeOK, StartupIsEarned
<1>1. CASE PodStays(r)
    BY <1>1, TablesStay DEF PodStays
<1>2. CASE PodEnds(r)
    BY <1>2 DEF PodEnds
<1>3. CASE PodMoves(r)
  <2>1. CASE at[r] = "down" /\ at'[r] = IF serviceOf[r] = "user" THEN "grpc" ELSE "write"
      BY <2>1
  <2>2. CASE LookForTables(r)
      BY <2>2, TablesStay DEF LookForTables, Continue, Raise, Exit, After
  <2>3. CASE CreateTables(r)
      BY <2>3, TablesStay DEF CreateTables, Continue, Raise, Exit, After
  <2>4. CASE LookForReplica(r)
      BY <2>4, TablesStay DEF LookForReplica, Continue, Raise, Exit, After
  <2>5. CASE ConnectElasticsearch(r) \/ CreateGrpcTask(r)
      BY <2>5 DEF ConnectElasticsearch, CreateGrpcTask
  <2>6. CASE StartConsumer(r)
      BY <2>6, TablesStay DEF StartConsumer, Raise, Exit, After
  <2>7. CASE at[r] = "serving" /\ at'[r] = "stopping" /\ consumer'[r] = consumer[r]
      BY <2>7, TablesStay
  <2> QED BY <1>3, <2>1, <2>2, <2>3, <2>4, <2>5, <2>6, <2>7 DEF PodMoves
<1> QED BY <1>1, <1>2, <1>3, PodSteps

LEMMA NextRaceIsHarmless ==
    ASSUME LifecycleTypeOK, RaceIsHarmless, mysql, [LifecycleNext]_lifecycleVars
    PROVE  RaceIsHarmless'
<1> SUFFICES ASSUME NEW r \in Pods, serviceOf[r] = "product", at'[r] \notin {"down", "write", "create"}
             PROVE  "product" \in primary'
    BY TablesStay DEF RaceIsHarmless
<1> USE DEF LifecycleTypeOK, RaceIsHarmless
<1>1. CASE at[r] \notin {"down", "write", "create"}
    BY <1>1, TablesStay
<1>2. CASE at[r] \in {"down", "write", "create"}
  <2>1. LookForTables(r) \/ CreateTables(r)
      BY <1>2, PodSteps DEF PodStays, PodEnds, PodMoves, LookForReplica, ConnectElasticsearch,
         CreateGrpcTask, StartConsumer
  <2>2. CASE LookForTables(r)
      BY <2>2, TablesStay DEF LookForTables
  <2>3. CASE CreateTables(r)
      BY <2>3, TablesStay DEF CreateTables
  <2> QED BY <2>1, <2>2, <2>3
<1> QED BY <1>1, <1>2

LEMMA InvariantLifecycleInv == LifecycleSpec => []LifecycleInv
  BY InitLifecycleInv, NextLifecycleInv, PTL DEF LifecycleSpec

-----------------------------------------------------------------------------
(* The modules side by side *)

LEMMA InitOfEach == Init => ConsumerInv /\ UserInv /\ LifecycleInv /\ RaceIsHarmless /\ SearchTypeOK
  BY InitConsumerInv, InitUserInv, InitLifecycleInv, InitSearchTypeOK DEF Init

LEMMA StepOfEach ==
    ASSUME [Next]_vars
    PROVE  /\ [ConsumerNext]_consumerVars /\ [UserNext]_userVars
           /\ [LifecycleNext]_lifecycleVars /\ [SearchNext]_searchVars
<1>1. CASE UNCHANGED vars
    BY <1>1 DEF vars
<1>2. CASE Next
    BY <1>2 DEF Next
<1> QED BY <1>1, <1>2

-----------------------------------------------------------------------------
\* The loops, the group and the log stay well typed; in particular a loop that
\* works always has an event (kafka_consumer.py:87-237).
THEOREM ConsumerTypeCorrect == ConsumerSpec => []TypeOK
<1>1. ConsumerInv => TypeOK
    BY DEF ConsumerInv
<1> QED BY <1>1, InvariantConsumerInv, PTL

\* At least once, for any group: no rebalance, zombie handler, failed commit or
\* crash makes the stored offset pass an event whose handler has not finished,
\* unless a reset to the end of the log had jumped over it
\* (kafka_consumer.py:208-225).
THEOREM AtLeastOnce == ConsumerSpec => []CommitsOnlyFinished
<1>1. ConsumerInv => CommitsOnlyFinished
    BY DEF ConsumerInv
<1> QED BY <1>1, InvariantConsumerInv, PTL

\* For any group, what a crash or rebalance repeats is at most one event per
\* partition (kafka_consumer.py:225).
THEOREM RepeatsAtMostOne == ConsumerSpec => []OneEventInFlight
<1>1. ConsumerInv => OneEventInFlight
    BY DEF ConsumerInv, TypeOK, InStep, OneEventInFlight
<1> QED BY <1>1, InvariantConsumerInv, PTL

\* For any group, events are missed only in a partition of which the group has
\* not stored an offset yet (kafka_consumer.py:56-66, 208-225).
THEOREM MissesOnlyAtFirst == ConsumerSpec => MissedBeforeFirstCommit
<1>1. ASSUME ConsumerInv, [ConsumerNext]_consumerVars, NEW e \in missed' \ missed
      PROVE  committed[e[1]] = Unset
  <2>1. PICK f \in Assignments : Assign(f)
      BY <1>1 DEF ConsumerNext, LoopStep, Publish, Start, Fetch, Handle, Commit, CommitRaises,
                  LeaveIdle, Crash, Rebalance, consumerVars
  <2>2. e \in Events \ finished /\ e[2] < ResetPosition(e[1])
      BY <1>1, <2>1 DEF Assign
  <2>3. e[1] \in Partitions /\ e[2] \in Nat /\ e = <<e[1], e[2]>>
      BY <2>2 DEF Events
  <2>4. ASSUME committed[e[1]] # Unset PROVE FALSE
    <3>1. e[2] \in 0 .. committed[e[1]] - 1
        BY <1>1, <2>2, <2>3, <2>4 DEF ResetPosition, ConsumerInv, TypeOK, Unset
    <3>2. e \in finished \cup missed
        BY <1>1, <2>3, <3>1 DEF ConsumerInv, CommitsOnlyFinished
    <3> QED BY <1>1, <2>2, <3>2
  <2> QED BY <2>4
<1>2. ConsumerInv /\ [ConsumerNext]_consumerVars =>
          [\A e \in missed' \ missed : committed[e[1]] = Unset]_missed
    BY <1>1
<1> QED
    BY <1>2, InvariantConsumerInv, PTL DEF ConsumerSpec, MissedBeforeFirstCommit

\* The directory's state is well typed for any clients, secondaries and failing
\* calls (user.py, user_server.py).
THEOREM UserTypeCorrect == UserSpec => []UserTypeOK
<1>1. UserInv => UserTypeOK
    BY DEF UserInv
<1> QED BY <1>1, InvariantUserInv, PTL

\* For any replica set, a user whose id was told is found by id, by name and by
\* orders on all the secondaries it takes to make a majority with the primary
\* (user.py:38, 102, 140, order_manager.py:104).
THEOREM MajorityFindsUser == UserSpec => []ToldIdsAreFound
<1>1. UserInv => ToldIdsAreFound
  <2> SUFFICES ASSUME UserInv, NEW k \in Clients, post[k].at = "created"
               PROVE  2 * (1 + Cardinality({s \in Secondaries :
                                \A ch \in Channels : Told(ch, Find(s, k, ch)) = "200"}))
                          > Cardinality(Secondaries) + 1
      BY DEF ToldIdsAreFound
  <2> DEFINE finders == {s \in Secondaries : \A ch \in Channels : Told(ch, Find(s, k, ch)) = "200"}
             holders == {s \in Secondaries : applied[s] >= post[k].user}
  <2>1. post[k].user \in 1 .. Len(users) /\ users[post[k].user] = k /\ Len(users) \in Nat
      BY DEF UserInv, UserTypeOK, UserIsInserted
  <2>2. ASSUME NEW s \in Secondaries, applied[s] >= post[k].user, NEW ch \in Channels
        PROVE  Told(ch, Find(s, k, ch)) = "200"
    <3>1. applied[s] \in Nat
        BY <2>1 DEF UserInv, UserTypeOK
    <3>2. post[k].user \in 1 .. applied[s]
        BY <2>1, <2>2, <3>1
    <3>3. Find(s, k, ch) = "user"
        BY <2>1, <3>1, <3>2 DEF Find, FindById, FindByName
    <3> QED BY <3>3 DEF Told, ValidateUser, GetUser, Respond
  <2>3. holders \subseteq finders /\ finders \subseteq Secondaries
      BY <2>2
  <2>4. 2 * (1 + Cardinality(holders)) > Cardinality(Secondaries) + 1
      BY DEF UserInv, ToldIsHeld, Holders
  <2> HIDE DEF holders, finders
  <2>5. IsFiniteSet(finders) /\ IsFiniteSet(holders)
      BY <2>3, UserAssumption, FS_Subset
  <2>6. /\ Cardinality(holders) <= Cardinality(finders) /\ Cardinality(holders) \in Nat
        /\ Cardinality(finders) \in Nat /\ Cardinality(Secondaries) \in Nat
      BY <2>3, <2>5, UserAssumption, FS_Subset, FS_CardinalityType
  <2>7. 2 * (1 + Cardinality(finders)) > Cardinality(Secondaries) + 1
      BY <2>4, <2>6
  <2> QED BY <2>7 DEF finders
<1> QED BY <1>1, InvariantUserInv, PTL

\* Pods, tables and probes keep their types, for any pods of any services
\* (main.py of the four services).
THEOREM LifecycleTypeCorrect == LifecycleSpec => []LifecycleTypeOK
<1>1. LifecycleInv => LifecycleTypeOK
    BY DEF LifecycleInv
<1> QED BY <1>1, InvariantLifecycleInv, PTL

\* Whatever the pods race for, and however MySQL and Kafka come and go, a pod of
\* order or payment that serves has its tables and its consumer (order
\* main.py:72-102, payment main.py:66-83).
THEOREM ServingIsStarted == LifecycleSpec => []ServingPodsAreWired
<1>1. LifecycleInv => ServingPodsAreWired
    BY DEF LifecycleInv, StartupIsEarned, ServingPodsAreWired
<1> QED BY <1>1, InvariantLifecycleInv, PTL

\* Any number of product pods may race for the tables: as long as MySQL can be
\* reached, the losers serve with the table that the winner made (product
\* main.py:100-110).
THEOREM RaceIsWonByOne == LifecycleSpec => RaceLeavesTables
<1>1. LifecycleTypeOK /\ RaceIsHarmless /\ mysql /\ [LifecycleNext]_lifecycleVars => RaceIsHarmless'
    BY NextRaceIsHarmless
<1>2. LifecycleInit => RaceIsHarmless
    BY InitLifecycleInv
<1>3. RaceIsHarmless => \A r \in Pods :
          (at[r] = "serving" /\ serviceOf[r] = "product") => "product" \in primary
    BY DEF RaceIsHarmless
<1> QED
    BY <1>1, <1>2, <1>3, LifecycleTypeCorrect, PTL DEF LifecycleSpec, RaceLeavesTables

\* The state of every module keeps its types, for any consumers, users, pods and
\* searches side by side (kafka_consumer.py, user.py, main.py and
\* elasticsearch_service.py).
THEOREM ReplicasTypeCorrect == Spec => []ReplicasTypeOK
<1> DEFINE Inv == ConsumerInv /\ UserInv /\ LifecycleInv /\ SearchTypeOK
<1>1. Init => Inv
    BY InitOfEach
<1>2. Inv /\ [Next]_vars => Inv'
    BY StepOfEach, NextConsumerInv, NextUserInv, NextLifecycleInv, SearchTypeStep
<1>3. Inv => ReplicasTypeOK
    BY DEF ConsumerInv, UserInv, LifecycleInv, ReplicasTypeOK
<1> HIDE DEF Inv
<1> QED BY <1>1, <1>2, <1>3, PTL DEF Spec
=============================================================================
