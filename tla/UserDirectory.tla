---------------------------- MODULE UserDirectory ----------------------------
(***************************************************************************)
(* The user service: registration, lookups over HTTP and gRPC, and the     *)
(* check of the user that opens an order (fastapi_user/app: services/      *)
(* user.py, api/endpoints/users.py, grpc/user_server.py,                   *)
(* config/database.py; fastapi_order/app: grpc/user_client.py,             *)
(* services/order_manager.py).                                             *)
(*                                                                         *)
(* Users are inserted on the primary of a MongoDB replica set and read     *)
(* from any secondary.  The driver acknowledges an insert when a majority  *)
(* of the members has it: one of the two secondaries is enough.            *)
(*                                                                         *)
(* A user is the position of its document on the primary.  Not modelled:   *)
(* elections; the attempts of the gRPC client, which are GrpcClient's.     *)
(***************************************************************************)
EXTENDS Naturals, Sequences, FiniteSets

CONSTANTS Clients,      \* clients that register and then order
          Secondaries,  \* secondaries of the replica set
          MaxUsers,     \* bound: documents
          MaxFaults     \* bound: failing calls to MongoDB

ASSUME UserAssumption ==
    IsFiniteSet(Secondaries) /\ MaxUsers \in Nat /\ MaxFaults \in Nat

VARIABLES collection, \* the primary has the collection users
          users,      \* users[u]: the client (name) document u is for
          applied,    \* applied[s]: how many of the documents secondary s has
          post,       \* post[c]: [at, user] of the registration of c
          answer,     \* answer[c][ch]: the last answer c got over channel ch
          faults      \* failed calls to MongoDB

userVars == <<collection, users, applied, post, answer, faults>>

\* GET /users/id/{id}, GET /users/{name}, POST /orders
Channels == {"id", "name", "order"}

UserTypeOK ==
    /\ collection \in BOOLEAN
    /\ users \in Seq(Clients)
    /\ applied \in [Secondaries -> 0 .. Len(users)]
    /\ post \in [Clients -> [at : {"idle", "list", "create", "insert", "ack", "created", "failed"},
                             user : 0 .. MaxUsers]]
    /\ answer \in [Clients -> [Channels -> {"none", "200", "400", "404", "500"}]]
    /\ faults \in 0 .. MaxFaults

UserInit ==
    /\ collection = FALSE
    /\ users = <<>>
    /\ applied = [s \in Secondaries |-> 0]
    /\ post = [c \in Clients |-> [at |-> "idle", user |-> 0]]
    /\ answer = [c \in Clients |-> [ch \in Channels |-> "none"]]
    /\ faults = 0

PostTo(c, at) == post' = [post EXCEPT ![c].at = at]

-----------------------------------------------------------------------------
(* POST /users *)

\* A client without an id posts, again after an error.
Post(c) ==
    /\ post[c].at \in {"idle", "failed"}
    /\ Len(users) < MaxUsers
    /\ PostTo(c, "list")
    /\ UNCHANGED <<collection, users, applied, answer, faults>>

\* Mutant of ListCollections: the collection is always made.
AlwaysCreateCollection(c) ==
    /\ post[c].at = "list"
    /\ PostTo(c, "create")
    /\ UNCHANGED <<collection, users, applied, answer, faults>>

\* get_write_users_collection: "users" not in collection_names
ListCollections(c) ==
    /\ post[c].at = "list"
    /\ PostTo(c, IF collection THEN "insert" ELSE "create")
    /\ UNCHANGED <<collection, users, applied, answer, faults>>

\* If another first request made the collection since, create_collection
\* raises, None is returned and the request is answered with 500.
CreateCollection(c) ==
    /\ post[c].at = "create"
    /\ collection' = TRUE
    /\ PostTo(c, IF collection THEN "failed" ELSE "insert")
    /\ UNCHANGED <<users, applied, answer, faults>>

InsertUser(c) ==
    /\ post[c].at = "insert"
    /\ Len(users) < MaxUsers
    /\ users' = Append(users, c)
    /\ post' = [post EXCEPT ![c] = [at |-> "ack", user |-> Len(users) + 1]]
    /\ UNCHANGED <<collection, applied, answer, faults>>

\* Members that have document u: the primary and the secondaries that applied it.
Holders(u) == 1 + Cardinality({s \in Secondaries : applied[s] >= u})

\* Mutant of Acknowledge: write concern 1.
AcknowledgeByPrimary(c) ==
    /\ post[c].at = "ack"
    /\ PostTo(c, "created")
    /\ UNCHANGED <<collection, users, applied, answer, faults>>

Acknowledge(c) ==
    /\ post[c].at = "ack"
    /\ 2 * Holders(post[c].user) > Cardinality(Secondaries) + 1
    /\ PostTo(c, "created")
    /\ UNCHANGED <<collection, users, applied, answer, faults>>

\* A call to MongoDB fails or its answer is lost: 500, and the document stays
\* if it was inserted.
PostFails(c) ==
    /\ post[c].at \in {"list", "create", "insert", "ack"}
    /\ faults < MaxFaults
    /\ faults' = faults + 1
    /\ PostTo(c, "failed")
    /\ UNCHANGED <<collection, users, applied, answer>>

\* Replication: a secondary applies the next document.
ReplicateUsers(s) ==
    /\ applied[s] < Len(users)
    /\ applied' = [applied EXCEPT ![s] = @ + 1]
    /\ UNCHANGED <<collection, users, post, answer, faults>>

-----------------------------------------------------------------------------
(* Lookups, on a secondary *)

FindById(s, u)   == IF u <= applied[s] THEN "user" ELSE "none"
FindByName(s, c) == IF \E u \in 1 .. applied[s] : users[u] = c THEN "user" ELSE "none"

\* UserService.GetUser (gRPC): the status of the answer.
GetUser(result) ==
    CASE result = "user"  -> "OK"
      [] result = "none"  -> "NOT_FOUND"
      [] result = "raise" -> "INTERNAL"

\* UserClient.get_user turns every status into an HTTPException, and
\* create_order every exception into "Invalid user ID or user service error".
ValidateUser(status) == IF status = "OK" THEN "200" ELSE "400"

\* Mutant of Respond: a missing user is not looked for, and null is answered.
RespondNull(result) ==
    CASE result = "user"  -> "200"
      [] result = "none"  -> "null"
      [] result = "raise" -> "500"

\* The endpoints GET /users/id/{id} and GET /users/{name}.
Respond(result) ==
    CASE result = "user"  -> "200"
      [] result = "none"  -> "404"
      [] result = "raise" -> "500"

\* Mutant of Find: the id is compared as a string, without ObjectId(user_id).
FindWithoutObjectId(s, c, ch) == IF ch = "name" THEN FindByName(s, c) ELSE "none"

Find(s, c, ch) == IF ch = "name" THEN FindByName(s, c) ELSE FindById(s, post[c].user)

\* What the client is told.
Told(ch, result) == IF ch = "order" THEN ValidateUser(GetUser(result)) ELSE Respond(result)

\* A registered client looks itself up, or orders.
Lookup(c, ch) ==
    /\ post[c].at = "created"
    /\ \E result \in {Find(s, c, ch) : s \in Secondaries} \cup {"raise"} :
         /\ result = "raise" => faults < MaxFaults
         /\ faults' = IF result = "raise" THEN faults + 1 ELSE faults
         /\ answer' = [answer EXCEPT ![c][ch] = Told(ch, result)]
    /\ UNCHANGED <<collection, users, applied, post>>

-----------------------------------------------------------------------------
UserNext ==
    \/ \E c \in Clients :
         \/ Post(c) \/ ListCollections(c) \/ CreateCollection(c) \/ InsertUser(c)
         \/ Acknowledge(c) \/ PostFails(c)
         \/ \E ch \in Channels : Lookup(c, ch)
    \/ \E s \in Secondaries : ReplicateUsers(s)

\* Secondaries replicate in the end; clients need not do anything.
UserFairness == \A s \in Secondaries : WF_userVars(ReplicateUsers(s))

UserSpec == UserInit /\ [][UserNext]_userVars /\ UserFairness

-----------------------------------------------------------------------------
(* Properties *)

\* Two first registrations race for create_collection (database.py:54-56), and
\* the loser is answered with 500.  That ends by itself: however often clients
\* post again, from some time on no registration fails there.
CreationRaceEnds ==
    <>[][\A c \in Clients : CreateCollection(c) => post'[c].at # "failed"]_userVars

\* A told id may be asked for anywhere: together with the primary, the secondaries
\* that answer it over every channel are always a majority, whatever was lost,
\* posted twice or inserted since (user.py:38, 102, 140,
\* order_manager.py:104).
ToldIdsAreFound ==
    \A c \in Clients : post[c].at = "created" =>
        LET finders == {s \in Secondaries :
                           \A ch \in Channels : Told(ch, Find(s, c, ch)) = "200"}
        IN  2 * (1 + Cardinality(finders)) > Cardinality(Secondaries) + 1

\* A user may be unknown to the secondary that is asked (user.py:102, 140), over
\* every channel and also by orders, whatever was lost or posted twice; but from
\* some time on every secondary finds the users that were told their ids.
RegisteredUsersAreFound ==
    <>[](\A c \in Clients, ch \in Channels, s \in Secondaries :
            post[c].at = "created" => Told(ch, Find(s, c, ch)) = "200")
=============================================================================
