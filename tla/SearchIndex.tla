------------------------------ MODULE SearchIndex ------------------------------
(***************************************************************************)
(* Product search: fastapi_product/app/services/elasticsearch_service.py   *)
(* and the admin endpoints of app/api/endpoints/search.py.                 *)
(*                                                                         *)
(* Four copies of a product follow one another.  The document in MongoDB   *)
(* is the original.  Monstache (external) carries it to the index          *)
(* my_db.products some time later.  A full or incremental reindex copies   *)
(* that index to products_optimized, and searches go to products_optimized *)
(* through the alias products_search.  The incremental reindex looks for   *)
(* updated_at later than the last_reindex_time kept in .reindex_metadata.  *)
(*                                                                         *)
(* A version of a document is its updated_at.  The clock ticks when a      *)
(* change is stamped, so a time t kept by a reindex tells the changes      *)
(* stamped before it (<= t) from the later ones (> t).                     *)
(*                                                                         *)
(* Not modelled: analyzers, queries and scores; an ingestion that is       *)
(* reported as failed and continues in Elasticsearch.                      *)
(***************************************************************************)
EXTENDS Naturals

CONSTANTS Products,    \* product ids
          Admins,      \* senders of admin requests, each one request at a time
          Asks,        \* Asks[c]: the kinds of requests c sends
          MaxChanges   \* bound: changes of products

Kinds == {"create", "full", "incremental", "status"}

ASSUME SearchAssumption == Asks \in [Admins -> SUBSET Kinds] /\ MaxChanges \in Nat

VARIABLES clock,    \* stamps given so far
          saves,    \* <<product, updated_at>> stamped and not yet written
          mongo,    \* mongo[p]: updated_at of the document of p, 0 if there is none
          deleted,  \* products deleted from MongoDB
          source,   \* source[p]: the version in my_db.products, 0 if there is none
          index,    \* products_optimized: "none", "created" with its mapping, or "auto"
          target,   \* target[p]: the version in products_optimized, 0 if there is none
          alias,    \* products_search points to products_optimized
          metadata, \* .reindex_metadata: "none", "empty" or "kept"
          last,     \* last_reindex_time
          req       \* req[c]: the request of client c

catalogue == <<clock, saves, mongo, deleted>>
meta == <<metadata, last>>
searchVars == <<catalogue, source, index, target, alias, meta, req>>

Times == 0 .. MaxChanges
NoBatch == [p \in Products |-> 0]

\* A request: the call it makes next, whether .reindex_metadata is needed to
\* get a time, to save one or to save the first one, the time it read or
\* took, and the documents it copies.
Idle == [kind |-> "none", at |-> "idle", goal |-> "get", time |-> 0, batch |-> NoBatch]

SearchTypeOK ==
    /\ clock \in Times
    /\ saves \subseteq Products \X Times
    /\ mongo \in [Products -> Times]
    /\ source \in [Products -> Times]
    /\ target \in [Products -> Times]
    /\ deleted \subseteq Products
    /\ index \in {"none", "created", "auto"}
    /\ alias \in BOOLEAN
    /\ metadata \in {"none", "empty", "kept"}
    /\ last \in Times
    /\ req \in [Admins ->
         [kind : Kinds \cup {"none"},
          at : {"idle", "exists", "delete", "create", "alias", "unalias", "put_alias", "count",
                "reindex", "write", "stamp", "ensure", "init", "get", "save"},
          goal : {"get", "save", "first"}, time : Times, batch : [Products -> Times]]]

SearchInit ==
    /\ clock = 0
    /\ saves = {}
    /\ mongo = NoBatch
    /\ deleted = {}
    /\ source = NoBatch
    /\ index = "none"
    /\ target = NoBatch
    /\ alias = FALSE
    /\ metadata = "none"
    /\ last = 0
    /\ req = [c \in Admins |-> Idle]

-----------------------------------------------------------------------------
(* The catalogue and Monstache *)

\* create_product or update_product takes the time that will be updated_at; an
\* update found the document before.
StampChange(p) ==
    /\ clock < MaxChanges
    /\ p \notin deleted
    /\ mongo[p] = 0 => \A s \in saves : s[1] # p
    /\ clock' = clock + 1
    /\ saves' = saves \cup {<<p, clock + 1>>}
    /\ UNCHANGED <<mongo, deleted, source, index, target, alias, meta, req>>

\* insert_one, or update_one, which matches nothing once the document is gone.
WriteChange(p, t) ==
    /\ <<p, t>> \in saves
    /\ saves' = saves \ {<<p, t>>}
    /\ mongo' = IF p \in deleted THEN mongo ELSE [mongo EXCEPT ![p] = t]
    /\ UNCHANGED <<clock, deleted, source, index, target, alias, meta, req>>

DeleteProduct(p) ==
    /\ mongo[p] # 0
    /\ mongo' = [mongo EXCEPT ![p] = 0]
    /\ deleted' = deleted \cup {p}
    /\ UNCHANGED <<clock, saves, source, index, target, alias, meta, req>>

\* Monstache follows the change stream: the document as it is now becomes
\* visible in my_db.products, or leaves it.
Sync(p) ==
    /\ source[p] # mongo[p]
    /\ source' = [source EXCEPT ![p] = mongo[p]]
    /\ UNCHANGED <<catalogue, index, target, alias, meta, req>>

-----------------------------------------------------------------------------
(* Requests *)

At(c, kind, at)  == req[c].kind = kind /\ req[c].at = at
RequestTo(c, at)      == req' = [req EXCEPT ![c].at = at]
End(c)           == req' = [req EXCEPT ![c] = Idle]

\* An endpoint calls its method of the service.
Ask(c, kind) ==
    /\ req[c] = Idle
    /\ kind \in Asks[c]
    /\ req' = [req EXCEPT ![c].kind = kind,
                          ![c].at = IF kind = "status" THEN "ensure" ELSE "exists"]
    /\ UNCHANGED <<catalogue, source, index, target, alias, meta>>

\* A call to Elasticsearch raises or times out: the request ends with an
\* error, except that get_last_reindex_time answers with the current time.
CallFails(c) ==
    /\ req[c] # Idle
    /\ \/ /\ req[c].goal = "get" /\ req[c].at \in {"ensure", "init", "get"}
          /\ IF req[c].kind = "status" THEN End(c)
             ELSE req' = [req EXCEPT ![c].time = clock, ![c].at = "count"]
       \/ /\ ~ (req[c].goal = "get" /\ req[c].at \in {"ensure", "init", "get"})
          /\ End(c)
    /\ UNCHANGED <<catalogue, source, index, target, alias, meta>>

(* create_product_index *)

FindIndex(c) ==
    /\ At(c, "create", "exists")
    /\ RequestTo(c, IF index = "none" THEN "create" ELSE "delete")
    /\ UNCHANGED <<catalogue, source, index, target, alias, meta>>

\* The alias goes with its index; .reindex_metadata stays.
DeleteIndex(c) ==
    /\ At(c, "create", "delete")
    /\ index # "none"
    /\ index' = "none"
    /\ target' = NoBatch
    /\ alias' = FALSE
    /\ RequestTo(c, "create")
    /\ UNCHANGED <<catalogue, source, meta>>

\* Mutant of CreateIndex: an index that exists already is taken for the new one.
CreateIndexIfMissing(c) ==
    /\ At(c, "create", "create")
    /\ index' = IF index = "none" THEN "created" ELSE index
    /\ RequestTo(c, "alias")
    /\ UNCHANGED <<catalogue, source, target, alias, meta>>

\* If another request made the index since, the call raises: CallFails.
CreateIndex(c) ==
    /\ At(c, "create", "create")
    /\ index = "none"
    /\ index' = "created"
    /\ RequestTo(c, "alias")
    /\ UNCHANGED <<catalogue, source, target, alias, meta>>

(* setup_alias *)

FindAlias(c) ==
    /\ At(c, "create", "alias")
    /\ RequestTo(c, IF alias THEN "unalias" ELSE "put_alias")
    /\ UNCHANGED <<catalogue, source, index, target, alias, meta>>

RemoveAlias(c) ==
    /\ At(c, "create", "unalias")
    /\ alias' = FALSE
    /\ RequestTo(c, "put_alias")
    /\ UNCHANGED <<catalogue, source, index, target, meta>>

PutAlias(c) ==
    /\ At(c, "create", "put_alias")
    /\ index # "none"
    /\ alias' = TRUE
    /\ End(c)
    /\ UNCHANGED <<catalogue, source, index, target, meta>>

-----------------------------------------------------------------------------
(* reindex_products, incremental_reindex *)

\* Without the index both answer with an error.
CheckIndices(c) ==
    /\ req[c].at = "exists"
    /\ req[c].kind \in {"full", "incremental"}
    /\ IF index = "none" THEN End(c)
       ELSE RequestTo(c, IF req[c].kind = "full" THEN "reindex" ELSE "ensure")
    /\ UNCHANGED <<catalogue, source, index, target, alias, meta>>

\* updated_at later than the last reindex
ChangedSince(t) == {p \in Products : source[p] > t}

CountChanges(c) ==
    /\ At(c, "incremental", "count")
    /\ IF ChangedSince(req[c].time) = {} THEN End(c) ELSE RequestTo(c, "reindex")
    /\ UNCHANGED <<catalogue, source, index, target, alias, meta>>

\* Mutant of Selected: a full reindex, too, takes the changed documents only.
SelectedChanged(c) == ChangedSince(IF req[c].kind = "full" THEN last ELSE req[c].time)

Selected(c) == IF req[c].kind = "full" THEN Products ELSE ChangedSince(req[c].time)

\* client.reindex reads the selected documents as they are now ...
Snapshot(c) ==
    /\ req[c].at = "reindex"
    /\ req' = [req EXCEPT ![c].at = "write",
                          ![c].batch = [p \in Products |-> IF p \in Selected(c) THEN source[p] ELSE 0]]
    /\ UNCHANGED <<catalogue, source, index, target, alias, meta>>

Write(c, copied) ==
    /\ index' = IF index = "none" /\ copied # {} THEN "auto" ELSE index
    /\ target' = [p \in Products |-> IF p \in copied THEN req[c].batch[p] ELSE target[p]]

Copied(c) == {p \in Products : req[c].batch[p] # 0}

\* ... and writes them over what the index holds, whatever version that is.
\* It makes an index that is missing and deletes nothing.
WriteBatch(c) ==
    /\ req[c].at = "write"
    /\ Write(c, Copied(c))
    /\ req' = [req EXCEPT ![c].at = "stamp", ![c].batch = NoBatch]
    /\ UNCHANGED <<catalogue, source, alias, meta>>

\* Some documents are not written: response["failures"], or the call ends early.
WriteFails(c) ==
    /\ req[c].at = "write"
    /\ \E some \in SUBSET Copied(c) : some # Copied(c) /\ Write(c, some)
    /\ End(c)
    /\ UNCHANGED <<catalogue, source, alias, meta>>

\* Mutant of TakeTime: the clock of the pod is ahead of the one of the changes.
TakeTimeAhead(c) ==
    /\ req[c].at = "stamp"
    /\ req' = [req EXCEPT ![c].time = clock + 1, ![c].at = "ensure", ![c].goal = "save"]
    /\ UNCHANGED <<catalogue, source, index, target, alias, meta>>

\* The time of the reindex is taken after it.
TakeTime(c) ==
    /\ req[c].at = "stamp"
    /\ req' = [req EXCEPT ![c].time = clock, ![c].at = "ensure", ![c].goal = "save"]
    /\ UNCHANGED <<catalogue, source, index, target, alias, meta>>

-----------------------------------------------------------------------------
(* ensure_metadata_index, get_last_reindex_time, update_last_reindex_time *)

AfterEnsure(c) == IF req[c].goal = "get" THEN "get" ELSE "save"

EnsureMetadataIndex(c) ==
    /\ req[c].at = "ensure"
    /\ metadata' = IF metadata = "none" THEN "empty" ELSE metadata
    /\ RequestTo(c, IF metadata = "none" THEN "init" ELSE AfterEnsure(c))
    /\ UNCHANGED <<catalogue, source, index, target, alias, last>>

\* The first document says that a reindex took place now.
InitMetadata(c) ==
    /\ req[c].at = "init"
    /\ metadata' = "kept"
    /\ last' = clock
    /\ RequestTo(c, AfterEnsure(c))
    /\ UNCHANGED <<catalogue, source, index, target, alias>>

\* NotFoundError while another request is between the index and its first
\* document: the current time becomes the last one.
GetLastTime(c) ==
    /\ req[c].at = "get"
    /\ IF metadata = "empty"
       THEN req' = [req EXCEPT ![c].time = clock, ![c].at = "ensure", ![c].goal = "first"]
       ELSE IF req[c].kind = "status" THEN End(c)
       ELSE req' = [req EXCEPT ![c].time = last, ![c].at = "count"]
    /\ UNCHANGED <<catalogue, source, index, target, alias, meta>>

SaveTime(c) ==
    /\ req[c].at = "save"
    /\ metadata' = "kept"
    /\ last' = req[c].time
    /\ IF req[c].goal = "first" /\ req[c].kind = "incremental"
       THEN RequestTo(c, "count") ELSE End(c)
    /\ UNCHANGED <<catalogue, source, index, target, alias>>

-----------------------------------------------------------------------------
ServeRequest(c) ==
    \/ FindIndex(c) \/ DeleteIndex(c) \/ CreateIndex(c)
    \/ FindAlias(c) \/ RemoveAlias(c) \/ PutAlias(c)
    \/ CheckIndices(c) \/ CountChanges(c) \/ Snapshot(c) \/ WriteBatch(c) \/ TakeTime(c)
    \/ EnsureMetadataIndex(c) \/ InitMetadata(c) \/ GetLastTime(c) \/ SaveTime(c)

SearchNext ==
    \/ \E p \in Products :
         \/ StampChange(p) \/ DeleteProduct(p) \/ Sync(p)
         \/ \E t \in Times : WriteChange(p, t)
    \/ \E c \in Admins :
         \/ \E kind \in Kinds : Ask(c, kind)
         \/ ServeRequest(c) \/ CallFails(c) \/ WriteFails(c)

\* Monstache follows every change in the end.  Nobody is bound to send
\* requests, and a request may fail or hang.
SearchFairness == \A p \in Products : WF_searchVars(Sync(p))

SearchSpec == SearchInit /\ [][SearchNext]_searchVars /\ SearchFairness

-----------------------------------------------------------------------------
(* Properties *)

\* Searches never read an index that a reindex made by accident, without the
\* analyzers of create_product_index, as long as one client makes indices:
\* create (line 115) refuses an index that appeared since the deletion (85).
AliasOnMappedIndex == alias => index = "created"

\* A product of the catalogue is in the index as it is in the catalogue.
UpToDate == \A p \in Products : mongo[p] # 0 => target[p] = mongo[p]

NoRebuild == \A c \in Admins : req[c].kind # "create"

FullReindexDone == \E c \in Admins : req[c].kind = "full" /\ WriteBatch(c)

\* However changes, lagging copies and incremental reindexes interleave, and
\* whatever last_reindex_time says: if full reindexes keep succeeding and the
\* index is not rebuilt, it ends up with every product as it is (lines 177-193).
FullReindexRepairs ==
    (<>[]NoRebuild /\ []<><<FullReindexDone>>_searchVars) => <>[]UpToDate
=============================================================================
