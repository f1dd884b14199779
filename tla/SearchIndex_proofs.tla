-------------------------- MODULE SearchIndex_proofs --------------------------
(***************************************************************************)
(* Proofs about SearchIndex, for any products, clients and changes.        *)
(*                                                                         *)
(* Between create(index) and put_alias an index can only be replaced by a  *)
(* request that makes indices too; so while there is one such client, the  *)
(* index it names in put_alias is the one it made (MadeIndexStays).        *)
(***************************************************************************)
EXTENDS SearchIndex, TLAPS

RequestSteps == {"idle", "exists", "delete", "create", "alias", "unalias", "put_alias", "count",
          "reindex", "write", "stamp", "ensure", "init", "get", "save"}

AdminRequest == [kind : Kinds \cup {"none"}, at : RequestSteps, goal : {"get", "save", "first"},
                 time : Times, batch : [Products -> Times]]

\* Only one client makes indices.
OneMaker == \A c, d \in Admins : ("create" \in Asks[c] /\ "create" \in Asks[d]) => c = d

OnlyMakersCreate == \A c \in Admins : req[c].kind = "create" => "create" \in Asks[c]

MadeIndexStays ==
    \A c \in Admins :
        (req[c].kind = "create" /\ req[c].at \in {"alias", "unalias", "put_alias"}) =>
            index = "created"

AliasInv == OnlyMakersCreate /\ MadeIndexStays /\ AliasOnMappedIndex

-----------------------------------------------------------------------------
LEMMA TimesFacts ==
    /\ MaxChanges \in Nat /\ 0 \in Times /\ NoBatch \in [Products -> Times]
    /\ \A t \in Times : t < MaxChanges => t + 1 \in Times
  BY SearchAssumption DEF Times, NoBatch

LEMMA IdleFacts == Idle \in AdminRequest /\ Idle.kind = "none" /\ Idle.at = "idle"
  BY TimesFacts DEF Idle, AdminRequest, RequestSteps

\* The step of a request: what becomes of it.
MovesTo(c, w) == req' = [req EXCEPT ![c] = w]

LEMMA RequestToFacts ==
    ASSUME req \in [Admins -> AdminRequest], NEW c \in Admins, NEW at \in RequestSteps, RequestTo(c, at)
    PROVE  \E w \in AdminRequest : MovesTo(c, w) /\ w.kind = req[c].kind /\ w.at = at
<1> DEFINE w == [req[c] EXCEPT !.at = at]
<1>1. MovesTo(c, w)
    BY DEF RequestTo, MovesTo
<1>2. w \in AdminRequest /\ w.kind = req[c].kind /\ w.at = at
    BY DEF AdminRequest
<1> HIDE DEF w
<1> QED BY <1>1, <1>2

LEMMA EndFacts ==
    ASSUME NEW c \in Admins, End(c)
    PROVE  \E w \in AdminRequest : MovesTo(c, w) /\ w.kind = "none" /\ w.at = "idle"
  BY IdleFacts DEF End, MovesTo

LEMMA AskFacts ==
    ASSUME NEW c \in Admins, NEW kind \in Kinds, Ask(c, kind)
    PROVE  \E w \in AdminRequest :
               MovesTo(c, w) /\ w.kind = kind /\ w.at \in {"ensure", "exists"} /\ kind \in Asks[c]
<1> DEFINE at == IF kind = "status" THEN "ensure" ELSE "exists"
           w  == [req[c] EXCEPT !.kind = kind, !.at = at]
<1>1. MovesTo(c, w)
    BY DEF Ask, MovesTo
<1>2. req[c] \in AdminRequest
    BY IdleFacts DEF Ask
<1>3. at \in {"ensure", "exists"} /\ kind \in Asks[c]
    BY DEF Ask
<1> HIDE DEF at
<1>4. w \in AdminRequest /\ w.kind = kind /\ w.at = at
    BY <1>2, <1>3 DEF AdminRequest, RequestSteps
<1> HIDE DEF w
<1> QED BY <1>1, <1>3, <1>4

\* The steps that also keep a time or a batch.
LEMMA TimeFacts ==
    ASSUME NEW c \in Admins, req[c] \in AdminRequest, NEW at \in RequestSteps, NEW time \in Times,
           req' = [req EXCEPT ![c].time = time, ![c].at = at]
    PROVE  \E w \in AdminRequest : MovesTo(c, w) /\ w.kind = req[c].kind /\ w.at = at
<1> DEFINE w == [req[c] EXCEPT !.time = time, !.at = at]
<1>1. MovesTo(c, w)
    BY DEF MovesTo
<1>2. w \in AdminRequest /\ w.kind = req[c].kind /\ w.at = at
    BY DEF AdminRequest
<1> HIDE DEF w
<1> QED BY <1>1, <1>2

LEMMA GoalFacts ==
    ASSUME NEW c \in Admins, req[c] \in AdminRequest, NEW time \in Times,
           NEW goal \in {"get", "save", "first"},
           req' = [req EXCEPT ![c].time = time, ![c].at = "ensure", ![c].goal = goal]
    PROVE  \E w \in AdminRequest : MovesTo(c, w) /\ w.kind = req[c].kind /\ w.at = "ensure"
<1> DEFINE w == [req[c] EXCEPT !.time = time, !.at = "ensure", !.goal = goal]
<1>1. MovesTo(c, w)
    BY DEF MovesTo
<1>2. w \in AdminRequest /\ w.kind = req[c].kind /\ w.at = "ensure"
    BY DEF AdminRequest, RequestSteps
<1> HIDE DEF w
<1> QED BY <1>1, <1>2

LEMMA BatchFacts ==
    ASSUME NEW c \in Admins, req[c] \in AdminRequest, NEW at \in {"write", "stamp"},
           NEW batch \in [Products -> Times],
           req' = [req EXCEPT ![c].at = at, ![c].batch = batch]
    PROVE  \E w \in AdminRequest : MovesTo(c, w) /\ w.kind = req[c].kind /\ w.at = at
<1> DEFINE w == [req[c] EXCEPT !.at = at, !.batch = batch]
<1>1. MovesTo(c, w)
    BY DEF MovesTo
<1>2. w \in AdminRequest /\ w.kind = req[c].kind /\ w.at = at
    BY DEF AdminRequest, RequestSteps
<1> HIDE DEF w
<1> QED BY <1>1, <1>2

AliasStages == {"alias", "unalias", "put_alias"}

\* The alias is handled only after CreateIndex, and the index stays meanwhile.
MayHandleAlias(c) == CreateIndex(c) \/ (req[c].at \in {"alias", "unalias"} /\ UNCHANGED index)

\* Every step of a request keeps its kind or ends it; the stages at the alias
\* are reached from CreateIndex alone.
Served(c, w) ==
    /\ MovesTo(c, w) /\ w.kind \in {req[c].kind, "none"}
    /\ w.at \in AliasStages => MayHandleAlias(c)

LEMMA ServeFacts ==
    ASSUME SearchTypeOK, NEW c \in Admins, ServeRequest(c) \/ CallFails(c) \/ WriteFails(c)
    PROVE  \E w \in AdminRequest : Served(c, w)
<1>1. req \in [Admins -> AdminRequest] /\ req[c] \in AdminRequest
    BY DEF SearchTypeOK, AdminRequest, RequestSteps
<1>2. clock \in Times /\ last \in Times /\ source \in [Products -> Times]
    BY DEF SearchTypeOK
<1>3. ASSUME NEW at \in RequestSteps, RequestTo(c, at), at \in AliasStages => MayHandleAlias(c)
      PROVE  \E w \in AdminRequest : Served(c, w)
    BY <1>1, <1>3, RequestToFacts DEF Served
<1>4. ASSUME End(c)
      PROVE  \E w \in AdminRequest : Served(c, w)
    BY <1>4, EndFacts DEF Served, AliasStages
<1>5. ASSUME NEW at \in {"count"}, NEW time \in Times,
             req' = [req EXCEPT ![c].time = time, ![c].at = at]
      PROVE  \E w \in AdminRequest : Served(c, w)
    BY <1>1, <1>5, TimeFacts DEF Served, AliasStages, RequestSteps
<1>6. ASSUME NEW time \in Times, NEW goal \in {"get", "save", "first"},
             req' = [req EXCEPT ![c].time = time, ![c].at = "ensure", ![c].goal = goal]
      PROVE  \E w \in AdminRequest : Served(c, w)
    BY <1>1, <1>6, GoalFacts DEF Served, AliasStages
<1>7. ASSUME NEW at \in {"write", "stamp"}, NEW batch \in [Products -> Times],
             req' = [req EXCEPT ![c].at = at, ![c].batch = batch]
      PROVE  \E w \in AdminRequest : Served(c, w)
    BY <1>1, <1>7, BatchFacts DEF Served, AliasStages
<1>8. AfterEnsure(c) \in RequestSteps \ AliasStages
    BY DEF AfterEnsure, RequestSteps, AliasStages
<1>9. CASE FindIndex(c)
  <2>1. PICK at \in {"create", "delete"} : RequestTo(c, at)
      BY <1>9 DEF FindIndex
  <2> QED BY <2>1, <1>3 DEF RequestSteps, AliasStages
<1>10. CASE DeleteIndex(c)
    BY <1>10, <1>3 DEF DeleteIndex, RequestSteps, AliasStages
<1>11. CASE CreateIndex(c)
  <2>1. RequestTo(c, "alias") /\ MayHandleAlias(c)
      BY <1>11 DEF CreateIndex, MayHandleAlias
  <2> QED BY <2>1, <1>3 DEF RequestSteps
<1>12. CASE FindAlias(c)
  <2>1. MayHandleAlias(c)
      BY <1>12 DEF FindAlias, At, MayHandleAlias
  <2>2. PICK at \in {"unalias", "put_alias"} : RequestTo(c, at)
      BY <1>12 DEF FindAlias
  <2> QED BY <2>1, <2>2, <1>3 DEF RequestSteps
<1>13. CASE RemoveAlias(c)
  <2>1. MayHandleAlias(c) /\ RequestTo(c, "put_alias")
      BY <1>13 DEF RemoveAlias, At, MayHandleAlias
  <2> QED BY <2>1, <1>3 DEF RequestSteps
<1>14. CASE PutAlias(c)
    BY <1>14, <1>4 DEF PutAlias
<1>15. CASE CheckIndices(c)
  <2>1. End(c) \/ \E at \in {"reindex", "ensure"} : RequestTo(c, at)
      BY <1>15 DEF CheckIndices
  <2> QED BY <2>1, <1>3, <1>4 DEF RequestSteps, AliasStages
<1>16. CASE CountChanges(c)
  <2>1. End(c) \/ RequestTo(c, "reindex")
      BY <1>16 DEF CountChanges
  <2> QED BY <2>1, <1>3, <1>4 DEF RequestSteps, AliasStages
<1>17. CASE Snapshot(c)
  <2> DEFINE batch == [p \in Products |-> IF p \in Selected(c) THEN source[p] ELSE 0]
  <2>1. batch \in [Products -> Times]
      BY <1>2, TimesFacts
  <2>2. req' = [req EXCEPT ![c].at = "write", ![c].batch = batch]
      BY <1>17 DEF Snapshot
  <2> HIDE DEF batch
  <2> QED BY <2>1, <2>2, <1>7
<1>18. CASE WriteBatch(c)
    BY <1>18, <1>7, TimesFacts DEF WriteBatch
<1>19. CASE TakeTime(c)
    BY <1>19, <1>6, <1>2 DEF TakeTime
<1>20. CASE EnsureMetadataIndex(c)
  <2>1. \E at \in {"init", AfterEnsure(c)} : RequestTo(c, at)
      BY <1>20 DEF EnsureMetadataIndex
  <2> QED BY <2>1, <1>3, <1>8 DEF RequestSteps, AliasStages
<1>21. CASE InitMetadata(c)
    BY <1>21, <1>3, <1>8 DEF InitMetadata
<1>22. CASE GetLastTime(c)
  <2>1. \/ req' = [req EXCEPT ![c].time = clock, ![c].at = "ensure", ![c].goal = "first"]
        \/ End(c)
        \/ req' = [req EXCEPT ![c].time = last, ![c].at = "count"]
      BY <1>22 DEF GetLastTime
  <2> QED BY <2>1, <1>2, <1>4, <1>5, <1>6
<1>23. CASE SaveTime(c)
  <2>1. RequestTo(c, "count") \/ End(c)
      BY <1>23 DEF SaveTime
  <2> QED BY <2>1, <1>3, <1>4 DEF RequestSteps, AliasStages
<1>24. CASE CallFails(c)
  <2>1. End(c) \/ req' = [req EXCEPT ![c].time = clock, ![c].at = "count"]
      BY <1>24 DEF CallFails
  <2> QED BY <2>1, <1>2, <1>4, <1>5
<1>25. CASE WriteFails(c)
    BY <1>25, <1>4 DEF WriteFails
<1> QED BY <1>9, <1>10, <1>11, <1>12, <1>13, <1>14, <1>15, <1>16, <1>17, <1>18, <1>19, <1>20,
           <1>21, <1>22, <1>23, <1>24, <1>25 DEF ServeRequest

-----------------------------------------------------------------------------
\* What a request does to the index and the alias.
LEMMA IndexFacts ==
    ASSUME NEW c \in Admins, ServeRequest(c) \/ CallFails(c) \/ WriteFails(c)
    PROVE  \/ DeleteIndex(c)
           \/ CreateIndex(c)
           \/ PutAlias(c)
           \/ UNCHANGED index /\ (UNCHANGED alias \/ alias' = FALSE)
           \/ index = "none" /\ index' = "auto" /\ UNCHANGED alias
<1>1. CASE FindIndex(c) \/ FindAlias(c) \/ RemoveAlias(c) \/ CheckIndices(c)
    BY <1>1 DEF FindIndex, FindAlias, RemoveAlias, CheckIndices
<1>2. CASE CountChanges(c) \/ Snapshot(c) \/ TakeTime(c) \/ CallFails(c) \/ GetLastTime(c)
    BY <1>2 DEF CountChanges, Snapshot, TakeTime, CallFails, GetLastTime
<1>3. CASE EnsureMetadataIndex(c) \/ InitMetadata(c) \/ SaveTime(c)
    BY <1>3 DEF EnsureMetadataIndex, InitMetadata, SaveTime
<1>4. CASE WriteBatch(c) \/ WriteFails(c)
  <2>1. UNCHANGED alias /\ (UNCHANGED index \/ (index = "none" /\ index' = "auto"))
      BY <1>4 DEF WriteBatch, WriteFails, Write
  <2> QED BY <2>1
<1>5. CASE DeleteIndex(c) \/ CreateIndex(c) \/ PutAlias(c)
    BY <1>5
<1> QED BY <1>1, <1>2, <1>3, <1>4, <1>5 DEF ServeRequest

\* The other variables keep their types: the times kept come from the clock.
DataTypeOK ==
    /\ index \in {"none", "created", "auto"} /\ alias \in BOOLEAN
    /\ target \in [Products -> Times]
    /\ metadata \in {"none", "empty", "kept"} /\ last \in Times

LEMMA ServeKeepsData ==
    ASSUME SearchTypeOK, NEW c \in Admins, ServeRequest(c) \/ CallFails(c) \/ WriteFails(c)
    PROVE  DataTypeOK' /\ UNCHANGED <<catalogue, source>>
<1>1. DataTypeOK /\ clock \in Times /\ req[c].time \in Times /\ req[c].batch \in [Products -> Times]
    BY DEF SearchTypeOK, DataTypeOK
<1>2. CASE \/ FindIndex(c) \/ FindAlias(c) \/ CheckIndices(c) \/ CountChanges(c) \/ Snapshot(c)
           \/ TakeTime(c) \/ CallFails(c) \/ GetLastTime(c)
    BY <1>1, <1>2 DEF FindIndex, FindAlias, CheckIndices, CountChanges, Snapshot, TakeTime,
                      CallFails, GetLastTime, DataTypeOK, meta
<1>3. CASE DeleteIndex(c) \/ CreateIndex(c) \/ RemoveAlias(c) \/ PutAlias(c)
    BY <1>1, <1>3, TimesFacts DEF DeleteIndex, CreateIndex, RemoveAlias, PutAlias, DataTypeOK, meta
<1>4. CASE EnsureMetadataIndex(c) \/ InitMetadata(c) \/ SaveTime(c)
    BY <1>1, <1>4 DEF EnsureMetadataIndex, InitMetadata, SaveTime, DataTypeOK
<1>5. CASE WriteBatch(c) \/ WriteFails(c)
  <2>1. PICK some : Write(c, some) /\ UNCHANGED <<catalogue, source, alias, meta>>
      BY <1>5 DEF WriteBatch, WriteFails
  <2>2. index' \in {"none", "created", "auto"} /\ target' \in [Products -> Times]
      BY <1>1, <2>1 DEF Write, DataTypeOK
  <2> QED BY <1>1, <2>1, <2>2 DEF DataTypeOK, meta
<1> QED BY <1>2, <1>3, <1>4, <1>5 DEF ServeRequest

LEMMA CatalogueKeepsTypes ==
    ASSUME SearchTypeOK, NEW p \in Products,
           \/ StampChange(p) \/ DeleteProduct(p) \/ Sync(p)
           \/ \E t \in Times : WriteChange(p, t)
    PROVE  SearchTypeOK' /\ UNCHANGED <<index, alias, req>>
<1>1. CASE StampChange(p)
  <2>1. clock' \in Times /\ clock + 1 \in Times
      BY <1>1, TimesFacts DEF StampChange, SearchTypeOK
  <2> QED BY <1>1, <2>1 DEF StampChange, SearchTypeOK, meta
<1>2. CASE DeleteProduct(p)
    BY <1>2, TimesFacts DEF DeleteProduct, SearchTypeOK, meta
<1>3. CASE Sync(p)
    BY <1>3 DEF Sync, SearchTypeOK, meta, catalogue
<1>4. ASSUME NEW t \in Times, WriteChange(p, t)
      PROVE  SearchTypeOK' /\ UNCHANGED <<index, alias, req>>
    BY <1>4 DEF WriteChange, SearchTypeOK, meta
<1> QED BY <1>1, <1>2, <1>3, <1>4

-----------------------------------------------------------------------------
(* Type correctness *)

LEMMA InitSearchTypeOK == SearchInit => SearchTypeOK
  BY TimesFacts, IdleFacts DEF SearchInit, SearchTypeOK, AdminRequest, RequestSteps

LEMMA SearchTypeStep == SearchTypeOK /\ [SearchNext]_searchVars => SearchTypeOK'
<1> SUFFICES ASSUME SearchTypeOK, [SearchNext]_searchVars PROVE SearchTypeOK'
    OBVIOUS
<1>1. ASSUME NEW c \in Admins, NEW kind \in Kinds, Ask(c, kind)
      PROVE  SearchTypeOK'
  <2>1. req' \in [Admins -> AdminRequest]
      BY <1>1, AskFacts DEF MovesTo, SearchTypeOK, AdminRequest, RequestSteps
  <2> QED BY <1>1, <2>1 DEF Ask, SearchTypeOK, AdminRequest, RequestSteps, catalogue, meta
<1>2. ASSUME NEW c \in Admins, ServeRequest(c) \/ CallFails(c) \/ WriteFails(c)
      PROVE  SearchTypeOK'
  <2>1. req' \in [Admins -> AdminRequest]
      BY <1>2, ServeFacts DEF Served, MovesTo, SearchTypeOK, AdminRequest, RequestSteps
  <2>2. DataTypeOK' /\ UNCHANGED <<catalogue, source>>
      BY <1>2, ServeKeepsData
  <2> QED BY <2>1, <2>2 DEF SearchTypeOK, DataTypeOK, AdminRequest, RequestSteps, catalogue
<1>3. CASE UNCHANGED searchVars
    BY <1>3 DEF searchVars, catalogue, meta, SearchTypeOK
<1> QED BY <1>1, <1>2, <1>3, CatalogueKeepsTypes DEF SearchNext

\* However changes, deletions, synchronisations and admin requests interleave
\* (elasticsearch_service.py:67-541), every copy of a product is a version that
\* was stamped, every time kept or passed on by a reindex is one of the clock,
\* and no request leaves the calls it may make.
THEOREM SearchTypeCorrect == SearchSpec => []SearchTypeOK
  BY InitSearchTypeOK, SearchTypeStep, PTL DEF SearchSpec

-----------------------------------------------------------------------------
(* The alias *)

LEMMA AliasStep ==
    ASSUME OneMaker, SearchTypeOK, AliasInv, [SearchNext]_searchVars
    PROVE  AliasInv'
<1> USE DEF AliasInv
<1>1. ASSUME NEW p \in Products,
             \/ StampChange(p) \/ DeleteProduct(p) \/ Sync(p)
             \/ \E t \in Times : WriteChange(p, t)
      PROVE  AliasInv'
  <2>1. UNCHANGED <<index, alias, req>>
      BY <1>1, CatalogueKeepsTypes
  <2> QED BY <2>1 DEF OnlyMakersCreate, MadeIndexStays, AliasOnMappedIndex
<1>2. ASSUME NEW c \in Admins, NEW kind \in Kinds, Ask(c, kind)
      PROVE  AliasInv'
  <2>1. PICK w \in AdminRequest :
            MovesTo(c, w) /\ w.kind = kind /\ w.at \in {"ensure", "exists"} /\ kind \in Asks[c]
      BY <1>2, AskFacts
  <2>2. UNCHANGED <<index, alias>>
      BY <1>2 DEF Ask
  <2>3. \A d \in Admins : req'[d] = IF d = c THEN w ELSE req[d]
      BY <2>1 DEF MovesTo, SearchTypeOK
  <2> QED BY <2>1, <2>2, <2>3 DEF OnlyMakersCreate, MadeIndexStays, AliasOnMappedIndex
<1>3. ASSUME NEW c \in Admins, ServeRequest(c) \/ CallFails(c) \/ WriteFails(c)
      PROVE  AliasInv'
  <2>1. PICK w \in AdminRequest : Served(c, w)
      BY <1>3, ServeFacts
  <2>2. \A d \in Admins : req'[d] = IF d = c THEN w ELSE req[d]
      BY <2>1 DEF Served, MovesTo, SearchTypeOK
  <2>3. OnlyMakersCreate'
    <3>1. w.kind = "create" => "create" \in Asks[c]
        BY <2>1 DEF Served, OnlyMakersCreate
    <3> QED BY <2>2, <3>1 DEF OnlyMakersCreate
  <2>4. MadeIndexStays'
    <3> SUFFICES ASSUME NEW d \in Admins, req'[d].kind = "create", req'[d].at \in AliasStages
                 PROVE  index' = "created"
        BY DEF MadeIndexStays, AliasStages
    <3>1. CASE CreateIndex(c)
        BY <3>1 DEF CreateIndex
    <3>2. CASE d = c /\ ~ CreateIndex(c)
      <4>1. req[c].kind = "create" /\ req[c].at \in {"alias", "unalias"} /\ UNCHANGED index
          BY <3>2, <2>1, <2>2 DEF Served, MayHandleAlias
      <4> QED BY <4>1 DEF MadeIndexStays
    <3>3. CASE d # c /\ ~ CreateIndex(c)
      <4>1. req[d].kind = "create" /\ index = "created" /\ "create" \in Asks[d]
          BY <3>3, <2>2 DEF MadeIndexStays, OnlyMakersCreate, AliasStages
      <4>2. ~ DeleteIndex(c)
          BY <3>3, <4>1 DEF DeleteIndex, At, OnlyMakersCreate, OneMaker
      <4> QED BY <3>3, <4>1, <4>2, <1>3, IndexFacts DEF PutAlias
    <3> QED BY <3>1, <3>2, <3>3
  <2>5. AliasOnMappedIndex'
    <3>1. CASE DeleteIndex(c)
        BY <3>1 DEF DeleteIndex, AliasOnMappedIndex
    <3>2. CASE CreateIndex(c)
        BY <3>2 DEF CreateIndex, AliasOnMappedIndex
    <3>3. CASE PutAlias(c)
        BY <3>3 DEF PutAlias, At, MadeIndexStays, AliasOnMappedIndex
    <3> QED BY <3>1, <3>2, <3>3, <1>3, IndexFacts DEF AliasOnMappedIndex
  <2> QED BY <2>3, <2>4, <2>5
<1>4. CASE UNCHANGED searchVars
    BY <1>4 DEF searchVars, OnlyMakersCreate, MadeIndexStays, AliasOnMappedIndex
<1> QED BY <1>1, <1>2, <1>3, <1>4 DEF SearchNext

\* As long as one client makes indices, searches never go to an index without
\* its mapping: an index that a late reindex made by itself
\* (elasticsearch_service.py:177-193) is refused by the creation that follows
\* (line 115), so setup_alias never points products_search at it.
THEOREM AliasStaysMapped == ASSUME OneMaker PROVE SearchSpec => []AliasOnMappedIndex
<1>1. SearchInit => SearchTypeOK /\ AliasInv
    BY TimesFacts, IdleFacts DEF SearchInit, SearchTypeOK, AdminRequest, RequestSteps, AliasInv,
        OnlyMakersCreate, MadeIndexStays, AliasOnMappedIndex
<1>2. SearchTypeOK /\ AliasInv /\ [SearchNext]_searchVars => (SearchTypeOK /\ AliasInv)'
    BY SearchTypeStep, AliasStep
<1>3. AliasInv => AliasOnMappedIndex
    BY DEF AliasInv
<1> QED BY <1>1, <1>2, <1>3, PTL DEF SearchSpec
=============================================================================
