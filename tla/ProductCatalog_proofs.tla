------------------------ MODULE ProductCatalog_proofs ------------------------
(***************************************************************************)
(* Proofs about ProductCatalog, for any sets of requests and editors.      *)
(*                                                                         *)
(* OneRowPerRequest is not inductive by itself: a request with a row could *)
(* be repeated with the next id.  It is not, because a row is only ever    *)
(* inserted by the step that ends the request (RowEndsRequest).            *)
(* RowHasDocument needs that a request about to insert a row has inserted  *)
(* the document, and AnsweredUpdateWasMade that an update under way has    *)
(* seen a document, which never comes back once it is gone.                *)
(***************************************************************************)
EXTENDS ProductCatalog, TLAPS

RowEndsRequest ==
    \A p \in rows : /\ create[p[1]].retries = p[2]
                    /\ create[p[1]].stage \in {"created", "failed"}

RowFollowsDocument ==
    \A c \in Requests :
        create[c].stage = "row" => Id(c) \in Products /\ document[Id(c)] # "none"

DocumentBeforeTimeouts ==
    \A c \in Requests : create[c].stage = "document" => Id(c) \in Products

\* The ids a request may still use have no document: an attempt that ended with
\* a lock wait timeout is never repeated with its own id.
UnusedIdsAreFree ==
    \A c \in Requests : \A n \in 0 .. MaxRetries - 1 :
        \/ create[c].stage = "document" /\ n >= create[c].retries
        \/ create[c].stage = "row" /\ n > create[c].retries
        => document[<<c, n>>] = "none"

EditSawDocument ==
    \A e \in Editors :
        /\ edit[e].stage \in {"write", "reread", "updated"} =>
               document[edit[e].product] # "none"
        /\ (edit[e].stage = "reread" /\ document[edit[e].product] = "stored") =>
               e \in editedBy[edit[e].product]

CatalogInv ==
    /\ CatalogTypeOK
    /\ RowEndsRequest /\ RowFollowsDocument /\ DocumentBeforeTimeouts
    /\ RowHasDocument /\ UnusedIdsAreFree
    /\ EditSawDocument /\ AnsweredUpdateWasMade

-----------------------------------------------------------------------------
\* An id is a request and a number of timeouts.
LEMMA IdParts == \A c \in Requests : Id(c)[1] = c /\ Id(c)[2] = create[c].retries
  BY DEF Id

LEMMA InitCatalogInv == CatalogInit => CatalogInv
<1> SUFFICES ASSUME CatalogInit PROVE CatalogInv
    OBVIOUS
<1>1. CatalogTypeOK
    BY DEF CatalogInit, CatalogTypeOK, CreateStage, EditStage, MaxRetries
<1>2. DocumentBeforeTimeouts
    BY DEF CatalogInit, DocumentBeforeTimeouts, Id, Products, MaxRetries
<1> QED
    BY <1>1, <1>2 DEF CatalogInit, CatalogInv, RowEndsRequest, RowFollowsDocument, RowHasDocument,
                      UnusedIdsAreFree, Products, EditSawDocument, AnsweredUpdateWasMade

\* Type correctness is preserved.
LEMMA NextCatalogTypeOK ==
    ASSUME CatalogTypeOK, RowFollowsDocument, DocumentBeforeTimeouts, [CatalogNext]_catalogVars
    PROVE  CatalogTypeOK'
<1> USE DEF CatalogTypeOK
<1>1. ASSUME NEW c \in Requests, InsertDocument(c)
      PROVE  CatalogTypeOK'
    BY <1>1 DEF InsertDocument, CreateTo, CreateStage
<1>2. ASSUME NEW c \in Requests, InsertRow(c)
      PROVE  CatalogTypeOK'
  <2>1. Id(c) \in Products
      BY <1>2 DEF InsertRow, RowFollowsDocument
  <2>2. rows' \in SUBSET Products
      BY <1>2, <2>1 DEF InsertRow
  <2>3. create' \in [Requests -> [stage : CreateStage, retries : 0 .. MaxRetries]]
      BY <1>2 DEF InsertRow, CreateTo, CreateStage
  <2> QED BY <1>2, <2>2, <2>3 DEF InsertRow, CreateStage
<1>3. ASSUME NEW c \in Requests, RowFails(c)
      PROVE  CatalogTypeOK'
  <2>1. create[c].retries \in 0 .. MaxRetries - 1
      BY <1>3 DEF RowFails, RowFollowsDocument, Id, Products
  <2> QED BY <1>3, <2>1 DEF RowFails, AfterTimeout, CreateTo, CreateStage, MaxRetries
<1>4. ASSUME NEW c \in Requests, LoseCreate(c)
      PROVE  CatalogTypeOK'
    BY <1>4 DEF LoseCreate, CreateTo, CreateStage
<1>5. ASSUME NEW e \in Editors, NEW p \in Products, FindForUpdate(e, p)
      PROVE  CatalogTypeOK'
    BY <1>5 DEF FindForUpdate, EditStage
<1>6. ASSUME NEW e \in Editors, WriteUpdate(e)
      PROVE  CatalogTypeOK'
    BY <1>6 DEF WriteUpdate, EditTo, EditStage
<1>7. ASSUME NEW e \in Editors, Reread(e) \/ UpdateRaises(e)
      PROVE  CatalogTypeOK'
    BY <1>7 DEF Reread, UpdateRaises, EditTo, EditStage
<1>8. ASSUME NEW p \in Products, DeleteProduct(p)
      PROVE  CatalogTypeOK'
    BY <1>8 DEF DeleteProduct
<1>9. CASE UNCHANGED catalogVars
    BY <1>9 DEF catalogVars
<1> QED
    BY <1>1, <1>2, <1>3, <1>4, <1>5, <1>6, <1>7, <1>8, <1>9 DEF CatalogNext

-----------------------------------------------------------------------------
(* The parts about creation. *)

CreateInv == RowEndsRequest /\ RowFollowsDocument /\ DocumentBeforeTimeouts /\ RowHasDocument

\* A step of one request leaves the others, and the rows they have, alone.
LEMMA CreateStep ==
    ASSUME CatalogTypeOK, CreateInv, NEW c \in Requests,
           InsertDocument(c) \/ InsertRow(c) \/ RowFails(c) \/ LoseCreate(c)
    PROVE  CreateInv'
<1> USE DEF CatalogTypeOK
<1>0. /\ Id(c) \in Products /\ create[c].retries \in Nat
      /\ create[c].stage \in {"document", "row"}
      /\ \A p \in rows : p[1] # c
    BY DEF CreateInv, RowEndsRequest, RowFollowsDocument, DocumentBeforeTimeouts,
           InsertDocument, InsertRow, RowFails, LoseCreate, MaxRetries
<1>1. \A d \in Requests : d # c => create'[d] = create[d] /\ Id(d)' = Id(d) /\ Id(d) # Id(c)
    BY DEF InsertDocument, InsertRow, RowFails, LoseCreate, CreateTo, AfterTimeout, Id
<1>2. \A p \in Products : document[p] # "none" => document'[p] # "none"
    BY DEF InsertDocument, InsertRow, RowFails, LoseCreate
<1>3. \A p \in Products : p[1] \in Requests
    BY DEF Products
<1>4. CASE InsertDocument(c) \/ LoseCreate(c)
  <2>1. Id(c)' = Id(c) /\ rows' = rows /\ create'[c].stage \in {"row", "failed", "lost"}
      BY <1>4 DEF InsertDocument, LoseCreate, CreateTo, Id
  <2>2. create'[c].stage = "row" => document'[Id(c)] # "none"
      BY <1>0, <1>4 DEF InsertDocument, LoseCreate, CreateTo
  <2> QED
      BY <1>0, <1>1, <1>2, <1>3, <2>1, <2>2
      DEF CreateInv, RowEndsRequest, RowFollowsDocument, DocumentBeforeTimeouts, RowHasDocument
<1>5. CASE InsertRow(c)
  <2>1. /\ Id(c)' = Id(c) /\ rows' = rows \cup {Id(c)} /\ document' = document
        /\ create'[c].stage \in {"created", "failed"} /\ create'[c].retries = create[c].retries
      BY <1>5 DEF InsertRow, CreateTo, Id
  <2>2. document[Id(c)] # "none" /\ Id(c)[1] = c /\ Id(c)[2] = create[c].retries
      BY <1>5, IdParts DEF InsertRow, CreateInv, RowFollowsDocument
  <2>3. RowEndsRequest'
      BY <1>0, <1>1, <1>3, <2>1, <2>2 DEF CreateInv, RowEndsRequest
  <2> QED
      BY <1>0, <1>1, <1>2, <1>3, <2>1, <2>2, <2>3
      DEF CreateInv, RowFollowsDocument, DocumentBeforeTimeouts, RowHasDocument
<1>6. CASE RowFails(c)
  <2>1. rows' = rows /\ document' = document
      BY <1>6 DEF RowFails
  <2>2. /\ create'[c].stage \in {"document", "failed"}
        /\ create'[c].stage = "document" => create'[c].retries \in 0 .. MaxRetries - 1
      BY <1>0, <1>6 DEF RowFails, AfterTimeout, CreateTo, MaxRetries
  <2>3. create'[c].stage = "document" => Id(c)' \in Products
      BY <2>2 DEF Id, Products
  <2>4. RowEndsRequest' /\ RowHasDocument'
      BY <1>0, <1>1, <1>3, <2>1, <2>2 DEF CreateInv, RowEndsRequest, RowHasDocument
  <2>5. RowFollowsDocument'
      BY <1>1, <2>1, <2>2 DEF CreateInv, RowFollowsDocument
  <2>6. DocumentBeforeTimeouts'
      BY <1>0, <1>1, <2>1, <2>2, <2>3 DEF CreateInv, DocumentBeforeTimeouts
  <2> QED BY <2>4, <2>5, <2>6 DEF CreateInv
<1> QED
    BY <1>4, <1>5, <1>6

\* The other steps only delete documents, if anything.
LEMMA OtherStepCreate ==
    ASSUME CatalogTypeOK, CreateInv, UNCHANGED <<create, rows>>,
           \A p \in Products : document[p] # "none" => document'[p] # "none"
    PROVE  CreateInv'
<1>1. \A c \in Requests : Id(c)' = Id(c)
    BY DEF Id
<1> QED
    BY <1>1 DEF CatalogTypeOK, CreateInv, RowEndsRequest, RowFollowsDocument,
                DocumentBeforeTimeouts, RowHasDocument

-----------------------------------------------------------------------------
(* The parts about updates. *)

EditInv == EditSawDocument /\ AnsweredUpdateWasMade

\* A document goes from none to stored to deleted, one way: no deleted one comes
\* back and no document becomes none.
OneWay(p) ==
    /\ document[p] # "none" => document'[p] # "none"
    /\ document[p] = "deleted" => document'[p] = "deleted"

\* No step turns a document back: an insertion finds its id unused.
LEMMA DocumentsAgeOneWay ==
    ASSUME CatalogTypeOK, DocumentBeforeTimeouts, UnusedIdsAreFree, [CatalogNext]_catalogVars
    PROVE  \A p \in Products : OneWay(p)
<1> USE DEF CatalogTypeOK, OneWay
<1>1. ASSUME NEW c \in Requests, InsertDocument(c)
      PROVE  \A p \in Products : OneWay(p)
  <2>1. create[c].retries \in 0 .. MaxRetries - 1
      BY <1>1 DEF InsertDocument, DocumentBeforeTimeouts, Id, Products
  <2>2. create[c].retries >= create[c].retries
      BY <2>1 DEF MaxRetries
  <2>3. document[<<c, create[c].retries>>] = "none"
      BY <1>1, <2>1, <2>2 DEF InsertDocument, UnusedIdsAreFree
  <2>4. document[Id(c)] = "none"
      BY <2>3 DEF Id
  <2> QED BY <1>1, <2>4 DEF InsertDocument
<1>2. ASSUME NEW p \in Products, DeleteProduct(p)
      PROVE  \A q \in Products : OneWay(q)
    BY <1>2 DEF DeleteProduct
<1>3. ASSUME UNCHANGED document
      PROVE  \A p \in Products : OneWay(p)
    BY <1>3
<1> QED
    BY <1>1, <1>2, <1>3
    DEF CatalogNext, InsertRow, RowFails, LoseCreate, FindForUpdate, WriteUpdate, Reread,
        UpdateRaises, catalogVars

\* Unused ids stay unused.
LEMMA NextUnused ==
    ASSUME CatalogTypeOK, DocumentBeforeTimeouts, UnusedIdsAreFree, [CatalogNext]_catalogVars
    PROVE  UnusedIdsAreFree'
<1> USE DEF CatalogTypeOK
<1>0. ASSUME UNCHANGED create, \A p \in Products : document[p] = "none" => document'[p] = "none"
      PROVE  UnusedIdsAreFree'
    BY <1>0 DEF UnusedIdsAreFree, Products
<1>1. ASSUME NEW c \in Requests, InsertDocument(c) \/ InsertRow(c) \/ RowFails(c) \/ LoseCreate(c)
      PROVE  UnusedIdsAreFree'
  <2>1. \A d \in Requests : d # c => create'[d] = create[d]
      BY <1>1 DEF InsertDocument, InsertRow, RowFails, LoseCreate, CreateTo, AfterTimeout
  <2>2. \A p \in Products : p # Id(c) => document'[p] = document[p]
      BY <1>1 DEF InsertDocument, InsertRow, RowFails, LoseCreate
  <2>3. \A d \in Requests : \A n \in 0 .. MaxRetries - 1 :
            <<d, n>> \in Products /\ ((d # c \/ n # create[c].retries) => <<d, n>> # Id(c))
      BY DEF Products, Id
  <2>4. create[c].retries \in Nat
      OBVIOUS
  <2>5. /\ create'[c].stage = "row" => create[c].stage = "document" /\ create'[c].retries = create[c].retries
        /\ create'[c].stage = "document" =>
              create[c].stage = "row" /\ create'[c].retries = create[c].retries + 1
      BY <1>1 DEF InsertDocument, InsertRow, RowFails, LoseCreate, CreateTo, AfterTimeout
  <2>6. ASSUME NEW n \in 0 .. MaxRetries - 1,
               \/ create'[c].stage = "document" /\ n >= create'[c].retries
               \/ create'[c].stage = "row" /\ n > create'[c].retries
        PROVE  n > create[c].retries /\ create[c].stage \in {"document", "row"}
      BY <2>4, <2>5, <2>6 DEF MaxRetries
  <2>7. ASSUME NEW n \in 0 .. MaxRetries - 1,
               \/ create'[c].stage = "document" /\ n >= create'[c].retries
               \/ create'[c].stage = "row" /\ n > create'[c].retries
        PROVE  document'[<<c, n>>] = "none"
    <3>1. n > create[c].retries /\ create[c].stage \in {"document", "row"}
        BY <2>6, <2>7
    <3>2. n \in Nat /\ n >= create[c].retries /\ n # create[c].retries
        BY <2>4, <3>1 DEF MaxRetries
    <3>3. document[<<c, n>>] = "none"
        BY <3>1, <3>2 DEF UnusedIdsAreFree
    <3>4. <<c, n>> \in Products /\ <<c, n>> # Id(c)
        BY <2>3, <3>2
    <3> QED BY <2>2, <3>3, <3>4
  <2>8. \A d \in Requests : \A n \in 0 .. MaxRetries - 1 :
            d # c => document'[<<d, n>>] = document[<<d, n>>]
      BY <2>2, <2>3
  <2> QED BY <2>1, <2>7, <2>8 DEF UnusedIdsAreFree
<1>2. ASSUME NEW e \in Editors, NEW p \in Products, FindForUpdate(e, p)
      PROVE  UnusedIdsAreFree'
    BY <1>0, <1>2 DEF FindForUpdate
<1>3. ASSUME NEW e \in Editors, WriteUpdate(e) \/ Reread(e) \/ UpdateRaises(e)
      PROVE  UnusedIdsAreFree'
    BY <1>0, <1>3 DEF WriteUpdate, Reread, UpdateRaises
<1>4. ASSUME NEW p \in Products, DeleteProduct(p)
      PROVE  UnusedIdsAreFree'
    BY <1>0, <1>4 DEF DeleteProduct
<1>5. CASE UNCHANGED catalogVars
    BY <1>0, <1>5 DEF catalogVars
<1> QED
    BY <1>1, <1>2, <1>3, <1>4, <1>5 DEF CatalogNext

\* What an update has seen and done stays true when documents only age.
LEMMA NextEdit ==
    ASSUME CatalogTypeOK, EditInv, [CatalogNext]_catalogVars, \A p \in Products : OneWay(p)
    PROVE  EditInv'
<1> USE DEF CatalogTypeOK, EditInv, EditSawDocument, AnsweredUpdateWasMade, OneWay
<1>1. ASSUME UNCHANGED <<edit, editedBy>>
      PROVE  EditInv'
  <2>1. ASSUME NEW p \in Products, document[p] # "none", document'[p] = "stored"
        PROVE  document[p] = "stored"
      BY <2>1
  <2> QED BY <1>1, <2>1
<1>2. ASSUME NEW e \in Editors, NEW p \in Products, FindForUpdate(e, p)
      PROVE  EditInv'
    BY <1>2 DEF FindForUpdate
<1>3. ASSUME NEW e \in Editors, WriteUpdate(e)
      PROVE  EditInv'
    BY <1>3 DEF WriteUpdate, EditTo
<1>4. ASSUME NEW e \in Editors, Reread(e)
      PROVE  EditInv'
  <2>1. /\ edit'[e].product = edit[e].product
        /\ edit'[e].stage \in {"updated", "gone"}
        /\ edit'[e].stage = "updated" => document[edit[e].product] = "stored"
        /\ edit[e].stage = "reread"
      BY <1>4 DEF Reread, EditTo
  <2>2. /\ \A d \in Editors : d # e => edit'[d] = edit[d]
        /\ document' = document /\ editedBy' = editedBy
      BY <1>4 DEF Reread, EditTo
  <2> QED BY <2>1, <2>2
<1>5. ASSUME NEW e \in Editors, UpdateRaises(e)
      PROVE  EditInv'
  <2>1. /\ edit'[e].stage = "failed"
        /\ \A d \in Editors : d # e => edit'[d] = edit[d]
        /\ document' = document /\ editedBy' = editedBy
      BY <1>5 DEF UpdateRaises, EditTo
  <2> QED BY <2>1
<1> QED
    BY <1>1, <1>2, <1>3, <1>4, <1>5
    DEF CatalogNext, InsertDocument, InsertRow, RowFails, LoseCreate, DeleteProduct, catalogVars

-----------------------------------------------------------------------------
LEMMA NextCatalogInv == CatalogInv /\ [CatalogNext]_catalogVars => CatalogInv'
<1> SUFFICES ASSUME CatalogInv, [CatalogNext]_catalogVars PROVE CatalogInv'
    OBVIOUS
<1> USE DEF CatalogInv
<1>1. CatalogTypeOK'
    BY NextCatalogTypeOK
<1>2. \A p \in Products : OneWay(p)
    BY DocumentsAgeOneWay
<1>3. UnusedIdsAreFree'
    BY NextUnused
<1>4. EditInv'
    BY <1>2, NextEdit DEF EditInv
<1>5. CreateInv'
  <2>1. CreateInv
      BY DEF CreateInv
  <2>2. ASSUME UNCHANGED <<create, rows>>
        PROVE  CreateInv'
      BY <1>2, <2>1, <2>2, OtherStepCreate DEF OneWay
  <2>3. ASSUME NEW c \in Requests,
               InsertDocument(c) \/ InsertRow(c) \/ RowFails(c) \/ LoseCreate(c)
        PROVE  CreateInv'
      BY <2>1, <2>3, CreateStep
  <2> QED
      BY <2>2, <2>3 DEF CatalogNext, FindForUpdate, WriteUpdate, Reread, UpdateRaises, DeleteProduct, catalogVars
<1> QED
    BY <1>1, <1>3, <1>4, <1>5 DEF CreateInv, EditInv

LEMMA InvariantCatalogInv == CatalogSpec => []CatalogInv
  BY InitCatalogInv, NextCatalogInv, PTL DEF CatalogSpec

\* Every reachable state of the catalogue is well typed: no request is repeated
\* more than MaxRetries times (product_service.py:94-162).
THEOREM CatalogTypeCorrect == CatalogSpec => []CatalogTypeOK
<1>1. CatalogInv => CatalogTypeOK
    BY DEF CatalogInv
<1> QED
    BY <1>1, InvariantCatalogInv, PTL

\* However many requests there are, none puts two products on sale
\* (product_service.py:97-165).
THEOREM AtMostOneRow == CatalogSpec => []OneRowPerRequest
<1>1. CatalogInv => OneRowPerRequest
  <2> SUFFICES ASSUME CatalogInv, NEW c \in Requests, NEW m \in 0 .. MaxRetries - 1,
                      NEW n \in 0 .. MaxRetries - 1, {<<c, m>>, <<c, n>>} \subseteq rows
               PROVE  m = n
      BY DEF OneRowPerRequest
  <2>1. create[c].retries = m /\ create[c].retries = n
      BY DEF CatalogInv, RowEndsRequest
  <2> QED BY <2>1
<1> QED
    BY <1>1, InvariantCatalogInv, PTL

\* No failure leaves a row whose document was never stored
\* (product_service.py:108-149).
THEOREM SoldIsShown == CatalogSpec => []RowHasDocument
<1>1. CatalogInv => RowHasDocument
    BY DEF CatalogInv
<1> QED
    BY <1>1, InvariantCatalogInv, PTL

\* An update is answered with a product only if it reached the document
\* (product_service.py:401-425).
THEOREM UpdatesAreReal == CatalogSpec => []AnsweredUpdateWasMade
<1>1. CatalogInv => AnsweredUpdateWasMade
    BY DEF CatalogInv
<1> QED
    BY <1>1, InvariantCatalogInv, PTL

\* A deleted product never comes back (product_service.py:401-442).
THEOREM NoResurrection == CatalogSpec => DeletedStaysDeleted
<1>1. CatalogInv /\ [CatalogNext]_catalogVars =>
          [\A p \in Products : document[p] = "deleted" => document'[p] = "deleted"]_document
    BY DocumentsAgeOneWay DEF CatalogInv, OneWay
<1> QED
    BY <1>1, InvariantCatalogInv, PTL DEF CatalogSpec, DeletedStaysDeleted
=============================================================================
