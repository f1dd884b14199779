---------------------------- MODULE ProductCatalog ----------------------------
(***************************************************************************)
(* The product catalogue: ProductService.create_product, update_product    *)
(* and delete_product (fastapi_product/app/services/product_service.py).   *)
(* A product is a document in MongoDB (what is shown) and a row in MySQL   *)
(* (what is sold), written one after the other without a transaction over  *)
(* both; update and delete touch the document only.                        *)
(*                                                                         *)
(* MongoDB gives every inserted document a new id, and the row takes it:   *)
(* <<c, n>> is the id made by request c after n lock wait timeouts.        *)
(***************************************************************************)
EXTENDS Naturals

CONSTANTS Requests,   \* POST /products requests
          Editors     \* PUT /products/{id} requests

\* max_retries (product_service.py:94)
MaxRetries == 3

VARIABLES create,    \* create[c]: [stage, retries] of request c
          document,  \* document[p]: the document with id p in MongoDB
          rows,      \* ids with a row in MySQL
          edit,      \* edit[e]: [stage, product] of request e
          editedBy   \* editedBy[p]: the updates that reached document p

catalogVars == <<create, document, rows, edit, editedBy>>

Products == Requests \X (0 .. MaxRetries - 1)

CreateStage == {"document", "row", "created", "failed", "lost"}
EditStage   == {"find", "write", "reread", "updated", "gone", "failed"}

CatalogTypeOK ==
    /\ create \in [Requests -> [stage : CreateStage, retries : 0 .. MaxRetries]]
    /\ document \in [Products -> {"none", "stored", "deleted"}]
    /\ rows \in SUBSET Products
    /\ edit \in [Editors -> [stage : EditStage, product : Products]]
    /\ editedBy \in [Products -> SUBSET Editors]

CatalogInit ==
    /\ create = [c \in Requests |-> [stage |-> "document", retries |-> 0]]
    /\ document = [p \in Products |-> "none"]
    /\ rows = {}
    /\ \E p \in Products : edit = [e \in Editors |-> [stage |-> "find", product |-> p]]
    /\ editedBy = [p \in Products |-> {}]

CreateTo(c, stage) == create' = [create EXCEPT ![c].stage = stage]
EditTo(e, stage)   == edit' = [edit EXCEPT ![e].stage = stage]

\* The id of the document request c inserted last, or is about to insert.
Id(c) == <<c, create[c].retries>>

-----------------------------------------------------------------------------
(* create_product *)

\* Mutant of InsertDocument: a failed insert does not end the request.
InsertDocumentUnchecked(c) ==
    /\ create[c].stage = "document"
    /\ document' \in {document, [document EXCEPT ![Id(c)] = "stored"]}
    /\ CreateTo(c, "row")
    /\ UNCHANGED <<rows, edit, editedBy>>

\* insert_one.  When it raises, with or without effect, the request fails: only
\* a lock wait timeout of MySQL is tried again.
InsertDocument(c) ==
    /\ create[c].stage = "document"
    /\ \/ /\ document' = [document EXCEPT ![Id(c)] = "stored"]
          /\ CreateTo(c, "row") \/ CreateTo(c, "failed")
       \/ UNCHANGED document /\ CreateTo(c, "failed")
    /\ UNCHANGED <<rows, edit, editedBy>>

\* Where a request goes after a lock wait timeout: the whole body is repeated,
\* the insertion of a document included, at most MaxRetries times in all.
AfterTimeout(c) ==
    LET n == create[c].retries + 1
    IN  create' = [create EXCEPT ![c] =
            IF n < MaxRetries THEN [stage |-> "document", retries |-> n]
                              ELSE [stage |-> "failed", retries |-> n]]

\* Mutant of InsertRow: an unacknowledged commit is tried again as well.
InsertRowRetried(c) ==
    /\ create[c].stage = "row"
    /\ rows' = rows \cup {Id(c)}
    /\ CreateTo(c, "created") \/ AfterTimeout(c)
    /\ UNCHANGED <<document, edit, editedBy>>

\* The transaction that inserts the row; its commit may go unacknowledged, which
\* ends the request with an error.
InsertRow(c) ==
    /\ create[c].stage = "row"
    /\ rows' = rows \cup {Id(c)}
    /\ CreateTo(c, "created") \/ CreateTo(c, "failed")
    /\ UNCHANGED <<document, edit, editedBy>>

\* Mutant of RowFails: `<=` for `<` in the test of the retries.
RowFailsOnceMore(c) ==
    /\ create[c].stage = "row"
    /\ create' = [create EXCEPT ![c] = [stage |-> "document", retries |-> @.retries + 1]]
    /\ UNCHANGED <<document, rows, edit, editedBy>>

\* The transaction raises: error 1205, or anything else.
RowFails(c) ==
    /\ create[c].stage = "row"
    /\ AfterTimeout(c) \/ CreateTo(c, "failed")
    /\ UNCHANGED <<document, rows, edit, editedBy>>

\* The process dies with the request.
LoseCreate(c) ==
    /\ create[c].stage \in {"document", "row"}
    /\ CreateTo(c, "lost")
    /\ UNCHANGED <<document, rows, edit, editedBy>>

-----------------------------------------------------------------------------
(* update_product, delete_product *)

\* find_one: without the document the answer is None.
FindForUpdate(e, p) ==
    /\ edit[e].stage = "find"
    /\ edit' = [edit EXCEPT ![e] =
           [stage |-> IF document[p] = "stored" THEN "write" ELSE "gone", product |-> p]]
    /\ UNCHANGED <<create, document, rows, editedBy>>

\* Mutant of WriteUpdate: update_one with upsert.
WriteUpdateUpsert(e) ==
    LET p == edit[e].product IN
    /\ edit[e].stage = "write"
    /\ document' = [document EXCEPT ![p] = "stored"]
    /\ editedBy' = [editedBy EXCEPT ![p] = @ \cup {e}]
    /\ EditTo(e, "reread")
    /\ UNCHANGED <<create, rows>>

\* update_one without upsert: nothing happens to a document deleted meanwhile.
WriteUpdate(e) ==
    LET p == edit[e].product IN
    /\ edit[e].stage = "write"
    /\ editedBy' = [editedBy EXCEPT ![p] =
           IF document[p] = "stored" THEN @ \cup {e} ELSE @]
    /\ EditTo(e, "reread")
    /\ UNCHANGED <<create, document, rows>>

\* Mutant of Reread: the document read before the update is answered.
RereadForgotten(e) ==
    /\ edit[e].stage = "reread"
    /\ EditTo(e, "updated")
    /\ UNCHANGED <<create, document, rows, editedBy>>

\* find_one again, and the answer.
Reread(e) ==
    /\ edit[e].stage = "reread"
    /\ EditTo(e, IF document[edit[e].product] = "stored" THEN "updated" ELSE "gone")
    /\ UNCHANGED <<create, document, rows, editedBy>>

\* One of the three calls raises, or the process dies.
UpdateRaises(e) ==
    /\ edit[e].stage \in {"find", "write", "reread"}
    /\ EditTo(e, "failed")
    /\ UNCHANGED <<create, document, rows, editedBy>>

\* delete_one: the row in MySQL stays.
DeleteProduct(p) ==
    /\ document[p] = "stored"
    /\ document' = [document EXCEPT ![p] = "deleted"]
    /\ UNCHANGED <<create, rows, edit, editedBy>>

-----------------------------------------------------------------------------
CatalogNext ==
    \/ \E c \in Requests : InsertDocument(c) \/ InsertRow(c) \/ RowFails(c) \/ LoseCreate(c)
    \/ \E e \in Editors : \/ \E p \in Products : FindForUpdate(e, p)
                          \/ WriteUpdate(e) \/ Reread(e) \/ UpdateRaises(e)
    \/ \E p \in Products : DeleteProduct(p)

CatalogSpec == CatalogInit /\ [][CatalogNext]_catalogVars

-----------------------------------------------------------------------------
\* A request puts at most one product on sale, however often it is repeated and
\* whatever happens to its commits (product_service.py:97-165).
OneRowPerRequest ==
    \A c \in Requests : \A m, n \in 0 .. MaxRetries - 1 :
        {<<c, m>>, <<c, n>>} \subseteq rows => m = n

\* What is sold is, or was until it was deleted, shown: no failure between the
\* two stores leaves a row without its document, and a request answered with
\* the product has stored both (product_service.py:108-149).
RowHasDocument ==
    /\ \A p \in rows : document[p] # "none"
    /\ \A c \in Requests : create[c].stage = "created" => Id(c) \in rows

\* A deleted product does not come back through an update that was under way
\* (product_service.py:401-442).
DeletedStaysDeleted ==
    [][\A p \in Products : document[p] = "deleted" => document'[p] = "deleted"]_document

\* An update answered with a product has reached it, deletions in between
\* notwithstanding (product_service.py:401-425).
AnsweredUpdateWasMade ==
    \A e \in Editors : edit[e].stage = "updated" => e \in editedBy[edit[e].product]
=============================================================================
