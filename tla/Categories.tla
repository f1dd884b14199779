------------------------------ MODULE Categories ------------------------------
(***************************************************************************)
(* The categories in MySQL and the products in them: CategoryManager       *)
(* (fastapi_product/app/services/category_service.py) behind the endpoints *)
(* of app/api/endpoints/categories.py.                                     *)
(*                                                                         *)
(* Every request has a session, and so a transaction, of its own.  It      *)
(* reads a snapshot (REPEATABLE READ) with SELECT and the committed rows   *)
(* with UPDATE, and its rows, and the gaps its UPDATE scanned, stay locked *)
(* until it ends.  The sessions do not flush by themselves: the row of an  *)
(* association is written by commit(), after the UPDATE of the others.     *)
(*                                                                         *)
(* One product; the rows of other products only add waits.  Names and the  *)
(* level, which is the length of the path, are left out, and so are the    *)
(* answers: a refused request (no such parent, no such category) changes   *)
(* nothing, and nothing depends on what another request is told.           *)
(***************************************************************************)
EXTENDS Naturals, Sequences, SequencesExt

CONSTANTS Clients,       \* senders of requests, one at a time each
          MaxCategories  \* bound: category ids

ASSUME CategoriesAssumption == MaxCategories \in Nat

CategoryIds == 1 .. MaxCategories

VARIABLES used,        \* ids that auto_increment has given away
          categories,  \* committed categories
          parent,      \* parent[k], 0 for a category at the top
          path,        \* path[k]: the ids from the top to k
          link,        \* link[k]: the committed row (product, k), "none" without one
          txn          \* txn[c]: the request of client c and its transaction

tree == <<used, categories, parent, path>>
categoryVars == <<tree, link, txn>>

Links == {"none", "plain", "primary"}

Idle == [at |-> "idle", id |-> 0, above |-> 0, primary |-> FALSE, seen |-> "none",
         locks |-> {}, gaps |-> FALSE, wrote |-> [k \in CategoryIds |-> "none"]]

CategoriesTypeOK ==
    /\ used \in 0 .. MaxCategories
    /\ categories \subseteq 1 .. used
    /\ parent \in [CategoryIds -> 0 .. MaxCategories]
    /\ path \in [CategoryIds -> Seq(CategoryIds)]
    /\ link \in [CategoryIds -> Links]
    /\ txn \in [Clients ->
         [at : {"idle", "create", "publish", "select", "clear", "flush", "commit"},
          id : 0 .. MaxCategories, above : 0 .. MaxCategories, primary : BOOLEAN,
          seen : Links, locks : SUBSET CategoryIds, gaps : BOOLEAN, wrote : [CategoryIds -> Links]]]

CategoryInit ==
    /\ used = 0
    /\ categories = {}
    /\ parent = [k \in CategoryIds |-> 0]
    /\ path = [k \in CategoryIds |-> <<>>]
    /\ link = [k \in CategoryIds |-> "none"]
    /\ txn = [c \in Clients |-> Idle]

\* The transaction of c is over and its locks are free.
End(c) == txn' = [txn EXCEPT ![c] = Idle]

-----------------------------------------------------------------------------
(* create_category *)

PostCategory(c, above) ==
    /\ txn[c].at = "idle"
    /\ above \in categories \cup {0}
    /\ txn' = [txn EXCEPT ![c] = [Idle EXCEPT !.at = "create", !.above = above]]
    /\ UNCHANGED <<tree, link>>

\* Mutant of InsertCategory: commit() where the id is needed, with the
\* temporary path.
InsertCategoryCommitted(c) ==
    /\ txn[c].at = "create"
    /\ used < MaxCategories
    /\ used' = used + 1
    /\ categories' = categories \cup {used + 1}
    /\ parent' = [parent EXCEPT ![used + 1] = txn[c].above]
    /\ txn' = [txn EXCEPT ![c].at = "publish", ![c].id = used + 1]
    /\ UNCHANGED <<path, link>>

\* Mutant of InsertCategory: the id is the next one after the committed categories.
InsertCategoryCounted(c) ==
    /\ txn[c].at = "create"
    /\ Cardinality(categories) < MaxCategories
    /\ txn' = [txn EXCEPT ![c].at = "publish", ![c].id = Cardinality(categories) + 1]
    /\ UNCHANGED <<tree, link>>

\* flush() for the id; the row is not committed yet.
InsertCategory(c) ==
    /\ txn[c].at = "create"
    /\ used < MaxCategories
    /\ used' = used + 1
    /\ txn' = [txn EXCEPT ![c].at = "publish", ![c].id = used + 1]
    /\ UNCHANGED <<categories, parent, path, link>>

\* The path is known with the id, and committed with the row.
PublishCategory(c) ==
    LET k == txn[c].id
        above == txn[c].above
    IN  /\ txn[c].at = "publish"
        /\ categories' = categories \cup {k}
        /\ parent' = [parent EXCEPT ![k] = above]
        /\ path' = [path EXCEPT ![k] = Append(IF above = 0 THEN <<>> ELSE path[above], k)]
        /\ End(c)
        /\ UNCHANGED <<used, link>>

-----------------------------------------------------------------------------
(* associate_product_with_category *)

PostAssociation(c, k, primary) ==
    /\ txn[c].at = "idle"
    /\ k \in categories
    /\ txn' = [txn EXCEPT ![c] = [Idle EXCEPT !.at = "select", !.id = k, !.primary = primary]]
    /\ UNCHANGED <<tree, link>>

\* A consistent read: no lock.
SelectLink(c) ==
    /\ txn[c].at = "select"
    /\ txn' = [txn EXCEPT ![c].seen = link[txn[c].id],
                          ![c].at = IF txn[c].primary THEN "clear" ELSE "flush"]
    /\ UNCHANGED <<tree, link>>

Wanted(c) == IF txn[c].primary THEN "primary" ELSE "plain"

\* c has to wait for the transaction of d: the UPDATE of the other rows meets a
\* row of d, the INSERT a gap or the row of d, the UPDATE of its own row that row.
Waits(c, d) ==
    /\ c # d
    /\ \/ txn[c].at = "clear" /\ txn[d].locks \ {txn[c].id} # {}
       \/ txn[c].at = "flush" /\ txn[c].seen # Wanted(c) /\ txn[c].id \in txn[d].locks
       \/ txn[c].at = "flush" /\ txn[c].seen = "none" /\ txn[d].gaps

Granted(c) == \A d \in Clients : ~ Waits(c, d)

\* Mutant of ClearOthers: the UPDATE is committed before the row is written.
ClearOthersCommitted(c) ==
    /\ txn[c].at = "clear"
    /\ Granted(c)
    /\ link' = [k \in CategoryIds |-> IF k # txn[c].id /\ link[k] # "none" THEN "plain" ELSE link[k]]
    /\ txn' = [txn EXCEPT ![c].at = "flush"]
    /\ UNCHANGED tree

\* UPDATE ... SET is_primary = FALSE of the other rows of the product: it locks
\* them, and the gaps where one could be inserted.
ClearOthers(c) ==
    LET others == {k \in CategoryIds \ {txn[c].id} : link[k] # "none"} IN
    /\ txn[c].at = "clear"
    /\ Granted(c)
    /\ txn' = [txn EXCEPT ![c].at = "flush", ![c].locks = others, ![c].gaps = TRUE,
                          ![c].wrote = [k \in CategoryIds |-> IF k \in others THEN "plain" ELSE "none"]]
    /\ UNCHANGED <<tree, link>>

\* commit() first writes the row - an INSERT, or an UPDATE if the attribute is
\* not what the SELECT found; a row inserted meanwhile is a duplicate key.
FlushLink(c) ==
    LET k == txn[c].id IN
    /\ txn[c].at = "flush"
    /\ Granted(c)
    /\ IF txn[c].seen = Wanted(c) THEN txn' = [txn EXCEPT ![c].at = "commit"]
       ELSE IF txn[c].seen = "none" /\ link[k] # "none" THEN End(c)
       ELSE txn' = [txn EXCEPT ![c].at = "commit", ![c].locks = txn[c].locks \cup {k},
                               ![c].wrote[k] = Wanted(c)]
    /\ UNCHANGED <<tree, link>>

CommitLink(c) ==
    /\ txn[c].at = "commit"
    /\ link' = [k \in CategoryIds |-> IF txn[c].wrote[k] = "none" THEN link[k] ELSE txn[c].wrote[k]]
    /\ End(c)
    /\ UNCHANGED tree

-----------------------------------------------------------------------------
\* A call fails, the lock wait times out, InnoDB chooses the transaction to end
\* a deadlock, or the process dies; the id of a category stays used.
Rollback(c) ==
    /\ txn[c].at # "idle"
    /\ End(c)
    /\ UNCHANGED <<tree, link>>

ServeTransaction(c) ==
    \/ InsertCategory(c) \/ PublishCategory(c)
    \/ SelectLink(c) \/ ClearOthers(c) \/ FlushLink(c) \/ CommitLink(c)

CategoryNext == \E c \in Clients :
    \/ \E above \in CategoryIds \cup {0} : PostCategory(c, above)
    \/ \E k \in CategoryIds, primary \in BOOLEAN : PostAssociation(c, k, primary)
    \/ ServeTransaction(c) \/ Rollback(c)

CategorySpec == CategoryInit /\ [][CategoryNext]_categoryVars

-----------------------------------------------------------------------------
(* Properties *)

\* Two requests that make different categories the primary one of a product
\* (lines 92-125), however they interleave: no two end up primary.  The gap locks
\* of the UPDATE keep a row from being inserted behind it.
AtMostOnePrimary == \A j, k \in CategoryIds : link[j] = "primary" /\ link[k] = "primary" => j = k

\* get_subcategories: path LIKE '<path>/%'
Subcategories(k) == {j \in categories : IsStrictPrefix(path[k], path[j])}

\* get_products_in_category_with_subcategories, one consistent read
FoundUnder(k) == \E j \in {k} \cup Subcategories(k) : link[j] # "none"

Ancestors[k \in CategoryIds] == IF parent[k] = 0 THEN {} ELSE {parent[k]} \cup Ancestors[parent[k]]

\* The product is found under the categories it was associated with and under
\* all that are above them, and nowhere else, at every moment of the creation
\* of any category (lines 18-50, 142-167).
FoundUnderAncestorsOnly ==
    \A k \in categories :
        FoundUnder(k) <=> \E j \in CategoryIds : link[j] # "none" /\ (j = k \/ k \in Ancestors[j])
=============================================================================
