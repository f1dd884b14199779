--------------------------- MODULE Categories_proofs ---------------------------
(***************************************************************************)
(* Proofs about Categories, for any clients and any number of categories.  *)
(*                                                                         *)
(* One primary category: the UPDATE of a transaction that makes k primary  *)
(* leaves no row beside k that it does not overwrite itself, and until it  *)
(* ends its gap locks keep such a row from being inserted                  *)
(* (OthersAreCleared); nobody else's row can come in between.              *)
(*                                                                         *)
(* The tree: the row of a category and its path are committed together,    *)
(* under an id nobody else has, when the path of the category above is     *)
(* final.  So each path lists the categories above, each with its own      *)
(* path as the part of this one up to it (PathsAreOfAncestors), and the    *)
(* recursion of Ancestors is one down the ids.                             *)
(***************************************************************************)
EXTENDS Categories, FiniteSets, WellFoundedInduction, FiniteSetTheorems, TLAPS

Stages == {"idle", "create", "publish", "select", "clear", "flush", "commit"}

Txn == [at : Stages, id : 0 .. MaxCategories, above : 0 .. MaxCategories, primary : BOOLEAN,
        seen : Links, locks : SUBSET CategoryIds, gaps : BOOLEAN, wrote : [CategoryIds -> Links]]

\* A request works on categories that exist, or on an id of its own.
WellPlaced ==
    \A c \in Clients :
        /\ txn[c].at \in {"select", "clear", "flush", "commit"} => txn[c].id \in categories
        /\ txn[c].at \in {"create", "publish"} => txn[c].above \in categories \cup {0}
        /\ txn[c].at = "publish" =>
              /\ txn[c].id \in (1 .. used) \ categories
              /\ txn[c].above < txn[c].id
              /\ \A d \in Clients : (txn[d].at = "publish" /\ txn[d].id = txn[c].id) => d = c

TInv == CategoriesTypeOK /\ WellPlaced

\* The path of j is the one of the category above and j; each category on it is
\* there, with the path up to it.
PathsAreOfAncestors ==
    \A j \in CategoryIds :
        /\ j \notin categories => parent[j] = 0 /\ path[j] = <<>>
        /\ j \in categories =>
              /\ parent[j] \in categories \cup {0} /\ parent[j] < j
              /\ path[j] = Append(IF parent[j] = 0 THEN <<>> ELSE path[parent[j]], j)
              /\ \A i \in 1 .. Len(path[j]) :
                    path[j][i] \in categories /\ path[path[j][i]] = SubSeq(path[j], 1, i)

LinksToCategories == \A k \in CategoryIds : link[k] # "none" => k \in categories

\* What a transaction is about to write, and what it knows.
WritesAreMeant ==
    \A c \in Clients :
        /\ txn[c].gaps <=> (txn[c].primary /\ txn[c].at \in {"flush", "commit"})
        /\ txn[c].at = "clear" => txn[c].primary
        /\ txn[c].seen # "none" => txn[c].at \in {"clear", "flush", "commit"} /\ link[txn[c].id] # "none"
        /\ \A k \in CategoryIds : txn[c].wrote[k] # "none" =>
              /\ txn[c].at \in {"flush", "commit"}
              /\ k \in txn[c].locks
              /\ k # txn[c].id => txn[c].wrote[k] = "plain" /\ link[k] # "none"
              /\ txn[c].wrote[k] = "primary" => txn[c].gaps

OthersAreCleared ==
    \A c \in Clients : txn[c].gaps =>
        \A k \in CategoryIds \ {txn[c].id} :
            /\ link[k] # "none" => txn[c].wrote[k] = "plain"
            /\ link[k] = "none" => \A d \in Clients \ {c} : txn[d].wrote[k] = "none"

LinkInv == LinksToCategories /\ WritesAreMeant /\ OthersAreCleared /\ AtMostOnePrimary

-----------------------------------------------------------------------------
LEMMA IdsFacts ==
    /\ MaxCategories \in Nat /\ 0 \notin CategoryIds /\ 0 \in 0 .. MaxCategories
    /\ CategoryIds \subseteq 0 .. MaxCategories /\ CategoryIds \subseteq Nat
  BY CategoriesAssumption DEF CategoryIds

LEMMA TypesOfTxn == CategoriesTypeOK => txn \in [Clients -> Txn]
  BY DEF CategoriesTypeOK, Txn, Stages

LEMMA IdleFacts ==
    /\ Idle \in Txn
    /\ Idle.at = "idle" /\ ~ Idle.gaps /\ Idle.seen = "none" /\ ~ Idle.primary
    /\ \A k \in CategoryIds : Idle.wrote[k] = "none"
<1>1. [k \in CategoryIds |-> "none"] \in [CategoryIds -> Links]
    BY DEF Links
<1> QED BY <1>1, IdsFacts DEF Idle, Txn, Stages, Links

(* What each action does to the transaction of its client. *)

LEMMA EndStep ==
    ASSUME CategoriesTypeOK, NEW c \in Clients, End(c)
    PROVE  \E w \in Txn : txn' = [txn EXCEPT ![c] = w] /\ w = Idle
  BY IdleFacts DEF End

LEMMA PostCategoryStep ==
    ASSUME CategoriesTypeOK, NEW c \in Clients, NEW above \in 0 .. MaxCategories, PostCategory(c, above)
    PROVE  \E w \in Txn :
              /\ txn' = [txn EXCEPT ![c] = w]
              /\ w.at = "create" /\ w.above = above /\ ~ w.gaps /\ w.seen = "none"
              /\ \A k \in CategoryIds : w.wrote[k] = "none"
<1> DEFINE w == [Idle EXCEPT !.at = "create", !.above = above]
<1>1. txn' = [txn EXCEPT ![c] = w]
    BY DEF PostCategory
<1>2. /\ w \in Txn
      /\ w.at = "create" /\ w.above = above /\ w.gaps = Idle.gaps /\ w.seen = Idle.seen
      /\ w.wrote = Idle.wrote
    BY IdleFacts DEF Txn, Stages
<1> HIDE DEF w
<1> QED BY <1>1, <1>2, IdleFacts

LEMMA InsertCategoryStep ==
    ASSUME CategoriesTypeOK, NEW c \in Clients, InsertCategory(c)
    PROVE  \E w \in Txn :
              /\ txn' = [txn EXCEPT ![c] = w]
              /\ w.at = "publish" /\ w.id = used + 1 /\ w.above = txn[c].above
              /\ w.primary = txn[c].primary
              /\ w.gaps = txn[c].gaps /\ w.seen = txn[c].seen /\ w.wrote = txn[c].wrote
<1> DEFINE w == [txn[c] EXCEPT !.at = "publish", !.id = used + 1]
<1>1. txn[c] \in Txn /\ used + 1 \in 0 .. MaxCategories
    BY TypesOfTxn, IdsFacts DEF CategoriesTypeOK, InsertCategory
<1>2. txn' = [txn EXCEPT ![c] = w]
    BY DEF InsertCategory
<1>3. /\ w \in Txn
      /\ w.at = "publish" /\ w.id = used + 1 /\ w.above = txn[c].above
      /\ w.primary = txn[c].primary
      /\ w.gaps = txn[c].gaps /\ w.seen = txn[c].seen /\ w.wrote = txn[c].wrote
    BY <1>1 DEF Txn, Stages
<1> HIDE DEF w
<1> QED BY <1>2, <1>3

LEMMA PostAssociationStep ==
    ASSUME CategoriesTypeOK, NEW c \in Clients, NEW k \in CategoryIds, NEW primary \in BOOLEAN,
           PostAssociation(c, k, primary)
    PROVE  \E w \in Txn :
              /\ txn' = [txn EXCEPT ![c] = w]
              /\ w.at = "select" /\ w.id = k /\ ~ w.gaps /\ w.seen = "none"
              /\ \A j \in CategoryIds : w.wrote[j] = "none"
<1> DEFINE w == [Idle EXCEPT !.at = "select", !.id = k, !.primary = primary]
<1>1. txn' = [txn EXCEPT ![c] = w]
    BY DEF PostAssociation
<1>2. /\ w \in Txn
      /\ w.at = "select" /\ w.id = k /\ w.gaps = Idle.gaps /\ w.seen = Idle.seen
      /\ w.wrote = Idle.wrote
    BY IdleFacts, IdsFacts DEF Txn, Stages
<1> HIDE DEF w
<1> QED BY <1>1, <1>2, IdleFacts

LEMMA SelectLinkStep ==
    ASSUME CategoriesTypeOK, NEW c \in Clients, SelectLink(c), txn[c].id \in CategoryIds
    PROVE  \E w \in Txn :
              /\ txn' = [txn EXCEPT ![c] = w]
              /\ w.at = (IF txn[c].primary THEN "clear" ELSE "flush")
              /\ w.id = txn[c].id /\ w.primary = txn[c].primary
              /\ w.seen = link[txn[c].id] /\ w.gaps = txn[c].gaps
              /\ w.locks = txn[c].locks /\ w.wrote = txn[c].wrote
<1> DEFINE w == [txn[c] EXCEPT !.seen = link[txn[c].id],
                               !.at = IF txn[c].primary THEN "clear" ELSE "flush"]
<1>1. txn[c] \in Txn /\ link[txn[c].id] \in Links
    BY TypesOfTxn DEF CategoriesTypeOK
<1>2. txn' = [txn EXCEPT ![c] = w]
    BY DEF SelectLink
<1>3. /\ w \in Txn
      /\ w.at = (IF txn[c].primary THEN "clear" ELSE "flush")
      /\ w.id = txn[c].id /\ w.primary = txn[c].primary
      /\ w.seen = link[txn[c].id] /\ w.gaps = txn[c].gaps
      /\ w.locks = txn[c].locks /\ w.wrote = txn[c].wrote
    BY <1>1 DEF Txn, Stages
<1> HIDE DEF w
<1> QED BY <1>2, <1>3

\* The rows beside the own one.
Others(c) == {k \in CategoryIds \ {txn[c].id} : link[k] # "none"}

LEMMA ClearOthersStep ==
    ASSUME CategoriesTypeOK, NEW c \in Clients, ClearOthers(c)
    PROVE  \E w \in Txn :
              /\ txn' = [txn EXCEPT ![c] = w]
              /\ w.at = "flush" /\ w.id = txn[c].id /\ w.primary = txn[c].primary
              /\ w.seen = txn[c].seen /\ w.gaps /\ w.locks = Others(c)
              /\ \A k \in CategoryIds : w.wrote[k] = IF k \in Others(c) THEN "plain" ELSE "none"
<1> DEFINE wrote == [k \in CategoryIds |-> IF k \in Others(c) THEN "plain" ELSE "none"]
           w == [txn[c] EXCEPT !.at = "flush", !.locks = Others(c), !.gaps = TRUE, !.wrote = wrote]
<1>1. /\ txn[c] \in Txn /\ Others(c) \in SUBSET CategoryIds
      /\ wrote \in [CategoryIds -> Links]
    BY TypesOfTxn DEF Others, Links
<1>2. txn' = [txn EXCEPT ![c] = w]
    BY DEF ClearOthers, Others
<1>3. \A k \in CategoryIds : wrote[k] = IF k \in Others(c) THEN "plain" ELSE "none"
    OBVIOUS
<1> HIDE DEF wrote
<1>4. /\ w \in Txn
      /\ w.at = "flush" /\ w.id = txn[c].id /\ w.primary = txn[c].primary
      /\ w.seen = txn[c].seen /\ w.gaps /\ w.locks = Others(c) /\ w.wrote = wrote
    BY <1>1 DEF Txn, Stages
<1> HIDE DEF w
<1> QED BY <1>2, <1>3, <1>4

\* The row need not be written, or it is.
LEMMA FlushLinkStep ==
    ASSUME CategoriesTypeOK, NEW c \in Clients, FlushLink(c), txn[c].id \in CategoryIds
    PROVE  \/ End(c)
           \/ \E w \in Txn :
              /\ txn' = [txn EXCEPT ![c] = w]
              /\ w.at = "commit" /\ w.id = txn[c].id /\ w.primary = txn[c].primary
              /\ w.seen = txn[c].seen /\ w.gaps = txn[c].gaps
              /\ \/ w.locks = txn[c].locks /\ w.wrote = txn[c].wrote
                 \/ /\ w.locks = txn[c].locks \cup {txn[c].id}
                    /\ w.wrote = [txn[c].wrote EXCEPT ![txn[c].id] = Wanted(c)]
                    /\ txn[c].seen # Wanted(c)
                    /\ txn[c].seen = "none" => link[txn[c].id] = "none"
<1>1. txn[c] \in Txn /\ Wanted(c) \in Links
    BY TypesOfTxn DEF Wanted, Links
<1>2. CASE txn[c].seen = Wanted(c)
  <2> DEFINE w == [txn[c] EXCEPT !.at = "commit"]
  <2>1. txn' = [txn EXCEPT ![c] = w]
      BY <1>2 DEF FlushLink
  <2>2. /\ w \in Txn /\ w.at = "commit" /\ w.id = txn[c].id /\ w.primary = txn[c].primary
        /\ w.seen = txn[c].seen /\ w.gaps = txn[c].gaps
        /\ w.locks = txn[c].locks /\ w.wrote = txn[c].wrote
      BY <1>1 DEF Txn, Stages
  <2> HIDE DEF w
  <2> QED BY <2>1, <2>2
<1>3. CASE txn[c].seen # Wanted(c) /\ ~ (txn[c].seen = "none" /\ link[txn[c].id] # "none")
  <2> DEFINE locks == txn[c].locks \cup {txn[c].id}
             wrote == [txn[c].wrote EXCEPT ![txn[c].id] = Wanted(c)]
             w     == [txn[c] EXCEPT !.at = "commit", !.locks = locks, !.wrote = wrote]
  <2>1. txn' = [txn EXCEPT ![c].at = "commit", ![c].locks = locks,
                           ![c].wrote[txn[c].id] = Wanted(c)]
      BY <1>3 DEF FlushLink
  <2>2. txn' = [txn EXCEPT ![c] = w]
      BY <2>1
  <2>3. locks \in SUBSET CategoryIds /\ wrote \in [CategoryIds -> Links]
      BY <1>1 DEF Txn
  <2>4. /\ locks = txn[c].locks \cup {txn[c].id}
        /\ wrote = [txn[c].wrote EXCEPT ![txn[c].id] = Wanted(c)]
      OBVIOUS
  <2> HIDE DEF locks, wrote
  <2>5. /\ w \in Txn /\ w.at = "commit" /\ w.id = txn[c].id /\ w.primary = txn[c].primary
        /\ w.seen = txn[c].seen /\ w.gaps = txn[c].gaps
        /\ w.locks = locks /\ w.wrote = wrote
      BY <1>1, <2>3 DEF Txn, Stages
  <2> HIDE DEF w
  <2> QED BY <1>3, <2>2, <2>4, <2>5
<1>4. CASE txn[c].seen # Wanted(c) /\ txn[c].seen = "none" /\ link[txn[c].id] # "none"
    BY <1>4 DEF FlushLink
<1> QED BY <1>2, <1>3, <1>4

-----------------------------------------------------------------------------
(* Types, and that work is on categories that exist *)

LEMMA InitTInv == CategoryInit => TInv
<1> SUFFICES ASSUME CategoryInit PROVE TInv
    OBVIOUS
<1>1. CategoriesTypeOK
  <2>1. \A c \in Clients : txn[c] = Idle
      BY DEF CategoryInit
  <2>2. txn \in [Clients -> Txn]
      BY IdleFacts DEF CategoryInit
  <2>3. used \in 0 .. MaxCategories /\ categories \subseteq 1 .. used
      BY IdsFacts DEF CategoryInit
  <2>4. /\ parent \in [CategoryIds -> 0 .. MaxCategories]
        /\ path \in [CategoryIds -> Seq(CategoryIds)]
        /\ link \in [CategoryIds -> Links]
      BY IdsFacts DEF CategoryInit, Links
  <2> QED BY <2>2, <2>3, <2>4 DEF CategoriesTypeOK, Txn, Stages
<1>2. WellPlaced
    BY IdleFacts DEF CategoryInit, WellPlaced
<1> QED BY <1>1, <1>2 DEF TInv

\* The transaction of a client moves on; the tree stays or grows.
LEMMA TxnMoves ==
    ASSUME CategoriesTypeOK, NEW c \in Clients, NEW w \in Txn, txn' = [txn EXCEPT ![c] = w]
    PROVE  /\ txn' \in [Clients -> Txn] /\ txn'[c] = w
           /\ \A d \in Clients : d # c => txn'[d] = txn[d]
  BY TypesOfTxn

LEMMA PlacesKept ==
    ASSUME TInv, NEW c \in Clients, NEW w \in Txn, txn' = [txn EXCEPT ![c] = w],
           used' \in 0 .. MaxCategories, used <= used',
           categories \subseteq categories', categories' \subseteq 1 .. used',
           \A d \in Clients : (d # c /\ txn[d].at = "publish") => txn[d].id \notin categories',
           parent' \in [CategoryIds -> 0 .. MaxCategories],
           path' \in [CategoryIds -> Seq(CategoryIds)], link' \in [CategoryIds -> Links],
           w.at \in {"select", "clear", "flush", "commit"} => w.id \in categories',
           w.at \in {"create", "publish"} => w.above \in categories' \cup {0},
           w.at = "publish" =>
              /\ w.id \in (1 .. used') \ categories' /\ w.above < w.id
              /\ \A d \in Clients : (d # c /\ txn[d].at = "publish") => txn[d].id # w.id
    PROVE  TInv'
<1>1. /\ txn' \in [Clients -> Txn] /\ txn'[c] = w
      /\ \A d \in Clients : d # c => txn'[d] = txn[d]
    BY TxnMoves DEF TInv
<1>2. CategoriesTypeOK'
    BY <1>1 DEF CategoriesTypeOK, Txn, Stages
<1>3. used \in Nat /\ used' \in Nat
    BY IdsFacts DEF TInv, CategoriesTypeOK
<1>4. \A k : k \in 1 .. used => k \in 1 .. used'
    BY <1>3
<1>5. WellPlaced'
  <2> SUFFICES ASSUME NEW d \in Clients
               PROVE  /\ txn'[d].at \in {"select", "clear", "flush", "commit"} => txn'[d].id \in categories'
                      /\ txn'[d].at \in {"create", "publish"} => txn'[d].above \in categories' \cup {0}
                      /\ txn'[d].at = "publish" =>
                            /\ txn'[d].id \in (1 .. used') \ categories'
                            /\ txn'[d].above < txn'[d].id
                            /\ \A e \in Clients :
                                  (txn'[e].at = "publish" /\ txn'[e].id = txn'[d].id) => e = d
      BY DEF WellPlaced
  <2>1. CASE d = c
      BY <1>1, <2>1
  <2>2. CASE d # c
    <3>1. txn'[d] = txn[d]
        BY <1>1, <2>2
    <3>2. /\ txn[d].at \in {"select", "clear", "flush", "commit"} => txn[d].id \in categories'
          /\ txn[d].at \in {"create", "publish"} => txn[d].above \in categories' \cup {0}
        BY DEF TInv, WellPlaced
    <3>3. ASSUME txn[d].at = "publish"
          PROVE  /\ txn[d].id \in (1 .. used') \ categories' /\ txn[d].above < txn[d].id
                 /\ \A e \in Clients : (txn'[e].at = "publish" /\ txn'[e].id = txn[d].id) => e = d
        BY <1>1, <1>4, <2>2, <3>3 DEF TInv, WellPlaced
    <3> QED BY <3>1, <3>2, <3>3
  <2> QED BY <2>1, <2>2
<1> QED BY <1>2, <1>5 DEF TInv

\* An action that leaves the tree alone.
LEMMA OnlyLinks ==
    ASSUME TInv, NEW c \in Clients, NEW w \in Txn, txn' = [txn EXCEPT ![c] = w],
           UNCHANGED tree, link' \in [CategoryIds -> Links],
           w.at \in {"select", "clear", "flush", "commit"} => w.id \in categories,
           w.at = "create" => w.above \in categories \cup {0}, w.at # "publish"
    PROVE  TInv'
<1>1. used \in 0 .. MaxCategories /\ used <= used /\ categories \subseteq 1 .. used
    BY IdsFacts DEF TInv, CategoriesTypeOK
<1>2. /\ parent \in [CategoryIds -> 0 .. MaxCategories]
      /\ path \in [CategoryIds -> Seq(CategoryIds)]
    BY DEF TInv, CategoriesTypeOK
<1>3. \A d \in Clients : txn[d].at = "publish" => txn[d].id \notin categories
    BY DEF TInv, WellPlaced
<1> QED BY <1>1, <1>2, <1>3, PlacesKept DEF tree

LEMMA LinksKept == ASSUME CategoriesTypeOK, UNCHANGED link PROVE link' \in [CategoryIds -> Links]
  BY DEF CategoriesTypeOK

LEMMA EndTInv ==
    ASSUME TInv, NEW c \in Clients, End(c), UNCHANGED tree, link' \in [CategoryIds -> Links]
    PROVE  TInv'
  BY EndStep, IdleFacts, OnlyLinks DEF TInv

LEMMA InsertTInv == ASSUME TInv, NEW c \in Clients, InsertCategory(c) PROVE TInv'
<1>1. PICK w \in Txn :
          /\ txn' = [txn EXCEPT ![c] = w]
          /\ w.at = "publish" /\ w.id = used + 1 /\ w.above = txn[c].above
    BY InsertCategoryStep DEF TInv
<1>2. /\ used \in Nat /\ used' = used + 1 /\ used' \in 0 .. MaxCategories
      /\ categories \subseteq 1 .. used /\ categories' = categories
    BY IdsFacts DEF TInv, CategoriesTypeOK, InsertCategory
<1>3. /\ parent' \in [CategoryIds -> 0 .. MaxCategories]
      /\ path' \in [CategoryIds -> Seq(CategoryIds)] /\ link' \in [CategoryIds -> Links]
    BY DEF TInv, CategoriesTypeOK, InsertCategory
<1>4. w.above \in categories \cup {0}
    BY <1>1 DEF TInv, WellPlaced, InsertCategory
<1>5. w.id \in (1 .. used') \ categories /\ w.above < w.id
  <2>1. \A k \in categories : k \in Nat /\ k <= used
      BY <1>2
  <2>2. w.above \in Nat /\ w.above <= used
    <3>1. CASE w.above = 0
        BY <1>2, <3>1
    <3>2. CASE w.above \in categories
        BY <2>1, <3>2
    <3> QED BY <1>4, <3>1, <3>2
  <2>3. used + 1 \in 1 .. used' /\ used + 1 \notin categories
      BY <1>2, <2>1
  <2> QED BY <1>1, <1>2, <2>2, <2>3
<1>6. \A d \in Clients : txn[d].at = "publish" => txn[d].id \in (1 .. used) \ categories
    BY DEF TInv, WellPlaced
<1>7. \A d \in Clients : txn[d].at = "publish" => txn[d].id # w.id
    BY <1>1, <1>2, <1>6
<1>8. used <= used' /\ categories' \subseteq 1 .. used'
    BY <1>2
<1> QED BY <1>1, <1>2, <1>3, <1>4, <1>5, <1>6, <1>7, <1>8, PlacesKept

LEMMA PublishTInv == ASSUME TInv, NEW c \in Clients, PublishCategory(c) PROVE TInv'
<1> DEFINE k == txn[c].id
           above == txn[c].above
<1>1. /\ k \in (1 .. used) \ categories /\ above \in categories \cup {0} /\ above < k
      /\ \A d \in Clients : (txn[d].at = "publish" /\ txn[d].id = k) => d = c
    BY DEF TInv, WellPlaced, PublishCategory
<1>2. /\ used \in 0 .. MaxCategories /\ categories \subseteq 1 .. used /\ used' = used
      /\ categories' = categories \cup {k} /\ UNCHANGED link
    BY DEF TInv, CategoriesTypeOK, PublishCategory
<1>3. used \in Nat /\ used <= used' /\ k \in CategoryIds /\ 1 .. used \subseteq CategoryIds
    BY <1>1, <1>2, IdsFacts DEF CategoryIds
<1>4. above \in 0 .. MaxCategories
    BY <1>1, <1>2, <1>3, IdsFacts
<1>5. path' \in [CategoryIds -> Seq(CategoryIds)]
  <2>1. path \in [CategoryIds -> Seq(CategoryIds)]
      BY DEF TInv, CategoriesTypeOK
  <2>2. (IF above = 0 THEN <<>> ELSE path[above]) \in Seq(CategoryIds)
    <3>1. CASE above = 0
        BY <3>1
    <3>2. CASE above # 0
      <4>1. above \in CategoryIds
          BY <1>1, <1>2, <1>3, <3>2
      <4> HIDE DEF above
      <4> QED BY <2>1, <3>2, <4>1
    <3> QED BY <3>1, <3>2
  <2> DEFINE t == IF above = 0 THEN <<>> ELSE path[above]
  <2>3. path' = [path EXCEPT ![k] = Append(t, k)]
      BY DEF PublishCategory
  <2> HIDE DEF t, k
  <2>4. Append(t, k) \in Seq(CategoryIds)
      BY <1>3, <2>2 DEF t
  <2> QED BY <1>3, <2>1, <2>3, <2>4
<1>6. parent' \in [CategoryIds -> 0 .. MaxCategories]
    BY <1>3, <1>4 DEF TInv, CategoriesTypeOK, PublishCategory
<1>7. link' \in [CategoryIds -> Links]
    BY <1>2 DEF TInv, CategoriesTypeOK
<1>8. \A d \in Clients : (d # c /\ txn[d].at = "publish") => txn[d].id \notin categories'
    BY <1>1, <1>2 DEF TInv, WellPlaced
<1>9. PICK w \in Txn : txn' = [txn EXCEPT ![c] = w] /\ w = Idle
    BY EndStep DEF TInv, PublishCategory
<1>10. w.at = "idle"
    BY <1>9, IdleFacts
<1>11. categories \subseteq categories' /\ categories' \subseteq 1 .. used'
    BY <1>1, <1>2
<1> HIDE DEF k, above
<1> QED BY <1>2, <1>3, <1>5, <1>6, <1>7, <1>8, <1>9, <1>10, <1>11, PlacesKept

LEMMA SelectTInv == ASSUME TInv, NEW c \in Clients, SelectLink(c) PROVE TInv'
<1>1. txn[c].id \in categories /\ txn[c].id \in CategoryIds
    BY IdsFacts DEF TInv, WellPlaced, CategoriesTypeOK, SelectLink, CategoryIds
<1>2. PICK w \in Txn :
          /\ txn' = [txn EXCEPT ![c] = w] /\ w.id = txn[c].id
          /\ w.at = (IF txn[c].primary THEN "clear" ELSE "flush")
    BY <1>1, SelectLinkStep DEF TInv
<1>3. UNCHANGED <<tree, link>>
    BY DEF SelectLink
<1> QED BY <1>1, <1>2, <1>3, LinksKept, OnlyLinks DEF TInv

LEMMA ClearTInv == ASSUME TInv, NEW c \in Clients, ClearOthers(c) PROVE TInv'
<1>1. txn[c].id \in categories
    BY DEF TInv, WellPlaced, ClearOthers
<1>2. PICK w \in Txn : txn' = [txn EXCEPT ![c] = w] /\ w.at = "flush" /\ w.id = txn[c].id
    BY ClearOthersStep DEF TInv
<1>3. UNCHANGED <<tree, link>>
    BY DEF ClearOthers
<1> QED BY <1>1, <1>2, <1>3, LinksKept, OnlyLinks DEF TInv

LEMMA FlushTInv == ASSUME TInv, NEW c \in Clients, FlushLink(c) PROVE TInv'
<1>1. txn[c].id \in categories /\ txn[c].id \in CategoryIds
    BY IdsFacts DEF TInv, WellPlaced, CategoriesTypeOK, FlushLink, CategoryIds
<1>2. UNCHANGED <<tree, link>>
    BY DEF FlushLink
<1>3. CASE End(c)
    BY <1>2, <1>3, EndTInv, LinksKept DEF TInv
<1>4. CASE \E w \in Txn : txn' = [txn EXCEPT ![c] = w] /\ w.at = "commit" /\ w.id = txn[c].id
  <2>1. PICK w \in Txn : txn' = [txn EXCEPT ![c] = w] /\ w.at = "commit" /\ w.id = txn[c].id
      BY <1>4
  <2> QED BY <1>1, <1>2, <2>1, LinksKept, OnlyLinks DEF TInv
<1> QED BY <1>1, <1>3, <1>4, FlushLinkStep DEF TInv

LEMMA CommitTInv == ASSUME TInv, NEW c \in Clients, CommitLink(c) PROVE TInv'
<1>1. txn[c] \in Txn /\ link \in [CategoryIds -> Links]
    BY TypesOfTxn DEF TInv, CategoriesTypeOK
<1>2. link' \in [CategoryIds -> Links]
    BY <1>1 DEF CommitLink, Txn
<1> QED BY <1>2, EndTInv DEF CommitLink

LEMMA PostTInv ==
    ASSUME TInv, NEW c \in Clients,
           \/ \E above \in CategoryIds \cup {0} : PostCategory(c, above)
           \/ \E k \in CategoryIds, primary \in BOOLEAN : PostAssociation(c, k, primary)
    PROVE  TInv'
<1>1. ASSUME NEW above \in CategoryIds \cup {0}, PostCategory(c, above) PROVE TInv'
  <2>1. above \in 0 .. MaxCategories /\ above \in categories \cup {0} /\ UNCHANGED <<tree, link>>
      BY <1>1, IdsFacts DEF PostCategory
  <2>2. PICK w \in Txn : txn' = [txn EXCEPT ![c] = w] /\ w.at = "create" /\ w.above = above
      BY <1>1, <2>1, PostCategoryStep DEF TInv
  <2> QED BY <2>1, <2>2, LinksKept, OnlyLinks DEF TInv
<1>2. ASSUME NEW k \in CategoryIds, NEW primary \in BOOLEAN, PostAssociation(c, k, primary)
      PROVE  TInv'
  <2>1. k \in categories /\ UNCHANGED <<tree, link>>
      BY <1>2 DEF PostAssociation
  <2>2. PICK w \in Txn : txn' = [txn EXCEPT ![c] = w] /\ w.at = "select" /\ w.id = k
      BY <1>2, PostAssociationStep DEF TInv
  <2> QED BY <2>1, <2>2, LinksKept, OnlyLinks DEF TInv
<1> QED BY <1>1, <1>2

LEMMA NextTInv == TInv /\ [CategoryNext]_categoryVars => TInv'
<1> SUFFICES ASSUME TInv, [CategoryNext]_categoryVars PROVE TInv'
    OBVIOUS
<1>1. ASSUME NEW c \in Clients, Rollback(c) PROVE TInv'
    BY <1>1, EndTInv, LinksKept DEF Rollback, TInv
<1>2. CASE UNCHANGED categoryVars
    BY <1>2 DEF categoryVars, tree, TInv, WellPlaced, CategoriesTypeOK
<1> QED
    BY <1>1, <1>2, PostTInv, InsertTInv, PublishTInv, SelectTInv, ClearTInv, FlushTInv,
       CommitTInv DEF CategoryNext, ServeTransaction

LEMMA InvariantTInv == CategorySpec => []TInv
  BY InitTInv, NextTInv, PTL DEF CategorySpec

-----------------------------------------------------------------------------
(* The tree *)

LEMMA InitPaths == CategoryInit => PathsAreOfAncestors
  BY DEF CategoryInit, PathsAreOfAncestors

\* A new category comes below one whose path is final.
LEMMA PublishPaths == ASSUME TInv, PathsAreOfAncestors, NEW c \in Clients, PublishCategory(c) PROVE PathsAreOfAncestors'
<1> DEFINE k == txn[c].id
           above == txn[c].above
           t == IF above = 0 THEN <<>> ELSE path[above]
<1>1. /\ k \in (1 .. used) \ categories /\ above \in categories \cup {0} /\ above < k
      /\ used \in 0 .. MaxCategories /\ categories \subseteq 1 .. used
      /\ categories' = categories \cup {k} /\ UNCHANGED link
      /\ path' = [path EXCEPT ![k] = Append(t, k)]
      /\ parent' = [parent EXCEPT ![k] = above]
    BY DEF TInv, WellPlaced, CategoriesTypeOK, PublishCategory
<1>2. k \in CategoryIds /\ categories \subseteq CategoryIds /\ 0 \notin CategoryIds
    BY <1>1, IdsFacts DEF CategoryIds
<1>3. path \in [CategoryIds -> Seq(CategoryIds)] /\ parent \in [CategoryIds -> 0 .. MaxCategories]
    BY DEF TInv, CategoriesTypeOK
<1>4. t \in Seq(CategoryIds)
  <2>1. CASE above = 0
      BY <2>1
  <2>2. CASE above \in categories
    <3>1. path[above] \in Seq(CategoryIds) /\ above # 0
        BY <1>2, <1>3, <2>2
    <3> QED BY <3>1
  <2> QED BY <1>1, <2>1, <2>2
<1>5. \A i \in 1 .. Len(t) : t[i] \in categories /\ path[t[i]] = SubSeq(t, 1, i)
  <2>1. CASE above = 0
      BY <2>1
  <2>2. CASE above \in categories
    <3>1. t = path[above]
        BY <1>2, <2>2
    <3> HIDE DEF t, above
    <3> QED BY <1>2, <2>2, <3>1 DEF PathsAreOfAncestors
  <2> QED BY <1>1, <2>1, <2>2
<1> DEFINE s == Append(t, k)
<1>6. /\ s \in Seq(CategoryIds) /\ Len(s) = Len(t) + 1 /\ s[Len(t) + 1] = k /\ Len(t) \in Nat
      /\ \A i \in 1 .. Len(t) : s[i] = t[i] /\ SubSeq(s, 1, i) = SubSeq(t, 1, i)
      /\ SubSeq(s, 1, Len(s)) = s
  <2> HIDE DEF t, k
  <2> QED BY <1>2, <1>4
<1> HIDE DEF s, t, k, above
<1>7. path'[k] = s /\ parent'[k] = above
      /\ \A j \in CategoryIds : j # k => path'[j] = path[j] /\ parent'[j] = parent[j]
    BY <1>1, <1>2, <1>3 DEF s
<1>8. \A i \in 1 .. Len(s) : s[i] \in categories' /\ path'[s[i]] = SubSeq(s, 1, i)
  <2> SUFFICES ASSUME NEW i \in 1 .. Len(s)
               PROVE  s[i] \in categories' /\ path'[s[i]] = SubSeq(s, 1, i)
      OBVIOUS
  <2>1. CASE i \in 1 .. Len(t)
      BY <1>1, <1>2, <1>5, <1>6, <1>7, <2>1
  <2>2. CASE i = Len(t) + 1
      BY <1>1, <1>6, <1>7, <2>2
  <2> QED BY <1>6, <2>1, <2>2
<1>9. s = Append(IF above = 0 THEN <<>> ELSE path'[above], k)
  <2>1. above # 0 => path'[above] = path[above]
      BY <1>1, <1>2, <1>7
  <2> QED BY <2>1 DEF s, t
<1>10. PathsAreOfAncestors'
  <2> SUFFICES ASSUME NEW j \in CategoryIds
               PROVE  /\ j \notin categories' => parent'[j] = 0 /\ path'[j] = <<>>
                      /\ j \in categories' =>
                            /\ parent'[j] \in categories' \cup {0} /\ parent'[j] < j
                            /\ path'[j] = Append(IF parent'[j] = 0 THEN <<>> ELSE path'[parent'[j]], j)
                            /\ \A i \in 1 .. Len(path'[j]) :
                                  /\ path'[j][i] \in categories'
                                  /\ path'[path'[j][i]] = SubSeq(path'[j], 1, i)
      BY DEF PathsAreOfAncestors
  <2>1. CASE j = k
    <3>1. k \in categories' /\ above \in categories' \cup {0} /\ above < k
        BY <1>1
    <3>2. parent'[j] = above /\ path'[j] = s
        BY <1>7, <2>1
    <3>3. path'[j] = Append(IF parent'[j] = 0 THEN <<>> ELSE path'[parent'[j]], j)
        BY <1>9, <2>1, <3>2
    <3>4. \A i \in 1 .. Len(path'[j]) :
              path'[j][i] \in categories' /\ path'[path'[j][i]] = SubSeq(path'[j], 1, i)
        BY <1>8, <3>2
    <3>5. j \in categories' /\ parent'[j] \in categories' \cup {0} /\ parent'[j] < j
        BY <2>1, <3>1, <3>2
    <3> QED BY <3>3, <3>4, <3>5
  <2>2. CASE j # k
    <3>1. path'[j] = path[j] /\ parent'[j] = parent[j] /\ (j \in categories' <=> j \in categories)
        BY <1>1, <1>7, <2>2
    <3>2. \A l \in categories : path'[l] = path[l] /\ l \in categories'
        BY <1>1, <1>2, <1>7
    <3>3. CASE j \notin categories
        BY <3>1, <3>3 DEF PathsAreOfAncestors
    <3>4. CASE j \in categories
      <4>1. /\ parent[j] \in categories \cup {0} /\ parent[j] < j
            /\ path[j] = Append(IF parent[j] = 0 THEN <<>> ELSE path[parent[j]], j)
            /\ \A i \in 1 .. Len(path[j]) :
                  path[j][i] \in categories /\ path[path[j][i]] = SubSeq(path[j], 1, i)
          BY <3>4 DEF PathsAreOfAncestors
      <4>2. parent[j] = 0 \/ path'[parent[j]] = path[parent[j]]
          BY <3>2, <4>1
      <4>3. path'[j] = Append(IF parent'[j] = 0 THEN <<>> ELSE path'[parent'[j]], j)
          BY <3>1, <4>1, <4>2
      <4>4. \A i \in 1 .. Len(path'[j]) :
                path'[j][i] \in categories' /\ path'[path'[j][i]] = SubSeq(path'[j], 1, i)
          BY <3>1, <3>2, <4>1
      <4>5. j \in categories' /\ parent'[j] \in categories' \cup {0} /\ parent'[j] < j
          BY <1>1, <3>1, <3>4, <4>1
      <4> QED BY <4>3, <4>4, <4>5
    <3> QED BY <3>3, <3>4
  <2> QED BY <2>1, <2>2
<1> QED BY <1>10

LEMMA NextPaths ==
    TInv /\ PathsAreOfAncestors /\ [CategoryNext]_categoryVars => PathsAreOfAncestors'
<1> SUFFICES ASSUME TInv, PathsAreOfAncestors, [CategoryNext]_categoryVars
             PROVE  PathsAreOfAncestors'
    OBVIOUS
<1>1. UNCHANGED <<categories, parent, path>> \/ \E c \in Clients : PublishCategory(c)
    BY DEF CategoryNext, ServeTransaction, PostCategory, PostAssociation, InsertCategory, SelectLink,
           ClearOthers, FlushLink, CommitLink, Rollback, categoryVars, tree
<1>2. CASE UNCHANGED <<categories, parent, path>>
    BY <1>2 DEF PathsAreOfAncestors
<1> QED BY <1>1, <1>2, PublishPaths

LEMMA InvariantPaths == CategorySpec => [](TInv /\ PathsAreOfAncestors)
  BY InitTInv, NextTInv, InitPaths, NextPaths, PTL DEF CategorySpec

-----------------------------------------------------------------------------
(* One primary category *)

LEMMA InitLinkInv == CategoryInit => LinkInv
<1> SUFFICES ASSUME CategoryInit PROVE LinkInv
    OBVIOUS
<1>1. \A c \in Clients : txn[c] = Idle
    BY DEF CategoryInit
<1>2. \A k \in CategoryIds : link[k] = "none"
    BY DEF CategoryInit
<1> QED
    BY <1>1, <1>2, IdleFacts DEF LinkInv, LinksToCategories, WritesAreMeant, OthersAreCleared,
       AtMostOnePrimary

LEMMA CategoriesAreIds == TInv => categories \subseteq CategoryIds
  BY IdsFacts DEF TInv, CategoriesTypeOK, CategoryIds

LEMMA SeenIsOfACategory ==
    ASSUME TInv, LinkInv, NEW c \in Clients, txn[c].seen # "none"
    PROVE  txn[c].at \in {"clear", "flush", "commit"} /\ txn[c].id \in CategoryIds
<1>1. txn[c].at \in {"clear", "flush", "commit"}
    BY DEF LinkInv, WritesAreMeant
<1>2. txn[c].id \in categories
    BY <1>1 DEF TInv, WellPlaced
<1> QED BY <1>1, <1>2, CategoriesAreIds

\* A transaction that neither holds nor learns anything.
LEMMA QuietLinkInv ==
    ASSUME TInv, LinkInv, NEW c \in Clients, NEW w \in Txn, txn' = [txn EXCEPT ![c] = w],
           UNCHANGED link, categories \subseteq categories',
           ~ w.gaps, w.at \in {"flush", "commit"} => ~ w.primary,
           w.at = "clear" => w.primary,
           w.seen # "none" => w.at \in {"clear", "flush", "commit"} /\ link[w.id] # "none",
           \A k \in CategoryIds : w.wrote[k] = "none"
    PROVE  LinkInv'
<1>1. txn'[c] = w /\ \A d \in Clients : d # c => txn'[d] = txn[d]
    BY TxnMoves DEF TInv
<1>2. LinksToCategories' /\ AtMostOnePrimary'
    BY DEF LinkInv, LinksToCategories, AtMostOnePrimary
<1>3. WritesAreMeant'
    BY <1>1 DEF LinkInv, WritesAreMeant
<1>4. OthersAreCleared'
    BY <1>1 DEF LinkInv, OthersAreCleared
<1> QED BY <1>2, <1>3, <1>4 DEF LinkInv

LEMMA EndLinkInv ==
    ASSUME TInv, LinkInv, NEW c \in Clients, End(c), UNCHANGED link, categories \subseteq categories'
    PROVE  LinkInv'
  BY EndStep, IdleFacts, QuietLinkInv DEF TInv

\* The UPDATE waits for every row that is written beside its own, and takes the gaps.
LEMMA ClearLinkInv == ASSUME TInv, LinkInv, NEW c \in Clients, ClearOthers(c) PROVE LinkInv'
<1>1. PICK w \in Txn :
          /\ txn' = [txn EXCEPT ![c] = w]
          /\ w.at = "flush" /\ w.id = txn[c].id /\ w.primary = txn[c].primary
          /\ w.seen = txn[c].seen /\ w.gaps /\ w.locks = Others(c)
          /\ \A k \in CategoryIds : w.wrote[k] = IF k \in Others(c) THEN "plain" ELSE "none"
    BY ClearOthersStep DEF TInv
<1>2. txn'[c] = w /\ \A d \in Clients : d # c => txn'[d] = txn[d]
    BY <1>1, TxnMoves DEF TInv
<1>3. txn[c].at = "clear" /\ UNCHANGED link /\ UNCHANGED categories
    BY DEF ClearOthers, tree
<1>4. \A d \in Clients \ {c} : txn[d].locks \ {txn[c].id} = {}
    BY DEF ClearOthers, Granted, Waits
<1>5. LinksToCategories' /\ AtMostOnePrimary'
    BY <1>3 DEF LinkInv, LinksToCategories, AtMostOnePrimary
<1>6. WritesAreMeant'
    BY <1>1, <1>2, <1>3 DEF LinkInv, WritesAreMeant, Others
<1>7. OthersAreCleared'
    BY <1>1, <1>2, <1>3, <1>4 DEF LinkInv, OthersAreCleared, WritesAreMeant, Others
<1> QED BY <1>5, <1>6, <1>7 DEF LinkInv

LEMMA SelectLinkInv == ASSUME TInv, LinkInv, NEW c \in Clients, SelectLink(c) PROVE LinkInv'
<1>1. txn[c].id \in CategoryIds
    BY IdsFacts DEF TInv, WellPlaced, CategoriesTypeOK, SelectLink, CategoryIds
<1>2. PICK w \in Txn :
          /\ txn' = [txn EXCEPT ![c] = w]
          /\ w.at = (IF txn[c].primary THEN "clear" ELSE "flush")
          /\ w.id = txn[c].id /\ w.primary = txn[c].primary
          /\ w.seen = link[txn[c].id] /\ w.gaps = txn[c].gaps
          /\ w.wrote = txn[c].wrote
    BY <1>1, SelectLinkStep DEF TInv
<1>3. /\ txn[c].at = "select" /\ ~ txn[c].gaps
      /\ \A k \in CategoryIds : txn[c].wrote[k] = "none"
    BY DEF SelectLink, LinkInv, WritesAreMeant
<1>4. UNCHANGED link /\ categories \subseteq categories'
    BY DEF SelectLink, tree
<1>5. txn[c].primary \in BOOLEAN
    BY TypesOfTxn DEF TInv, Txn
<1> QED BY <1>2, <1>3, <1>4, <1>5, QuietLinkInv

\* A row is inserted only where nobody has locked the gap; what is written over
\* was there when it was read.
LEMMA FlushLinkInv == ASSUME TInv, LinkInv, NEW c \in Clients, FlushLink(c) PROVE LinkInv'
<1>1. txn[c].id \in CategoryIds /\ txn[c].at = "flush"
    BY IdsFacts DEF TInv, WellPlaced, CategoriesTypeOK, FlushLink, CategoryIds
<1>2. UNCHANGED link /\ UNCHANGED categories
    BY DEF FlushLink, tree
<1>3. CASE End(c)
    BY <1>2, <1>3, EndLinkInv
<1>4. ASSUME NEW w \in Txn, txn' = [txn EXCEPT ![c] = w],
             w.at = "commit", w.id = txn[c].id, w.primary = txn[c].primary,
             w.seen = txn[c].seen, w.gaps = txn[c].gaps,
             txn[c].locks \subseteq w.locks,
             \A k \in CategoryIds : w.wrote[k] # txn[c].wrote[k] =>
                 /\ k = txn[c].id /\ k \in w.locks /\ w.wrote[k] = Wanted(c)
                 /\ txn[c].seen # Wanted(c)
                 /\ txn[c].seen = "none" => link[k] = "none"
      PROVE  LinkInv'
  <2>1. txn'[c] = w /\ \A d \in Clients : d # c => txn'[d] = txn[d]
      BY <1>4, TxnMoves DEF TInv
  <2>2. LinksToCategories' /\ AtMostOnePrimary'
      BY <1>2 DEF LinkInv, LinksToCategories, AtMostOnePrimary
  <2>3. \A k \in CategoryIds : w.wrote[k] # txn[c].wrote[k] =>
            k = txn[c].id /\ k \in w.locks /\ (w.wrote[k] = "primary" => txn[c].gaps)
      BY <1>1, <1>4 DEF Wanted, LinkInv, WritesAreMeant
  <2>4. WritesAreMeant'
      BY <1>1, <1>2, <1>4, <2>1, <2>3 DEF LinkInv, WritesAreMeant
  <2>5. \A d \in Clients \ {c} : txn[d].gaps => txn[c].seen = Wanted(c) \/ txn[c].seen # "none"
      BY <1>1 DEF FlushLink, Granted, Waits
  <2>6. ASSUME NEW d \in Clients \ {c}, txn[d].gaps, NEW k \in CategoryIds, link[k] = "none"
        PROVE  w.wrote[k] = txn[c].wrote[k]
    <3>1. txn[c].seen # "none" => link[txn[c].id] # "none"
        BY DEF LinkInv, WritesAreMeant
    <3> QED BY <1>4, <2>5, <2>6, <3>1
  <2>7. OthersAreCleared'
      BY <1>2, <1>4, <2>1, <2>6 DEF LinkInv, OthersAreCleared
  <2> QED BY <2>2, <2>4, <2>7 DEF LinkInv
<1>5. txn[c].wrote \in [CategoryIds -> Links]
    BY TypesOfTxn DEF TInv, Txn
<1>6. CASE ~ End(c)
  <2>1. PICK w \in Txn :
          /\ txn' = [txn EXCEPT ![c] = w]
          /\ w.at = "commit" /\ w.id = txn[c].id /\ w.primary = txn[c].primary
          /\ w.seen = txn[c].seen /\ w.gaps = txn[c].gaps
          /\ \/ w.locks = txn[c].locks /\ w.wrote = txn[c].wrote
             \/ /\ w.locks = txn[c].locks \cup {txn[c].id}
                /\ w.wrote = [txn[c].wrote EXCEPT ![txn[c].id] = Wanted(c)]
                /\ txn[c].seen # Wanted(c)
                /\ txn[c].seen = "none" => link[txn[c].id] = "none"
      BY <1>1, <1>6, FlushLinkStep DEF TInv
  <2>2. \A k \in CategoryIds : w.wrote[k] # txn[c].wrote[k] =>
            /\ k = txn[c].id /\ k \in w.locks /\ w.wrote[k] = Wanted(c)
            /\ txn[c].seen # Wanted(c)
            /\ txn[c].seen = "none" => link[k] = "none"
      BY <1>5, <2>1
  <2>3. txn[c].locks \subseteq w.locks
      BY <2>1
  <2> QED BY <1>4, <2>1, <2>2, <2>3
<1> QED BY <1>3, <1>6

\* The rows of the commit are the only ones that change; a new primary one is
\* the only primary one.
LEMMA CommitLinkInv == ASSUME TInv, LinkInv, NEW c \in Clients, CommitLink(c) PROVE LinkInv'
<1> DEFINE k == txn[c].id
           wrote == txn[c].wrote
<1>1. \A j \in CategoryIds : link'[j] = IF wrote[j] = "none" THEN link[j] ELSE wrote[j]
    BY DEF CommitLink
<1>2. k \in categories /\ UNCHANGED categories
    BY DEF TInv, WellPlaced, CommitLink, tree
<1>3. PICK w \in Txn : txn' = [txn EXCEPT ![c] = w] /\ w = Idle
    BY EndStep DEF TInv, CommitLink
<1>4. txn'[c] = Idle /\ \A d \in Clients : d # c => txn'[d] = txn[d]
    BY <1>3, TxnMoves DEF TInv
<1>5. \A j \in CategoryIds : wrote[j] # "none" =>
          /\ j # k => wrote[j] = "plain" /\ link[j] # "none"
          /\ wrote[j] = "primary" => txn[c].gaps /\ j = k
    BY DEF LinkInv, WritesAreMeant
<1> HIDE DEF k, wrote
<1>6. \A j \in CategoryIds : link[j] # "none" => link'[j] # "none"
    BY <1>1
<1>7. LinksToCategories'
    BY <1>1, <1>2, <1>5 DEF LinkInv, LinksToCategories
<1>8. WritesAreMeant'
  <2> SUFFICES ASSUME NEW d \in Clients
               PROVE  /\ txn'[d].gaps <=> (txn'[d].primary /\ txn'[d].at \in {"flush", "commit"})
                      /\ txn'[d].at = "clear" => txn'[d].primary
                      /\ txn'[d].seen # "none" =>
                            txn'[d].at \in {"clear", "flush", "commit"} /\ link'[txn'[d].id] # "none"
                      /\ \A j \in CategoryIds : txn'[d].wrote[j] # "none" =>
                            /\ txn'[d].at \in {"flush", "commit"}
                            /\ j \in txn'[d].locks
                            /\ j # txn'[d].id => txn'[d].wrote[j] = "plain" /\ link'[j] # "none"
                            /\ txn'[d].wrote[j] = "primary" => txn'[d].gaps
      BY DEF WritesAreMeant
  <2>1. CASE d = c
      BY <1>4, <2>1, IdleFacts
  <2>2. CASE d # c
    <3>1. txn[d].seen # "none" => txn[d].id \in CategoryIds
        BY SeenIsOfACategory
    <3> QED BY <1>4, <1>6, <2>2, <3>1 DEF LinkInv, WritesAreMeant
  <2> QED BY <2>1, <2>2
<1>9. OthersAreCleared'
  <2> SUFFICES ASSUME NEW d \in Clients, txn'[d].gaps, NEW j \in CategoryIds \ {txn'[d].id}
               PROVE  /\ link'[j] # "none" => txn'[d].wrote[j] = "plain"
                      /\ link'[j] = "none" => \A e \in Clients \ {d} : txn'[e].wrote[j] = "none"
      BY DEF OthersAreCleared
  <2>1. d # c /\ txn'[d] = txn[d]
      BY <1>4, IdleFacts
  <2>2. link[j] = "none" => wrote[j] = "none"
      BY <2>1 DEF LinkInv, OthersAreCleared, wrote
  <2>3. link'[j] # "none" => link[j] # "none"
      BY <1>1, <2>2
  <2>4. \A e \in Clients : e = c \/ txn'[e] = txn[e]
      BY <1>4
  <2> QED BY <1>4, <1>6, <2>1, <2>3, <2>4, IdleFacts DEF LinkInv, OthersAreCleared
<1>10. AtMostOnePrimary'
  <2>1. CASE \E j \in CategoryIds : wrote[j] = "primary"
    <3>1. txn[c].gaps /\ \A i \in CategoryIds : i # k => wrote[i] # "primary"
        BY <1>5, <2>1
    <3>2. \A i \in CategoryIds \ {k} : link[i] # "none" => wrote[i] = "plain"
        BY <3>1 DEF LinkInv, OthersAreCleared, k, wrote
    <3>3. \A i \in CategoryIds : link'[i] = "primary" => i = k
        BY <1>1, <3>1, <3>2
    <3> QED BY <3>3 DEF AtMostOnePrimary
  <2>2. CASE ~ \E j \in CategoryIds : wrote[j] = "primary"
    <3>1. \A i \in CategoryIds : link'[i] = "primary" => link[i] = "primary"
        BY <1>1, <2>2
    <3> QED BY <3>1 DEF LinkInv, AtMostOnePrimary
  <2> QED BY <2>1, <2>2
<1> QED BY <1>7, <1>8, <1>9, <1>10 DEF LinkInv

LEMMA NextLinkInv == TInv /\ LinkInv /\ [CategoryNext]_categoryVars => LinkInv'
<1> SUFFICES ASSUME TInv, LinkInv, [CategoryNext]_categoryVars PROVE LinkInv'
    OBVIOUS
<1>1. ASSUME NEW c \in Clients, Rollback(c) PROVE LinkInv'
    BY <1>1, EndLinkInv DEF Rollback, tree
<1>2. ASSUME NEW c \in Clients, NEW above \in CategoryIds \cup {0}, PostCategory(c, above) PROVE LinkInv'
  <2>1. above \in 0 .. MaxCategories /\ UNCHANGED <<categories, link>>
      BY <1>2, IdsFacts DEF PostCategory, tree
  <2> QED BY <1>2, <2>1, PostCategoryStep, QuietLinkInv DEF TInv
<1>3. ASSUME NEW c \in Clients, NEW k \in CategoryIds, NEW primary \in BOOLEAN,
             PostAssociation(c, k, primary)
      PROVE  LinkInv'
  <2>1. UNCHANGED <<categories, link>>
      BY <1>3 DEF PostAssociation, tree
  <2> QED BY <1>3, <2>1, PostAssociationStep, QuietLinkInv DEF TInv
<1>4. ASSUME NEW c \in Clients, InsertCategory(c) PROVE LinkInv'
  <2>1. /\ txn[c].at = "create" /\ ~ txn[c].gaps
        /\ UNCHANGED <<categories, link>>
        /\ \A k \in CategoryIds : txn[c].wrote[k] = "none"
      BY <1>4 DEF InsertCategory, LinkInv, WritesAreMeant
  <2>2. txn[c].seen = "none"
      BY <1>4, SeenIsOfACategory DEF InsertCategory
  <2> QED BY <1>4, <2>1, <2>2, InsertCategoryStep, QuietLinkInv DEF TInv
<1>5. ASSUME NEW c \in Clients, PublishCategory(c) PROVE LinkInv'
    BY <1>5, EndLinkInv DEF PublishCategory
<1>6. CASE UNCHANGED categoryVars
    BY <1>6 DEF categoryVars, tree, LinkInv, LinksToCategories, WritesAreMeant, OthersAreCleared,
                AtMostOnePrimary
<1> QED
    BY <1>1, <1>2, <1>3, <1>4, <1>5, <1>6, SelectLinkInv, ClearLinkInv, FlushLinkInv,
       CommitLinkInv DEF CategoryNext, ServeTransaction

LEMMA InvariantLinkInv == CategorySpec => [](TInv /\ LinkInv)
  BY InitTInv, NextTInv, InitLinkInv, NextLinkInv, PTL DEF CategorySpec

-----------------------------------------------------------------------------
(* Ancestors *)

\* A non-empty set of ids has a smallest one: its initial segments are
\* well-founded under inclusion.
LEMMA SmallestElement ==
    ASSUME NEW n \in Nat, NEW T \in SUBSET (0 .. n), T # {}
    PROVE  \E m \in T : \A k \in T : m <= k
<1> DEFINE U == {0 .. k : k \in T}
           R == StrictSubsetOrdering(0 .. n)
           F == FiniteSubsetsOf(0 .. n)
<1>1. IsWellFoundedOn(R, F)
    BY FS_StrictSubsetOrderingWellFounded
<1>2. U \subseteq F /\ U # {}
  <2>1. ASSUME NEW k \in T PROVE 0 .. k \in F
    <3>1. IsFiniteSet(0 .. k)
        BY FS_Interval
    <3> QED BY <3>1 DEF FiniteSubsetsOf
  <2> QED BY <2>1
<1>3. \E u \in U : \A v \in U : ~ (<<v, u>> \in R)
  <2> HIDE DEF U, R, F
  <2> QED BY <1>1, <1>2, WFMin
<1>4. PICK m \in T : \A k \in T : ~ (<<0 .. k, 0 .. m>> \in R)
    BY <1>3
<1>5. ASSUME NEW k \in T, k < m PROVE FALSE
  <2>1. 0 .. k \subseteq 0 .. m /\ m \in 0 .. m /\ m \notin 0 .. k
      BY <1>5
  <2>2. 0 .. k \in SUBSET (0 .. n) /\ 0 .. m \in SUBSET (0 .. n)
      OBVIOUS
  <2> QED BY <1>4, <2>1, <2>2 DEF StrictSubsetOrdering
<1> QED BY <1>5

\* The categories above j, as its path lists them.
Above(j) == {path[j][i] : i \in 1 .. Len(path[j]) - 1}

IsAncestors(f) ==
    f = [j \in CategoryIds |-> IF parent[j] = 0 THEN {} ELSE {parent[j]} \cup f[parent[j]]]

LEMMA LastOfPath ==
    ASSUME TInv, PathsAreOfAncestors, NEW l \in categories
    PROVE  Len(path[l]) \in 1 .. Len(path[l]) /\ path[l][Len(path[l])] = l
<1> DEFINE t == path[l]
           v == IF parent[l] = 0 THEN <<>> ELSE path[parent[l]]
<1>1. path \in [CategoryIds -> Seq(CategoryIds)] /\ l \in CategoryIds
    BY CategoriesAreIds DEF TInv, CategoriesTypeOK
<1>2. t = Append(v, l)
    BY <1>1 DEF PathsAreOfAncestors
<1>3. v \in Seq(CategoryIds)
  <2>1. CASE parent[l] = 0
      BY <2>1
  <2>2. CASE parent[l] # 0
    <3>1. parent[l] \in CategoryIds
        BY <1>1, <2>2, CategoriesAreIds DEF PathsAreOfAncestors
    <3> QED BY <1>1, <2>2, <3>1
  <2> QED BY <2>1, <2>2
<1> HIDE DEF v, t
<1>4. Len(t) \in 1 .. Len(t) /\ t[Len(t)] = l
    BY <1>1, <1>2, <1>3
<1> QED BY <1>4 DEF t

LEMMA AboveUnfolds ==
    ASSUME TInv, PathsAreOfAncestors, NEW j \in CategoryIds
    PROVE  /\ parent[j] = 0 => Above(j) = {}
           /\ parent[j] # 0 => /\ parent[j] \in CategoryIds /\ parent[j] < j
                              /\ Above(j) = {parent[j]} \cup Above(parent[j])
<1>1. path \in [CategoryIds -> Seq(CategoryIds)]
    BY DEF TInv, CategoriesTypeOK
<1>2. CASE j \notin categories
    BY <1>2 DEF PathsAreOfAncestors, Above
<1>3. CASE j \in categories /\ parent[j] = 0
  <2>1. path[j] = Append(<<>>, j)
      BY <1>3 DEF PathsAreOfAncestors
  <2>2. Len(path[j]) = 1
      BY <2>1
  <2>3. 1 .. Len(path[j]) - 1 = {}
      BY <2>2
  <2> QED BY <1>3, <2>3 DEF Above
<1>4. CASE j \in categories /\ parent[j] # 0
  <2> DEFINE l == parent[j]
             t == path[l]
             u == path[j]
  <2>1. l \in categories /\ l < j /\ u = Append(t, j)
      BY <1>4 DEF PathsAreOfAncestors
  <2>2. l \in CategoryIds
      BY <2>1, CategoriesAreIds
  <2>3. /\ t \in Seq(CategoryIds) /\ Len(t) \in Nat
        /\ Len(u) = Len(t) + 1 /\ \A i \in 1 .. Len(t) : u[i] = t[i]
      BY <1>1, <2>1, <2>2
  <2>4. Len(t) \in 1 .. Len(t) /\ t[Len(t)] = l
      BY <2>1, LastOfPath
  <2>5. {u[i] : i \in 1 .. Len(u) - 1} = {l} \cup {t[i] : i \in 1 .. Len(t) - 1}
    <3> HIDE DEF t, u, l
    <3>1. Len(u) - 1 = Len(t) /\ 1 .. Len(t) = 1 .. Len(t) - 1 \cup {Len(t)}
        BY <2>3, <2>4
    <3>2. {u[i] : i \in 1 .. Len(t)} = {t[i] : i \in 1 .. Len(t)}
        BY <2>3
    <3> QED BY <2>4, <3>1, <3>2
  <2> QED BY <1>4, <2>1, <2>2, <2>5 DEF Above
<1> QED BY <1>2, <1>3, <1>4

\* So the recursion has a solution, and only one.
LEMMA AncestorsAreAbove ==
    ASSUME TInv, PathsAreOfAncestors
    PROVE  \A j \in CategoryIds : Ancestors[j] = Above(j)
<1> DEFINE above == [j \in CategoryIds |-> Above(j)]
<1>1. IsAncestors(above)
  <2>1. ASSUME NEW j \in CategoryIds
        PROVE  above[j] = IF parent[j] = 0 THEN {} ELSE {parent[j]} \cup above[parent[j]]
      BY AboveUnfolds
  <2> QED BY <2>1 DEF IsAncestors
<1>2. Ancestors = CHOOSE f : IsAncestors(f)
    BY DEF Ancestors, IsAncestors
<1>3. IsAncestors(Ancestors)
    BY <1>1, <1>2
<1>4. SUFFICES ASSUME \E j \in CategoryIds : Ancestors[j] # Above(j) PROVE FALSE
    OBVIOUS
<1> DEFINE T == {j \in CategoryIds : Ancestors[j] # Above(j)}
<1>5. T # {} /\ T \in SUBSET (0 .. MaxCategories)
    BY <1>4, IdsFacts
<1>6. PICK m \in T : \A k \in T : m <= k
  <2> HIDE DEF T
  <2> QED BY <1>5, SmallestElement, IdsFacts
<1>7. Ancestors[m] = IF parent[m] = 0 THEN {} ELSE {parent[m]} \cup Ancestors[parent[m]]
    BY <1>3 DEF IsAncestors
<1>8. parent[m] # 0 => Ancestors[parent[m]] = Above(parent[m])
  <2>1. SUFFICES ASSUME parent[m] # 0 PROVE parent[m] \notin T /\ parent[m] \in CategoryIds
      OBVIOUS
  <2>2. parent[m] \in CategoryIds /\ parent[m] < m /\ m \in Nat /\ parent[m] \in Nat
      BY <2>1, AboveUnfolds, IdsFacts
  <2>3. ASSUME parent[m] \in T PROVE FALSE
    <3>1. m <= parent[m]
        BY <1>6, <2>3
    <3> HIDE DEF T
    <3> QED BY <2>2, <3>1
  <2> QED BY <2>2, <2>3
<1>9. Ancestors[m] = Above(m)
    BY <1>7, <1>8, AboveUnfolds
<1> QED BY <1>9

\* LIKE 'path/%' finds what the recursion finds.
LEMMA PrefixIsAbove ==
    ASSUME TInv, PathsAreOfAncestors, NEW j \in categories, NEW k \in categories
    PROVE  IsStrictPrefix(path[k], path[j]) <=> k \in Above(j)
<1> DEFINE s == path[k]
           t == path[j]
<1>1. s \in Seq(CategoryIds) /\ t \in Seq(CategoryIds)
    BY CategoriesAreIds DEF TInv, CategoriesTypeOK
<1>2. Len(s) \in 1 .. Len(s) /\ s[Len(s)] = k
    BY LastOfPath
<1>3. \A i \in 1 .. Len(t) : path[t[i]] = SubSeq(t, 1, i)
    BY CategoriesAreIds DEF PathsAreOfAncestors
<1>4. Above(j) = {t[i] : i \in 1 .. Len(t) - 1}
    BY DEF Above
<1>5. ASSUME IsStrictPrefix(s, t) PROVE k \in Above(j)
  <2> HIDE DEF s, t
  <2>1. Len(s) <= Len(t) /\ SubSeq(s, 1, Len(s)) = SubSeq(t, 1, Len(s)) /\ s # t
      BY <1>5 DEF IsStrictPrefix, IsPrefix
  <2>2. s = SubSeq(t, 1, Len(s)) /\ t = SubSeq(t, 1, Len(t))
      BY <1>1, <2>1
  <2>3. Len(s) # Len(t)
      BY <2>1, <2>2
  <2>4. Len(s) \in 1 .. Len(t) - 1
      BY <1>1, <1>2, <2>1, <2>3
  <2>5. SubSeq(t, 1, Len(s))[Len(s)] = t[Len(s)]
      BY <1>1, <1>2, <2>4
  <2>6. t[Len(s)] = k
      BY <1>2, <2>2, <2>5
  <2> QED BY <1>4, <2>4, <2>6
<1>6. ASSUME k \in Above(j) PROVE IsStrictPrefix(s, t)
  <2>1. PICK i \in 1 .. Len(t) - 1 : t[i] = k
      BY <1>4, <1>6
  <2>2. i \in 1 .. Len(t) /\ i < Len(t) /\ Len(t) \in Nat
      BY <1>1, <2>1
  <2>3. s = SubSeq(t, 1, i)
      BY <1>3, <2>1, <2>2
  <2> HIDE DEF s, t
  <2>4. Len(s) = i /\ SubSeq(s, 1, i) = s
      BY <1>1, <2>2, <2>3
  <2>5. Len(s) <= Len(t) /\ s # t
      BY <2>2, <2>4
  <2> QED BY <2>3, <2>4, <2>5 DEF IsStrictPrefix, IsPrefix
<1> QED BY <1>5, <1>6

LEMMA FoundByPath ==
    ASSUME TInv, PathsAreOfAncestors, LinksToCategories
    PROVE  FoundUnderAncestorsOnly
<1> SUFFICES ASSUME NEW k \in categories
             PROVE  FoundUnder(k) <=>
                      \E j \in CategoryIds : link[j] # "none" /\ (j = k \/ k \in Ancestors[j])
    BY DEF FoundUnderAncestorsOnly
<1>1. \A j \in CategoryIds : Ancestors[j] = Above(j)
    BY AncestorsAreAbove
<1>2. \A j \in CategoryIds : link[j] # "none" => j \in categories
    BY DEF LinksToCategories
<1>3. \A j \in categories : IsStrictPrefix(path[k], path[j]) <=> k \in Above(j)
    BY PrefixIsAbove
<1>4. FoundUnder(k) <=> link[k] # "none" \/ \E j \in categories : k \in Above(j) /\ link[j] # "none"
    BY <1>3 DEF FoundUnder, Subcategories
<1> QED BY <1>1, <1>2, <1>4, CategoriesAreIds

-----------------------------------------------------------------------------
\* The tables and the transactions are well typed (category_service.py).
THEOREM CategoriesTypeCorrect == CategorySpec => []CategoriesTypeOK
<1>1. TInv => CategoriesTypeOK
    BY DEF TInv
<1> QED BY <1>1, InvariantTInv, PTL

\* However many requests make categories the primary one of a product at the same
\* time, and whatever fails or is rolled back, no two end up primary
\* (category_service.py:92-133).
THEOREM OnePrimaryCategory == CategorySpec => []AtMostOnePrimary
<1>1. LinkInv => AtMostOnePrimary
    BY DEF LinkInv
<1> QED BY <1>1, InvariantLinkInv, PTL

\* A product is found under its categories and all that are above them, and
\* nowhere else: path LIKE '<path>/%' is the recursion over the parents
\* (category_service.py:18-58, 62-74, 146-172).
THEOREM FoundUnderAllAncestors == CategorySpec => []FoundUnderAncestorsOnly
<1>1. LinkInv => LinksToCategories
    BY DEF LinkInv
<1> QED BY <1>1, FoundByPath, InvariantPaths, InvariantLinkInv, PTL
=============================================================================
