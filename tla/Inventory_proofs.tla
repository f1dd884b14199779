--------------------------- MODULE Inventory_proofs ---------------------------
(***************************************************************************)
(* Proofs about Inventory, for any sets of products, sessions, quantities  *)
(* and initial stocks.                                                     *)
(*                                                                         *)
(* NoOverselling is not inductive by itself: Commit writes the image of    *)
(* the row that the session read earlier, so the image must be known to    *)
(* be the effect of a permitted operation on the row as it is now          *)
(* (NoLostUpdate); that survives the steps of the other sessions only      *)
(* because a session that will write holds the row lock, and the lock is   *)
(* held by nobody who is not at work on that row (LockDiscipline).         *)
(***************************************************************************)
EXTENDS Inventory, TLAPS

IInv == TypeOK /\ NoOverselling /\ NoLostUpdate /\ LockDiscipline

-----------------------------------------------------------------------------
(* What the operations do to a row (product_service.py:326-356). *)

\* An operation the code permits turns a sound row into a sound row.
LEMMA EffectIsSound ==
    ASSUME NEW op \in Ops, NEW r \in Row, NEW q \in Nat \ {0},
           Sound(r), Permitted(op, r, q)
    PROVE  Sound(Effect(op, r, q))
<1>1. r.stock \in Int /\ r.reserved \in Int
    BY DEF Row
<1>2. CASE op = "reserve"
  <2>1. Effect(op, r, q) = [r EXCEPT !.reserved = @ + q] /\ r.stock - r.reserved >= q
      BY <1>2 DEF Effect, Permitted, Available
  <2> QED BY <1>1, <2>1 DEF Sound, Row
<1>3. CASE op = "release"
  <2>1. Effect(op, r, q) = [r EXCEPT !.reserved = @ - q] /\ r.reserved >= q
      BY <1>3 DEF Effect, Permitted
  <2> QED BY <1>1, <2>1 DEF Sound, Row
<1>4. CASE op = "confirm"
  <2>1. /\ Effect(op, r, q) = [stock |-> r.stock - q, reserved |-> r.reserved - q]
        /\ r.reserved >= q
      BY <1>4 DEF Effect, Permitted
  <2> QED BY <1>1, <2>1 DEF Sound
<1> QED
    BY <1>2, <1>3, <1>4 DEF Ops

\* The effect of an operation on a row is a row.
LEMMA EffectType ==
    ASSUME NEW op \in Ops, NEW r \in Row, NEW q \in Nat \ {0}
    PROVE  Effect(op, r, q) \in Row
  BY DEF Ops, Row, Effect

\* The rows of new products are sound.
LEMMA NewRowIsSound ==
    ASSUME NEW n \in Nat
    PROVE  /\ [stock |-> n, reserved |-> 0] \in Row
           /\ Sound([stock |-> n, reserved |-> 0])
  BY DEF Row, Sound

-----------------------------------------------------------------------------
(* Type correctness. *)

LEMMA InitTypeOK == Init => TypeOK
  BY StocksAssumption
  DEF Init, TypeOK, EmptyRow, Row, Stage

LEMMA NextTypeOK == TypeOK /\ [Next]_vars => TypeOK'
<1> SUFFICES ASSUME TypeOK, [Next]_vars
             PROVE  TypeOK'
    OBVIOUS
<1> USE DEF TypeOK
<1> HIDE DEF Stage, Request, Row
<1>stage. {"idle", "select", "locked", "commit", "refresh", "rollback",
           "abort", "late", "true", "false"} \subseteq Stage
    BY DEF Stage
<1>empty. EmptyRow \in Row
    BY DEF EmptyRow, Row
<1>0. CASE UNCHANGED vars
    BY <1>0 DEF vars
<1>1. ASSUME NEW s \in Sessions, NEW r \in Request, Begin(s, r)
      PROVE  TypeOK'
    BY <1>1, <1>stage DEF Begin, Goto
<1>2. ASSUME NEW s \in Sessions, Select(s)
      PROVE  TypeOK'
  <2>1. req[s].product \in Products
      BY DEF Request
  <2> QED BY <1>2, <1>stage, <2>1 DEF Select, Goto
<1>3. ASSUME NEW s \in Sessions, NotFound(s)
      PROVE  TypeOK'
  <2>1. req[s].product \in Products
      BY DEF Request
  <2> QED BY <1>3, <1>stage, <2>1 DEF NotFound, Goto
<1>4. ASSUME NEW s \in Sessions, SelectFails(s) \/ CommitFails(s) \/ Refresh(s)
      PROVE  TypeOK'
    BY <1>4, <1>stage DEF SelectFails, CommitFails, Refresh, Goto
<1>5. ASSUME NEW s \in Sessions, Act(s)
      PROVE  TypeOK'
  <2>1. Effect(req[s].op, img[s], req[s].qty) \in Row
      BY EffectType, QuantitiesAssumption DEF Request
  <2> QED BY <1>5, <1>stage, <2>1 DEF Act, Goto
<1>6. ASSUME NEW s \in Sessions, Commit(s)
      PROVE  TypeOK'
  <2>1. row' \in [Products -> Row] /\ pc' \in [Sessions -> Stage]
      BY <1>6, <1>stage DEF Commit, Goto
  <2> QED BY <1>6, <2>1, <1>empty DEF Commit, EndTransaction
<1>7. ASSUME NEW s \in Sessions, Rollback(s) \/ Abort(s) \/ Crash(s)
      PROVE  TypeOK'
  <2>1. pc' \in [Sessions -> Stage] /\ UNCHANGED <<listed, row, req>>
      BY <1>7, <1>stage DEF Rollback, Abort, Crash, Goto
  <2>2. EndTransaction(s)
      BY <1>7 DEF Rollback, Abort, Crash
  <2> QED BY <2>1, <2>2, <1>empty DEF EndTransaction
<1>8. ASSUME NEW p \in Products, NEW n \in Stocks, InsertProduct(p, n)
      PROVE  TypeOK'
  <2>1. [stock |-> n, reserved |-> 0] \in Row
      BY NewRowIsSound, StocksAssumption
  <2> QED BY <1>8, <2>1 DEF InsertProduct
<1> QED
    BY <1>0, <1>1, <1>2, <1>3, <1>4, <1>5, <1>6, <1>7, <1>8 DEF Next, Step

\* The variables keep their types (the tables and sessions of
\* product_service.py:236-292).
THEOREM TypeCorrect == Spec => []TypeOK
  BY InitTypeOK, NextTypeOK, PTL DEF Spec

-----------------------------------------------------------------------------
(* The safety invariants.  Each action is shown to preserve IInv by the parts *)
(* it can disturb.                                                            *)

LEMMA InitIInv == Init => IInv
<1> SUFFICES ASSUME Init
             PROVE  IInv
    OBVIOUS
<1>1. TypeOK
    BY InitTypeOK
<1>2. NoOverselling
    BY StocksAssumption DEF Init, NoOverselling, Sound, EmptyRow
<1>3. NoLostUpdate
    BY DEF Init, NoLostUpdate
<1>4. LockDiscipline
    BY DEF Init, LockDiscipline
<1> QED
    BY <1>1, <1>2, <1>3, <1>4 DEF IInv

\* At a stage that writes or rolls back a session has the lock of the row.
AtWork == {"locked", "commit", "rollback"}

\* What NoLostUpdate says of one session, and LockDiscipline of one row.
Current(s) ==
    LET p == req[s].product IN
    /\ pc[s] \in AtWork => held[p] = s
    /\ pc[s] = "locked" => img[s] = row[p]
    /\ pc[s] = "commit" =>
          /\ Permitted(req[s].op, row[p], req[s].qty)
          /\ img[s] = Effect(req[s].op, row[p], req[s].qty)

Disciplined(p) ==
    held[p] # NoSession =>
        /\ p \in listed
        /\ req[held[p]].product = p
        /\ pc[held[p]] \in AtWork \cup {"abort"}

LEMMA Parts ==
    /\ NoLostUpdate <=> \A s \in Sessions : Current(s)
    /\ LockDiscipline <=> \A p \in Products : Disciplined(p)
  BY DEF NoLostUpdate, LockDiscipline, Current, Disciplined, AtWork

LEMMA NextIInv == IInv /\ [Next]_vars => IInv'
<1> SUFFICES ASSUME IInv, [Next]_vars
             PROVE  IInv'
    OBVIOUS
<1>t. TypeOK /\ TypeOK'
    BY NextTypeOK DEF IInv
<1>p. /\ \A p \in Products : Sound(row[p])
      /\ \A s \in Sessions : Current(s)
      /\ \A p \in Products : Disciplined(p)
    BY Parts DEF IInv, NoOverselling
<1>q. ASSUME \A p \in Products : Sound(row'[p]),
             \A s \in Sessions : Current(s)',
             \A p \in Products : Disciplined(p)'
      PROVE  IInv'
  <2>1. NoLostUpdate' /\ LockDiscipline'
      BY <1>q DEF NoLostUpdate, LockDiscipline, Current, Disciplined, AtWork
  <2> QED BY <1>t, <1>q, <2>1 DEF IInv, NoOverselling
<1>r. \A s \in Sessions : req[s].product \in Products /\ req'[s].product \in Products
    BY <1>t DEF TypeOK, Request
<1>0. CASE UNCHANGED vars
  <2>1. \A s \in Sessions : Current(s)'
      BY <1>0, <1>p DEF vars, Current
  <2>2. \A p \in Products : Disciplined(p)'
      BY <1>0, <1>p DEF vars, Disciplined
  <2> QED BY <1>0, <1>p, <1>q, <2>1, <2>2 DEF vars
\* A step of s that leaves the tables and locks alone and brings s to a stage
\* that demands nothing, from one at which s holds no lock.
<1>1. ASSUME NEW s \in Sessions, NEW stage \in Stage \ AtWork,
             pc[s] \notin AtWork \cup {"abort"}, pc' = [pc EXCEPT ![s] = stage],
             \A t \in Sessions \ {s} : req'[t] = req[t] /\ img'[t] = img[t],
             UNCHANGED <<listed, row, held>>
      PROVE  IInv'
  <2>1. \A t \in Sessions : Current(t)'
      BY <1>1, <1>p, <1>t DEF Current, TypeOK, AtWork
  <2>2. \A p \in Products : Disciplined(p)'
      BY <1>1, <1>p, <1>t, NoSessionAssumption DEF Disciplined, TypeOK
  <2> QED BY <1>1, <1>p, <1>q, <2>1, <2>2
<1>2. ASSUME NEW s \in Sessions,
             \/ \E r \in Request : Begin(s, r)
             \/ NotFound(s) \/ SelectFails(s) \/ Refresh(s)
      PROVE  IInv'
  <2>1. PICK stage \in {"select", "false", "abort", "true", "late"} :
            pc' = [pc EXCEPT ![s] = stage]
      BY <1>2 DEF Begin, NotFound, SelectFails, Refresh, Goto
  <2>2. /\ pc[s] \in {"idle", "true", "false", "select", "refresh"}
        /\ \A t \in Sessions \ {s} : req'[t] = req[t] /\ img'[t] = img[t]
        /\ UNCHANGED <<listed, row, held>>
      BY <1>2, <1>t DEF Begin, NotFound, SelectFails, Refresh, TypeOK
  <2> QED BY <1>1, <2>1, <2>2 DEF Stage, AtWork
<1>3. ASSUME NEW s \in Sessions, Select(s)
      PROVE  IInv'
  <2>1. /\ pc[s] = "select" /\ req[s].product \in listed
        /\ held[req[s].product] = NoSession
        /\ held' = [held EXCEPT ![req[s].product] = s]
        /\ img' = [img EXCEPT ![s] = row[req[s].product]]
        /\ pc' = [pc EXCEPT ![s] = "locked"]
        /\ UNCHANGED <<listed, row, gap, req>>
      BY <1>3 DEF Select, Goto
  <2>2. \A t \in Sessions : Current(t)'
      BY <2>1, <1>p, <1>t, <1>r, NoSessionAssumption DEF Current, TypeOK, AtWork
  <2>3. \A p \in Products : Disciplined(p)'
      BY <2>1, <1>p, <1>t, <1>r, NoSessionAssumption DEF Disciplined, TypeOK, AtWork
  <2> QED BY <2>1, <1>p, <1>q, <2>2, <2>3
<1>4. ASSUME NEW s \in Sessions, Act(s)
      PROVE  IInv'
  <2>1. /\ pc[s] = "locked" /\ UNCHANGED <<listed, row, held, gap, req>>
        /\ \A t \in Sessions \ {s} : pc'[t] = pc[t] /\ img'[t] = img[t]
      BY <1>4, <1>t DEF Act, Goto, TypeOK
  <2>2. \/ /\ pc'[s] = "commit"
           /\ Permitted(req[s].op, img[s], req[s].qty)
           /\ img'[s] = Effect(req[s].op, img[s], req[s].qty)
        \/ pc'[s] = "rollback"
      BY <1>4, <1>t DEF Act, Goto, TypeOK
  <2>3. Current(s)
      BY <1>p
  <2>4. Current(s)'
      BY <2>1, <2>2, <2>3 DEF Current, AtWork
  <2>5. ASSUME NEW t \in Sessions \ {s}
        PROVE  Current(t)'
      BY <2>1, <1>p DEF Current
  <2>6. \A p \in Products : Disciplined(p)'
      BY <2>1, <2>2, <1>p, <1>t DEF Disciplined, TypeOK, AtWork
  <2> QED BY <2>1, <1>p, <1>q, <2>4, <2>5, <2>6
<1>5. ASSUME NEW s \in Sessions, CommitFails(s)
      PROVE  IInv'
  <2>1. /\ pc[s] = "commit" /\ pc' = [pc EXCEPT ![s] = "abort"]
        /\ UNCHANGED <<listed, row, held, gap, req, img>>
      BY <1>5 DEF CommitFails, Goto
  <2>2. \A t \in Sessions : Current(t)'
      BY <2>1, <1>p, <1>t DEF Current, TypeOK, AtWork
  <2>3. \A p \in Products : Disciplined(p)'
      BY <2>1, <1>p, <1>t DEF Disciplined, TypeOK, AtWork
  <2> QED BY <2>1, <1>p, <1>q, <2>2, <2>3
\* The end of a transaction: whatever s held is free, and s demands nothing.
<1>6. ASSUME NEW s \in Sessions, EndTransaction(s),
             NEW stage \in Stage \ (AtWork \cup {"abort"}),
             pc' = [pc EXCEPT ![s] = stage],
             UNCHANGED <<listed, req>>,
             \A p \in Products : held[p] # s => row'[p] = row[p]
      PROVE  /\ \A t \in Sessions : Current(t)'
             /\ \A p \in Products : Disciplined(p)'
  <2>1. held' = [p \in Products |-> IF held[p] = s THEN NoSession ELSE held[p]]
      BY <1>6 DEF EndTransaction
  <2>2. \A t \in Sessions \ {s} : img'[t] = img[t] /\ pc'[t] = pc[t]
      BY <1>6, <1>t DEF EndTransaction, TypeOK
  <2>3. pc'[s] \notin AtWork
      BY <1>6, <1>t DEF TypeOK
  <2>4. Current(s)'
      BY <2>3 DEF Current, AtWork
  <2>5. ASSUME NEW t \in Sessions \ {s}
        PROVE  Current(t)'
    <3>1. Current(t)
        BY <1>p
    <3>2. CASE pc[t] \in AtWork
      <4>1. held[req[t].product] = t
          BY <3>1, <3>2 DEF Current
      <4>2. held'[req[t].product] = t /\ row'[req[t].product] = row[req[t].product]
          BY <4>1, <2>1, <1>6, <1>r
      <4> QED BY <3>1, <4>2, <2>2, <1>6 DEF Current
    <3>3. CASE pc[t] \notin AtWork
        BY <3>3, <2>2 DEF Current, AtWork
    <3> QED BY <3>2, <3>3
  <2>6. \A p \in Products : Disciplined(p)'
      BY <2>1, <1>6, <1>p, <1>t, NoSessionAssumption DEF Disciplined, TypeOK
  <2> QED BY <2>4, <2>5, <2>6
<1>7. ASSUME NEW s \in Sessions, Commit(s)
      PROVE  IInv'
  <2> DEFINE p == req[s].product
  <2>1. /\ pc[s] = "commit" /\ row' = [row EXCEPT ![p] = img[s]]
        /\ EndTransaction(s) /\ UNCHANGED <<listed, req>>
      BY <1>7 DEF Commit
  <2>2. PICK stage \in {"refresh", "late"} : pc' = [pc EXCEPT ![s] = stage]
      BY <1>7 DEF Commit, Goto
  <2>3. /\ p \in Products /\ row[p] \in Row /\ req[s].op \in Ops
        /\ req[s].qty \in Nat \ {0}
      BY <1>t, QuantitiesAssumption DEF TypeOK, Request
  <2>4. /\ held[p] = s
        /\ Permitted(req[s].op, row[p], req[s].qty)
        /\ img[s] = Effect(req[s].op, row[p], req[s].qty)
      BY <1>p, <2>1 DEF Current, AtWork
  <2>5. Sound(img[s])
      BY <1>p, <2>3, <2>4, EffectIsSound
  <2>6. \A x \in Products : Sound(row'[x])
      BY <2>1, <2>3, <2>5, <1>p, <1>t DEF TypeOK
  <2>7. \A x \in Products : held[x] # s => row'[x] = row[x]
      BY <2>1, <2>4, <1>t DEF TypeOK
  <2>8. stage \in Stage \ (AtWork \cup {"abort"})
      BY DEF Stage, AtWork
  <2> QED BY <1>6, <1>q, <2>1, <2>2, <2>6, <2>7, <2>8
<1>8. ASSUME NEW s \in Sessions, Rollback(s) \/ Abort(s) \/ Crash(s)
      PROVE  IInv'
  <2>1. EndTransaction(s) /\ UNCHANGED <<listed, row, req>>
      BY <1>8 DEF Rollback, Abort, Crash
  <2>2. PICK stage \in {"false", "idle"} : pc' = [pc EXCEPT ![s] = stage]
      BY <1>8 DEF Rollback, Abort, Crash, Goto
  <2>3. stage \in Stage \ (AtWork \cup {"abort"})
      BY DEF Stage, AtWork
  <2> QED BY <1>6, <1>p, <1>q, <2>1, <2>2, <2>3
<1>9. ASSUME NEW p \in Products, NEW n \in Stocks, InsertProduct(p, n)
      PROVE  IInv'
  <2>1. /\ p \notin listed /\ listed' = listed \cup {p}
        /\ row' = [row EXCEPT ![p] = [stock |-> n, reserved |-> 0]]
        /\ UNCHANGED <<held, gap, pc, req, img>>
      BY <1>9 DEF InsertProduct
  <2>2. \A x \in Products : Sound(row'[x])
      BY <2>1, <1>p, <1>t, NewRowIsSound, StocksAssumption DEF TypeOK
  <2>3. ASSUME NEW t \in Sessions
        PROVE  Current(t)'
    <3>1. pc[t] \in AtWork => row'[req[t].product] = row[req[t].product]
      <4>1. pc[t] \in AtWork => req[t].product \in listed
          BY <1>p, <1>r, NoSessionAssumption DEF Current, Disciplined
      <4> QED BY <4>1, <2>1, <1>t, <1>r DEF TypeOK
    <3> QED BY <3>1, <2>1, <1>p DEF Current, AtWork
  <2>4. \A x \in Products : Disciplined(x)'
      BY <2>1, <1>p DEF Disciplined
  <2> QED BY <1>q, <2>2, <2>3, <2>4
<1> QED
    BY <1>0, <1>2, <1>3, <1>4, <1>5, <1>7, <1>8, <1>9 DEF Next, Step

LEMMA InductiveInvariant == Spec => []IInv
  BY InitIInv, NextIInv, PTL DEF Spec

\* However calls, failures and crashes interleave, no product is oversold
\* (product_service.py:326-356).
THEOREM NeverOversold == Spec => []NoOverselling
  BY InductiveInvariant, PTL DEF IInv

\* What a session writes is the effect of its own operation on the row as it is
\* when it writes (product_service.py:250-268).
THEOREM NoUpdateIsLost == Spec => []NoLostUpdate
  BY InductiveInvariant, PTL DEF IInv

\* A row lock is held by a session that works on that row, and by no other
\* (product_service.py:250-291).
THEOREM LocksAreDisciplined == Spec => []LockDiscipline
  BY InductiveInvariant, PTL DEF IInv
-----------------------------------------------------------------------------
(* The refinement: each step of Inventory is a step of AtomicInventory, or     *)
(* changes nothing that AtomicInventory sees.                                  *)

StatusOf(stage) ==
    CASE stage = "idle" -> "idle"
      [] stage = "true" -> "true"
      [] stage = "false" -> "false"
      [] stage \in {"refresh", "late"} -> "applied"
      [] OTHER -> "pending"

LEMMA StatusOfStage ==
    /\ StatusOf("idle") = "idle" /\ StatusOf("true") = "true"
    /\ StatusOf("false") = "false"
    /\ \A stage \in {"refresh", "late"} : StatusOf(stage) = "applied"
    /\ \A stage \in {"select", "locked", "commit", "rollback", "abort"} :
           StatusOf(stage) = "pending"
  BY DEF StatusOf

LEMMA AtomicStatusIs == AtomicStatus = [s \in Sessions |-> StatusOf(pc[s])]
  BY DEF AtomicStatus, StatusOf

\* A step of s to a stage changes the abstract status of s accordingly.
LEMMA AtomicStatusMoves ==
    ASSUME TypeOK, NEW s \in Sessions, NEW stage \in Stage,
           pc' = [pc EXCEPT ![s] = stage]
    PROVE  AtomicStatus' = [AtomicStatus EXCEPT ![s] = StatusOf(stage)]
<1>1. AtomicStatus' = [t \in Sessions |-> StatusOf(pc'[t])]
    BY DEF AtomicStatus, StatusOf
<1>2. AtomicStatus = [t \in Sessions |-> StatusOf(pc[t])]
    BY AtomicStatusIs
<1>3. ASSUME NEW t \in Sessions
      PROVE  pc'[t] = IF t = s THEN stage ELSE pc[t]
    BY DEF TypeOK
<1> QED
    BY <1>1, <1>2, <1>3

LEMMA RefinesInit == Init => Atomic!Init
<1> SUFFICES ASSUME Init
             PROVE  Atomic!Init
    OBVIOUS
<1>1. TypeOK /\ NoOverselling
    BY InitIInv DEF IInv
<1>2. AtomicStatus = [s \in Sessions |-> "idle"]
    BY AtomicStatusIs, StatusOfStage DEF Init
<1> QED
    BY <1>1, <1>2
    DEF Atomic!Init, TypeOK, NoOverselling, Request, Atomic!Request, Ops, Atomic!Ops,
        Row, Atomic!Row, Sound, Atomic!Sound

LEMMA RefinesNext == IInv /\ [Next]_vars => [Atomic!Next]_(Atomic!vars)
<1> SUFFICES ASSUME IInv, [Next]_vars
             PROVE  [Atomic!Next]_(Atomic!vars)
    OBVIOUS
<1>t. TypeOK
    BY DEF IInv
<1>s. \A s \in Sessions : AtomicStatus[s] = StatusOf(pc[s])
    BY AtomicStatusIs
<1>0. CASE UNCHANGED vars
  <2>1. UNCHANGED AtomicStatus
      BY <1>0 DEF vars, AtomicStatus
  <2> QED BY <1>0, <2>1 DEF vars, Atomic!vars
<1>1. ASSUME NEW s \in Sessions, NEW r \in Request, Begin(s, r)
      PROVE  Atomic!Invoke(s)
  <2>1. AtomicStatus' = [AtomicStatus EXCEPT ![s] = "pending"]
      BY <1>1, <1>t, AtomicStatusMoves, StatusOfStage DEF Begin, Goto, Stage
  <2>2. AtomicStatus[s] \in {"idle", "true", "false"}
      BY <1>1, <1>s, StatusOfStage DEF Begin
  <2>3. r \in Atomic!Request
      BY DEF Request, Atomic!Request, Ops, Atomic!Ops
  <2> QED BY <1>1, <2>1, <2>2, <2>3 DEF Begin, Atomic!Invoke
\* Steps before the commit, and the refresh that raises after it.
<1>2. ASSUME NEW s \in Sessions, NEW stage \in Stage,
             pc' = [pc EXCEPT ![s] = stage], StatusOf(stage) = StatusOf(pc[s]),
             UNCHANGED <<listed, row, req>>
      PROVE  UNCHANGED Atomic!vars
  <2>1. AtomicStatus' = [AtomicStatus EXCEPT ![s] = StatusOf(pc[s])]
      BY <1>2, <1>t, AtomicStatusMoves
  <2>2. UNCHANGED AtomicStatus
      BY <2>1, <1>s, AtomicStatusIs
  <2> QED BY <1>2, <2>2 DEF Atomic!vars
<1>3. ASSUME NEW s \in Sessions, Select(s) \/ SelectFails(s) \/ CommitFails(s)
      PROVE  UNCHANGED Atomic!vars
  <2>1. /\ pc[s] \in {"select", "commit"} /\ UNCHANGED <<listed, row, req>>
        /\ \E stage \in {"locked", "abort"} : pc' = [pc EXCEPT ![s] = stage]
      BY <1>3 DEF Select, SelectFails, CommitFails, Goto
  <2> QED BY <1>2, <2>1, StatusOfStage DEF Stage
<1>4. ASSUME NEW s \in Sessions, Act(s)
      PROVE  UNCHANGED Atomic!vars
  <2>1. /\ pc[s] = "locked" /\ UNCHANGED <<listed, row, req>>
        /\ \E stage \in {"commit", "rollback"} : pc' = [pc EXCEPT ![s] = stage]
      BY <1>4 DEF Act, Goto
  <2> QED BY <1>2, <2>1, StatusOfStage DEF Stage
<1>5. ASSUME NEW s \in Sessions, Commit(s)
      PROVE  Atomic!Apply(s)
  <2> DEFINE p == req[s].product
  <2>1. /\ pc[s] = "commit" /\ row' = [row EXCEPT ![p] = img[s]]
        /\ UNCHANGED <<listed, req>>
        /\ \E stage \in {"refresh", "late"} : pc' = [pc EXCEPT ![s] = stage]
      BY <1>5 DEF Commit, Goto
  <2>2. AtomicStatus' = [AtomicStatus EXCEPT ![s] = "applied"]
    <3>1. PICK stage \in {"refresh", "late"} : pc' = [pc EXCEPT ![s] = stage]
        BY <2>1
    <3>2. stage \in Stage /\ StatusOf(stage) = "applied"
        BY StatusOfStage DEF Stage
    <3>3. AtomicStatus' = [AtomicStatus EXCEPT ![s] = StatusOf(stage)]
        BY <3>1, <3>2, <1>t, AtomicStatusMoves
    <3> QED BY <3>2, <3>3
  <2>3. AtomicStatus[s] = "pending"
      BY <2>1, <1>s, StatusOfStage
  <2>4. /\ held[p] = s /\ p \in Products
        /\ Permitted(req[s].op, row[p], req[s].qty)
        /\ img[s] = Effect(req[s].op, row[p], req[s].qty)
      BY <2>1, <1>t DEF IInv, NoLostUpdate, TypeOK, Request
  <2>5. p \in listed
      BY <2>4, NoSessionAssumption DEF IInv, LockDiscipline
  <2>6. row' = [row EXCEPT ![p] = Effect(req[s].op, @, req[s].qty)]
      BY <2>1, <2>4
  <2>7. /\ Atomic!Permitted(req[s].op, row[p], req[s].qty)
        /\ row' = [row EXCEPT ![p] = Atomic!Effect(req[s].op, @, req[s].qty)]
      BY <2>4, <2>6
      DEF Permitted, Atomic!Permitted, Effect, Atomic!Effect, Available, Atomic!Available
  <2> QED BY <2>1, <2>2, <2>3, <2>5, <2>7 DEF Atomic!Apply
<1>6. ASSUME NEW s \in Sessions, Refresh(s)
      PROVE  Atomic!AnswerTrue(s) \/ UNCHANGED Atomic!vars
  <2>1. pc[s] = "refresh" /\ UNCHANGED <<listed, row, req>>
      BY <1>6 DEF Refresh
  <2>2. CASE pc' = [pc EXCEPT ![s] = "late"]
      BY <1>2, <2>1, <2>2, StatusOfStage DEF Stage
  <2>3. CASE pc' = [pc EXCEPT ![s] = "true"]
    <3>1. AtomicStatus' = [AtomicStatus EXCEPT ![s] = "true"]
        BY <2>3, <1>t, AtomicStatusMoves, StatusOfStage DEF Stage
    <3>2. AtomicStatus[s] = "applied"
        BY <2>1, <1>s, StatusOfStage
    <3> QED BY <2>1, <3>1, <3>2 DEF Atomic!AnswerTrue
  <2> QED BY <1>6, <2>2, <2>3 DEF Refresh, Goto
<1>7. ASSUME NEW s \in Sessions, NotFound(s) \/ Rollback(s) \/ Abort(s)
      PROVE  Atomic!AnswerFalse(s)
  <2>1. /\ pc[s] \in {"select", "rollback", "abort", "late"}
        /\ pc' = [pc EXCEPT ![s] = "false"] /\ UNCHANGED <<listed, row, req>>
      BY <1>7 DEF NotFound, Rollback, Abort, Goto
  <2>2. AtomicStatus' = [AtomicStatus EXCEPT ![s] = "false"]
      BY <2>1, <1>t, AtomicStatusMoves, StatusOfStage DEF Stage
  <2>3. AtomicStatus[s] \in {"pending", "applied"}
      BY <2>1, <1>s, StatusOfStage
  <2> QED BY <2>1, <2>2, <2>3 DEF Atomic!AnswerFalse
<1>8. ASSUME NEW s \in Sessions, Crash(s)
      PROVE  Atomic!Lose(s)
  <2>1. AtomicStatus' = [AtomicStatus EXCEPT ![s] = "idle"]
      BY <1>8, <1>t, AtomicStatusMoves, StatusOfStage DEF Crash, Goto, Stage
  <2> QED BY <1>8, <2>1 DEF Crash, Atomic!Lose
<1>9. ASSUME NEW p \in Products, NEW n \in Stocks, InsertProduct(p, n)
      PROVE  Atomic!List(p)
  <2>1. UNCHANGED AtomicStatus
      BY <1>9 DEF InsertProduct, AtomicStatus
  <2> QED BY <1>9, <2>1 DEF InsertProduct, Atomic!List
<1> QED
    BY <1>0, <1>1, <1>3, <1>4, <1>5, <1>6, <1>7, <1>8, <1>9
    DEF Next, Step, Atomic!Next

\* The inventory is one whose calls are atomic: a call takes effect at its
\* commit, at most once, and True means that it did (product_service.py:236-292).
THEOREM Refinement == Spec => ImplementsAtomicInventory
<1>1. Spec => []IInv
    BY InductiveInvariant
<1> QED
    BY <1>1, RefinesInit, RefinesNext, PTL DEF Spec, ImplementsAtomicInventory, Atomic!Spec
=============================================================================
