----------------------------- MODULE Ledger_proofs -----------------------------
(***************************************************************************)
(* Proofs about the quantities Rental promises: the advisory locks of      *)
(* LockResources keep every check of CheckWithQuerier true until the grant *)
(* it allowed commits, so that no resource is overbooked, and the          *)
(* interleaved transactions implement BookingLedger.                       *)
(*                                                                         *)
(* These theorems assume OneKeyEach, that each request spells identifiers  *)
(* as the database does.  Without it they are false: MCSpelling.cfg has    *)
(* TLC overbook a resource that two requests spell differently.            *)
(*                                                                         *)
(* What is granted in the meantime does not matter to the last two         *)
(* sections, which need no such assumption: nobody waits in a circle, and  *)
(* what was agreed stands.                                                 *)
(***************************************************************************)
EXTENDS Rental_proofs, SumTheorems

-----------------------------------------------------------------------------
(* Keys *)

\* The part of KeysHeld that is about one transaction.
Guarded(t) ==
  tx[t].op \in Granting =>
    /\ tx[t].pc # "lock" => tx[t].keys = {}
    /\ \A k \in Wanted(tx[t].order) : KeyOf[k] \in tx[t].keys \/ holder[KeyOf[k]] = t

\* The lock of every resource can be held.
LEMMA KeysLockable == \A k \in Resource : KeyOf[k] \in Lockable
BY ConstantsAssumption DEF Lockable

\* BeginCreate, BeginConvert and BeginReschedule have the key of every wanted
\* resource still to lock, and every item still to check.
LEMMA BeginsUnlocked ==
  ASSUME OneKeyEach, TypeOK, NEW t \in Txn, Begins(t), tx'[t].op \in Granting
  PROVE  /\ tx'[t].pc = "lock"
         /\ tx'[t].keys = {KeyOf[k] : k \in Wanted(tx'[t].order)}
         /\ tx'[t].todo = Wanted(tx'[t].order)
<1>1. ASSUME NEW op, NEW r, NEW w, NEW order, NEW q,
             Start(t, Grant(op, r, w, order, KeyOf))
             \/ Start(t, [Grant(op, r, w, order, KeyOf) EXCEPT !.quote = q])
      PROVE  /\ tx'[t].pc = "lock"
             /\ tx'[t].keys = {KeyOf[k] : k \in Wanted(tx'[t].order)}
             /\ tx'[t].todo = Wanted(tx'[t].order)
  <2>1. \/ tx'[t] = Grant(op, r, w, order, KeyOf)
        \/ tx'[t] = [Grant(op, r, w, order, KeyOf) EXCEPT !.quote = q]
    BY <1>1 DEF Start, TypeOK
  <2> QED BY <2>1 DEF Grant, Idle
<1>2. ASSUME NEW r \in Reservation, NEW w \in Window, NEW order \in Order,
             NEW spell \in Spelling, BeginCreate(t, r, w, order, spell)
      PROVE  Start(t, Grant("create", r, w, order, KeyOf))
  BY <1>2 DEF BeginCreate, OneKeyEach
<1>3. ASSUME NEW a \in Asset, NEW p \in Patch, BeginUpdateAsset(t, a, p) PROVE FALSE
  <2>1. tx'[t].op = "patch"
    BY <1>3 DEF BeginUpdateAsset, Start, TypeOK, Idle
  <2> QED BY <2>1 DEF Granting
<1>4. ASSUME NEW r \in Reservation, NEW a \in Asset, BeginAssign(t, r, a) PROVE FALSE
  <2>1. tx'[t].op = "assign"
    BY <1>4 DEF BeginAssign, Start, TypeOK, Idle
  <2> QED BY <2>1 DEF Granting
<1> QED
  BY <1>1, <1>2, <1>3, <1>4 DEF Begins, BeginConvert, Convert, BeginReschedule

\* LockResource moves a key from those to be locked to those held.
LEMMA LockResourceMoves ==
  ASSUME TypeOK, NEW t \in Txn, LockResource(t)
  PROVE  \E x : /\ Free(x) /\ Acquire(t, x)
                /\ tx'[t].keys = tx[t].keys \ {x}
                /\ tx'[t].pc = IF tx[t].keys = {x} THEN "check" ELSE "lock"
                /\ tx'[t].todo = tx[t].todo
                /\ UNCHANGED tables
<1>1. tx[t] \in Transaction
  BY DEF TypeOK
<1> QED BY <1>1 DEF LockResource, LockNext, TypeOK, Transaction

\* What CheckResource, CheckUnits and LockUnit leave to the next statement.
LEMMA ChecksMove ==
  ASSUME TypeOK, NEW t \in Txn, Continues(t), ~LockResource(t), ~Rollback(t)
  PROVE  /\ tx'[t].keys = tx[t].keys
         /\ \/ CheckUnits(t) /\ tx'[t].todo = tx[t].todo
            \/ LockUnit(t) /\ tx'[t].todo = tx[t].todo
            \/ /\ tx[t].pc = "check"
               /\ \E k \in tx[t].todo :
                    /\ CanFulfill(k, tx[t].win, tx[t].order[k], tx[t].res)
                    /\ tx'[t].pc = IF tx[t].todo # {k} THEN "check"
                                   ELSE IF tx[t].op = "reschedule" THEN "exact"
                                   ELSE "commit"
                    /\ tx'[t].todo = tx[t].todo \ {k}
<1>1. tx[t] \in Transaction
  BY DEF TypeOK
<1>2. CASE CheckResource(t)
  BY <1>1, <1>2 DEF CheckResource, TypeOK, Transaction
<1>3. CASE CheckUnits(t)
  BY <1>1, <1>3 DEF CheckUnits, TypeOK, Transaction
<1>4. CASE LockUnit(t)
  BY <1>1, <1>4 DEF LockUnit, TypeOK, Transaction
<1> QED BY <1>2, <1>3, <1>4 DEF Continues

\* No lock that protects a check is given up before the grant commits.
LEMMA KeysStep ==
  ASSUME OneKeyEach, TypeOK, Shapes, KeysHeld, [Next]_vars
  PROVE  KeysHeld'
<1> SUFFICES ASSUME NEW u \in Txn PROVE Guarded(u)'
  BY DEF KeysHeld, Guarded
<1>1. Guarded(u) /\ tx[u] \in Transaction /\ Shape(tx[u])
  BY DEF KeysHeld, Guarded, TypeOK, Shapes
<1>2. ASSUME NEW t \in Txn \ {u}, Untouched(t) PROVE Guarded(u)'
  BY <1>1, <1>2, KeysLockable DEF Untouched, Guarded, Wanted
<1>3. ASSUME Begins(u) PROVE Guarded(u)'
  BY <1>3, BeginsUnlocked DEF Guarded
<1>4. ASSUME tx'[u] = Idle PROVE Guarded(u)'
  BY <1>4, FieldsOfIdle DEF Guarded, Granting
<1>5. ASSUME Continues(u), ~Rollback(u) PROVE Guarded(u)'
  <2>1. GoesOn(u)
    BY <1>5, ContinuesWell
  <2>2. ASSUME NEW k \in Resource, holder[KeyOf[k]] = u PROVE holder'[KeyOf[k]] = u
    BY <2>1, <2>2, KeysLockable DEF GoesOn
  <2>3. CASE LockResource(u)
    <3>1. PICK x : /\ Free(x) /\ Acquire(u, x)
                   /\ tx'[u].keys = tx[u].keys \ {x}
                   /\ tx'[u].pc = IF tx[u].keys = {x} THEN "check" ELSE "lock"
      BY <2>3, LockResourceMoves
    <3>2. x \in Lockable => holder'[x] = u
      BY <3>1, AcquireLeaves
    <3> QED
      BY <1>1, <2>1, <2>2, <3>1, <3>2, KeysLockable DEF GoesOn, Guarded, Wanted
  <2>4. CASE ~LockResource(u)
    <3>1. tx'[u].keys = tx[u].keys
      BY <1>5, <2>4, ChecksMove
    <3>2. tx[u].op \in Granting => tx[u].pc # "lock"
      BY <1>5, <2>4, ChecksMove DEF CheckUnits, LockUnit
    <3> QED
      BY <1>1, <2>1, <2>2, <3>1, <3>2 DEF GoesOn, Guarded, Wanted
  <2> QED BY <2>3, <2>4
<1>6. ASSUME NEW t \in Txn, Begins(t) \/ Continues(t) \/ Commits(t) \/ Abort(t)
      PROVE  Guarded(u)'
  <2>1. Untouched(t)
    BY <1>6, BeginsLeaves, ContinuesLeaves, RollbackLeaves, CommitsLeaves DEF GoesOn
  <2>2. CASE t = u
    BY <1>6, <2>2, <1>3, <1>4, <1>5, RollbackLeaves, CommitsLeaves
  <2> QED BY <2>1, <2>2, <1>2
<1>7. ASSUME UNCHANGED <<tx, holder>> PROVE Guarded(u)'
  BY <1>1, <1>7 DEF Guarded
<1> QED
  BY <1>6, <1>7, Steps, OneStepLeaves, CreateAssetLeaves DEF vars

-----------------------------------------------------------------------------
(* Rows *)

\* The part of GrantsStand that is about one transaction.
Stands(t) ==
  /\ tx[t].op = "create" => tx[t].order \in Order
  /\ tx[t].op = "convert" => /\ tx[t].win = QuoteWindow[tx[t].quote]
                             /\ tx[t].order = QuoteOrder[tx[t].quote]
  /\ tx[t].op = "reschedule" => /\ status[tx[t].res] \in Reschedulable
                                /\ tx[t].order = lines[tx[t].res]

\* A grant begins with an order and a window it is entitled to.
LEMMA BeginsStands ==
  ASSUME TypeOK, NEW t \in Txn, Begins(t) PROVE Stands(t)'
<1>1. ASSUME NEW r \in Reservation, NEW w \in Window, NEW order \in Order,
             NEW spell \in Spelling, BeginCreate(t, r, w, order, spell)
      PROVE  Stands(t)'
  <2>1. tx'[t].op = "create" /\ tx'[t].order = order
    BY <1>1, GrantFields DEF BeginCreate, Start, TypeOK
  <2> QED BY <2>1 DEF Stands
<1>2. ASSUME NEW q \in Quote, NEW r \in Reservation, BeginConvert(t, q, r)
      PROVE  Stands(t)'
  <2>1. tx'[t] = Convert(q, r)
    BY <1>2 DEF BeginConvert, Start, TypeOK
  <2>2. /\ tx'[t].op = "convert" /\ tx'[t].win = QuoteWindow[q]
        /\ tx'[t].order = QuoteOrder[q] /\ tx'[t].quote = q
    BY <2>1 DEF Convert, Grant, Idle
  <2> QED BY <2>2 DEF Stands
<1>3. ASSUME NEW r \in Reservation, NEW w \in Window, BeginReschedule(t, r, w)
      PROVE  Stands(t)'
  <2>1. /\ tx'[t].op = "reschedule" /\ tx'[t].order = lines[r] /\ tx'[t].res = r
        /\ status' = status /\ lines' = lines /\ status[r] \in Reschedulable
    BY <1>3, GrantFields DEF BeginReschedule, Start, TypeOK, tables
  <2> QED BY <2>1 DEF Stands
<1>4. ASSUME NEW r \in Reservation, NEW a \in Asset, BeginAssign(t, r, a)
      PROVE  Stands(t)'
  <2>1. tx'[t].op = "assign"
    BY <1>4 DEF BeginAssign, Start, TypeOK, Idle
  <2> QED BY <2>1 DEF Stands
<1>5. ASSUME NEW a \in Asset, NEW p \in Patch, BeginUpdateAsset(t, a, p)
      PROVE  Stands(t)'
  <2>1. tx'[t].op = "patch"
    BY <1>5 DEF BeginUpdateAsset, Start, TypeOK, Idle
  <2> QED BY <2>1 DEF Stands
<1> QED BY <1>1, <1>2, <1>3, <1>4, <1>5 DEF Begins

\* The rows a transaction is about to write are its own: the reservation it
\* moves is locked, the one it inserts does not exist.
LEMMA CommitsApart ==
  ASSUME TypeOK, Shapes, LocksHeld, InsertsFresh, GrantsStand,
         NEW t \in Txn, Commits(t), NEW u \in Txn \ {t}, tx[u].op = "reschedule"
  PROVE  status'[tx[u].res] = status[tx[u].res] /\ lines'[tx[u].res] = lines[tx[u].res]
<1>1. tx[u].res \in Reservation /\ status[tx[u].res] \in Reschedulable
  BY DEF Shapes, Shape, Granting, GrantsStand
<1>2. CASE CommitInsert(t)
  <2>1. status[tx[t].res] = "NONE"
    BY <1>2 DEF CommitInsert, InsertsFresh
  <2>2. tx[t].res # tx[u].res
    BY <1>1, <2>1 DEF Reschedulable
  <2> QED BY <1>1, <1>2, <2>2 DEF CommitInsert, TypeOK
<1>3. CASE ~CommitInsert(t)
  BY <1>3 DEF Commits, CommitReschedule, CommitAssign, CommitUpdateAsset
<1> QED BY <1>2, <1>3

\* A reservation being moved stays where it is in its lifecycle, with its
\* items, until the move commits: its row is locked.
LEMMA GrantsStep ==
  ASSUME TypeOK, Shapes, LocksHeld, InsertsFresh, GrantsStand, [Next]_vars
  PROVE  GrantsStand'
<1> SUFFICES ASSUME NEW u \in Txn PROVE Stands(u)'
  BY DEF GrantsStand, Stands
<1>1. Stands(u)
  BY DEF GrantsStand, Stands
<1>2. ASSUME tx'[u] = Idle PROVE Stands(u)'
  BY <1>2, FieldsOfIdle DEF Stands
<1>3. ASSUME UNCHANGED <<status, lines>>, tx'[u] = tx[u] PROVE Stands(u)'
  BY <1>1, <1>3 DEF Stands
<1>4. ASSUME GoesOn(u) PROVE Stands(u)'
  BY <1>1, <1>4 DEF GoesOn, tables, Stands
<1>5. ASSUME NEW t \in Txn \ {u}, Commits(t) PROVE Stands(u)'
  <2>1. tx'[u] = tx[u]
    BY <1>5, CommitsLeaves DEF Untouched
  <2> QED BY <1>1, <1>5, <2>1, CommitsApart DEF Stands
<1>6. ASSUME NEW t \in Txn, Begins(t) \/ Continues(t) \/ Commits(t) \/ Abort(t)
      PROVE  Stands(u)'
  <2>1. Untouched(t)
    BY <1>6, BeginsLeaves, ContinuesLeaves, RollbackLeaves, CommitsLeaves DEF GoesOn
  <2>2. CASE t = u
    BY <1>6, <2>2, <1>2, <1>4, BeginsStands, ContinuesLeaves, RollbackLeaves, CommitsLeaves
  <2>3. CASE t # u /\ ~Commits(t)
    <3>1. UNCHANGED tables
      BY <1>6, <2>3, BeginsTables, ContinuesLeaves DEF GoesOn, Rollback, Abort
    <3> QED BY <2>1, <2>3, <3>1, <1>3 DEF Untouched, tables
  <2> QED BY <1>5, <1>6, <2>2, <2>3
<1>7. ASSUME NEW r \in Reservation, OneStep(r) PROVE Stands(u)'
  <2>1. UNCHANGED <<tx, lines>> /\ Free(r)
    BY <1>7, OneStepLeaves
  <2>2. tx[u].op = "reschedule" => tx[u].res # r /\ tx[u].res \in Reservation
    BY <2>1, ConstantsAssumption DEF LocksHeld, HoldsLocks, Free, Shapes, Shape, Granting
  <2>3. tx[u].op = "reschedule" => status'[tx[u].res] = status[tx[u].res]
    BY <1>7, <2>2, OneStepReleases
  <2> QED BY <1>1, <2>1, <2>3 DEF Stands
<1>8. CASE UNCHANGED vars
  BY <1>3, <1>8 DEF vars, tables
<1> QED
  BY <1>3, <1>6, <1>7, <1>8, Steps, CreateAssetLeaves

\* What a commit writes into the rows of reservations.
LEMMA CommitsRows ==
  ASSUME TypeOK, Shapes, GrantsStand, NEW t \in Txn, Commits(t)
  PROVE  \/ UNCHANGED <<status, window, lines>>
         \/ /\ tx[t].op \in Granting /\ tx[t].pc = "commit"
            /\ tx[t].res \in Reservation /\ tx[t].win \in Window
            /\ tx[t].order \in [Resource -> Nat]
            /\ window'[tx[t].res] = tx[t].win /\ lines'[tx[t].res] = tx[t].order
            /\ status'[tx[t].res] \in Blocking
            /\ \A s \in Reservation \ {tx[t].res} :
                 status'[s] = status[s] /\ window'[s] = window[s] /\ lines'[s] = lines[s]
<1>1. CASE CommitInsert(t)
  <2>1. /\ tx[t].op \in Granting /\ tx[t].res \in Reservation
        /\ tx[t].win \in Window /\ tx[t].order \in [Resource -> Nat]
    BY <1>1 DEF CommitInsert, Shapes, Shape, Granting
  <2> QED BY <1>1, <2>1 DEF CommitInsert, TypeOK, Blocking
<1>2. CASE CommitReschedule(t)
  <2>1. /\ tx[t].op \in Granting /\ tx[t].res \in Reservation
        /\ tx[t].win \in Window /\ tx[t].order \in [Resource -> Nat]
    BY <1>2 DEF CommitReschedule, Shapes, Shape, Granting
  <2>2. lines[tx[t].res] = tx[t].order /\ status[tx[t].res] \in Blocking
    BY <1>2 DEF CommitReschedule, GrantsStand, Reschedulable, Blocking
  <2> QED BY <1>2, <2>1, <2>2 DEF CommitReschedule, TypeOK
<1>3. CASE CommitAssign(t) \/ CommitUpdateAsset(t)
  BY <1>3 DEF CommitAssign, CommitUpdateAsset
<1> QED BY <1>1, <1>2, <1>3 DEF Commits

\* Steps that write no row of a reservation but a status that blocks no more.
LEMMA OthersRows ==
  ASSUME TypeOK, [Next]_vars
  PROVE  \/ \E t \in Txn : Commits(t)
         \/ /\ UNCHANGED <<window, lines>>
            /\ \A s \in Reservation : /\ status'[s] \in Blocking => status[s] \in Blocking
                                      /\ status'[s] # "NONE" => status[s] # "NONE"
<1>1. ASSUME NEW t \in Txn, Begins(t) \/ Continues(t) \/ Abort(t) PROVE UNCHANGED tables
  BY <1>1, BeginsTables, ContinuesLeaves DEF GoesOn, Rollback, Abort
<1>2. ASSUME NEW r \in Reservation, OneStep(r)
      PROVE  /\ UNCHANGED <<window, lines>>
             /\ \A s \in Reservation : /\ status'[s] \in Blocking => status[s] \in Blocking
                                       /\ status'[s] # "NONE" => status[s] # "NONE"
  <2>1. UNCHANGED <<window, lines>> /\ status[r] # "NONE"
    BY <1>2, OneStepLeaves
  <2>2. \A s \in Reservation : s # r => status'[s] = status[s]
    BY <1>2, OneStepReleases
  <2>3. \A s \in Reservation : status'[s] \in Blocking => status[s] \in Blocking
    BY <1>2, OneStepReleases
  <2> QED BY <2>1, <2>2, <2>3
<1> QED BY <1>1, <1>2, Steps, CreateAssetLeaves DEF vars, tables

\* A reservation always has its window.
LEMMA RowsStep ==
  ASSUME TypeOK, Shapes, GrantsStand, RowsFull, [Next]_vars PROVE RowsFull'
<1>1. ASSUME NEW t \in Txn, Commits(t) PROVE RowsFull'
  BY <1>1, CommitsRows DEF RowsFull
<1> QED BY <1>1, OthersRows DEF RowsFull

-----------------------------------------------------------------------------
(* Fleet *)

\* No row of assets is ever deleted.
LEMMA FleetKept ==
  ASSUME TypeOK, Shapes, [Next]_vars, NEW a \in Asset, physical[a] # "NONE"
  PROVE  physical'[a] # "NONE"
<1>1. ASSUME NEW t \in Txn, Begins(t) \/ Continues(t) \/ Abort(t) PROVE UNCHANGED tables
  BY <1>1, BeginsTables, ContinuesLeaves DEF GoesOn, Rollback, Abort
<1>2. ASSUME NEW t \in Txn, Commits(t) PROVE physical'[a] # "NONE"
  <2>1. CASE CommitUpdateAsset(t)
    <3>1. tx[t].asset \in Asset /\ tx[t].value \in PhysicalStatus
      BY <2>1 DEF CommitUpdateAsset, Shapes, Shape
    <3> QED BY <2>1, <3>1 DEF CommitUpdateAsset, TypeOK, PhysicalStatus
  <2>2. CASE ~CommitUpdateAsset(t)
    BY <1>2, <2>2 DEF Commits, CommitInsert, CommitReschedule, CommitAssign
  <2> QED BY <2>1, <2>2
<1>3. ASSUME NEW r \in Reservation, OneStep(r) PROVE physical'[a] # "NONE"
  <2>1. CASE \E inspection \in [Held(r) -> Condition] : ReturnWithInspection(r, inspection)
    BY <2>1 DEF ReturnWithInspection, PhysicalStatusForReturn
  <2>2. CASE ~ \E inspection \in [Held(r) -> Condition] : ReturnWithInspection(r, inspection)
    BY <1>3, <2>2 DEF OneStep, Confirm, Prepare, Transition, MarkReadyWithInventory,
       CheckOutWithAssets, CompleteAfterReturn, CancelAndRelease, UnassignAsset
  <2> QED BY <2>1, <2>2
<1>4. ASSUME NEW b \in Asset, NEW s \in NewUnit, CreateAsset(b, s)
      PROVE  physical'[a] # "NONE"
  BY <1>4 DEF CreateAsset, TypeOK
<1>5. UNCHANGED tables => physical'[a] # "NONE"
  BY DEF tables
<1> QED BY <1>1, <1>2, <1>3, <1>4, <1>5, Steps DEF vars

\* Units that exist, and those among them that are AVAILABLE, can be counted.
LEMMA FleetCounts ==
  ASSUME TypeOK, NEW k
  PROVE  FleetSize(k) \in Nat /\ Eligible(k) \in Nat /\ Eligible(k) <= FleetSize(k)
<1> DEFINE Have == {a \in Asset : ResourceOf[a] = k /\ physical[a] # "NONE"}
           Fit == {a \in Asset : ResourceOf[a] = k /\ physical[a] = "AVAILABLE"}
<1>1. IsFiniteSet(Have)
  BY FiniteAssumption, FS_Subset, Have \subseteq Asset
<1>2. Fit \subseteq Have
  OBVIOUS
<1>3. IsFiniteSet(Fit) /\ Cardinality(Fit) <= Cardinality(Have)
  BY <1>1, <1>2, FS_Subset
<1>4. Cardinality(Have) \in Nat /\ Cardinality(Fit) \in Nat
  BY <1>1, <1>3, FS_CardinalityType
<1> QED BY <1>3, <1>4 DEF FleetSize, Eligible

\* The fleet never shrinks.
LEMMA FleetGrows ==
  ASSUME TypeOK, Shapes, [Next]_vars, TypeOK', NEW k
  PROVE  FleetSize(k) <= FleetSize(k)' /\ FleetSize(k)' \in Nat
<1>1. PICK now : now = {a \in Asset : ResourceOf[a] = k /\ physical'[a] # "NONE"}
  OBVIOUS
<1>2. PICK before : before = {a \in Asset : ResourceOf[a] = k /\ physical[a] # "NONE"}
  OBVIOUS
<1>3. before \subseteq now
  BY <1>1, <1>2, FleetKept
<1>4. IsFiniteSet(now)
  BY <1>1, FiniteAssumption, FS_Subset, now \subseteq Asset
<1>5. Cardinality(before) <= Cardinality(now) /\ Cardinality(now) \in Nat
  BY <1>3, <1>4, FS_Subset, FS_CardinalityType
<1> QED BY <1>1, <1>2, <1>5 DEF FleetSize

-----------------------------------------------------------------------------
(* Quantities *)

\* The rows that block during w, and those that block at an instant.
BlockingRows(w, self) ==
  {r \in Reservation \ {self} : status[r] \in Blocking /\ Overlaps(window[r], w)}
RowsAt(instant) ==
  {r \in Reservation : /\ status[r] \in Blocking
                       /\ window[r].start <= instant /\ instant < window[r].end}
\* What each reservation asks for of a resource.
LinesOf(k) == [r \in Reservation |-> lines[r][k]]

\* Reserved and Demand add quantities of finitely many rows.
LEMMA RowsCounted ==
  ASSUME TypeOK, NEW k \in Resource
  PROVE  /\ \A S \in SUBSET Reservation : IsFiniteSet(S) /\ \A r \in S : LinesOf(k)[r] \in Nat
         /\ \A w, self : /\ Reserved(k, w, self) = SumOver(LinesOf(k), BlockingRows(w, self))
                         /\ Reserved(k, w, self) \in Nat
         /\ \A i : /\ Demand(k, i) = SumOver(LinesOf(k), RowsAt(i))
                   /\ Demand(k, i) \in Nat
<1>1. \A S \in SUBSET Reservation : IsFiniteSet(S) /\ \A r \in S : LinesOf(k)[r] \in Nat
  BY FiniteAssumption, FS_Subset DEF TypeOK, LinesOf
<1>2. \A S \in SUBSET Reservation : SumOver(LinesOf(k), S) \in Nat
  BY <1>1, SumType
<1>3. ASSUME NEW w, NEW self
      PROVE  /\ Reserved(k, w, self) = SumOver(LinesOf(k), BlockingRows(w, self))
             /\ Reserved(k, w, self) \in Nat
  <2>1. Reserved(k, w, self) = SumOver(LinesOf(k), BlockingRows(w, self))
    BY DEF Reserved, LinesOf, BlockingRows
  <2>2. BlockingRows(w, self) \subseteq Reservation
    BY DEF BlockingRows
  <2> QED BY <1>2, <2>1, <2>2
<1>4. ASSUME NEW i
      PROVE  Demand(k, i) = SumOver(LinesOf(k), RowsAt(i)) /\ Demand(k, i) \in Nat
  <2>1. Demand(k, i) = SumOver(LinesOf(k), RowsAt(i))
    BY DEF Demand, LinesOf, RowsAt
  <2>2. RowsAt(i) \subseteq Reservation
    BY DEF RowsAt
  <2> QED BY <1>2, <2>1, <2>2
<1> QED BY <1>1, <1>3, <1>4

\* A row that blocks after a step blocked before, as long and as much, or it
\* counts for nothing.
Calm(r, k) ==
  \/ lines'[r][k] = 0
  \/ /\ lines'[r][k] = lines[r][k] /\ window'[r] = window[r]
     /\ status'[r] \in Blocking => status[r] \in Blocking

\* If no other row is disturbed, what self can be granted is not reduced.
LEMMA ReservedFalls ==
  ASSUME TypeOK, TypeOK', NEW k \in Resource, NEW w, NEW self,
         \A r \in Reservation \ {self} : Calm(r, k)
  PROVE  Reserved(k, w, self)' <= Reserved(k, w, self) /\ Reserved(k, w, self)' \in Nat
<1>1. PICK f : f = LinesOf(k)'
  OBVIOUS
<1>2. PICK R : R = BlockingRows(w, self)'
  OBVIOUS
<1>3. R \subseteq Reservation /\ BlockingRows(w, self) \subseteq Reservation
  BY <1>2 DEF BlockingRows
<1>4. Reserved(k, w, self)' = SumOver(f, R)
  BY <1>1, <1>2 DEF Reserved, LinesOf, BlockingRows
<1>5. Reserved(k, w, self) = SumOver(LinesOf(k), BlockingRows(w, self))
  BY RowsCounted
<1>6. \A r \in R : f[r] \in Nat
  BY <1>1, <1>3 DEF TypeOK, LinesOf
<1>7. ASSUME NEW r \in R
      PROVE  f[r] = 0 \/ (r \in BlockingRows(w, self) /\ f[r] <= LinesOf(k)[r])
  <2>1. r \in Reservation \ {self} /\ status'[r] \in Blocking /\ Overlaps(window'[r], w)
    BY <1>2 DEF BlockingRows, Overlaps
  <2>2. f[r] = lines'[r][k] /\ LinesOf(k)[r] = lines[r][k] /\ lines[r][k] \in Nat
    BY <1>1, <2>1 DEF LinesOf, TypeOK
  <2> QED BY <2>1, <2>2 DEF Calm, BlockingRows
<1>8. IsFiniteSet(R) /\ IsFiniteSet(BlockingRows(w, self))
      /\ \A r \in BlockingRows(w, self) : LinesOf(k)[r] \in Nat
  BY <1>3, RowsCounted, FiniteAssumption, FS_Subset
<1>9. SumOver(f, R) \in Nat
  BY <1>6, <1>8, SumType
<1> QED BY <1>4, <1>5, <1>6, <1>7, <1>8, <1>9, SumDominated

\* The same at an instant, where self does not count.
LEMMA DemandFalls ==
  ASSUME TypeOK, TypeOK', NEW k \in Resource, NEW i,
         \A r \in RowsAt(i)' : Calm(r, k)
  PROVE  Demand(k, i)' <= Demand(k, i) /\ Demand(k, i)' \in Nat
<1>1. PICK f : f = LinesOf(k)'
  OBVIOUS
<1>2. PICK R : R = RowsAt(i)'
  OBVIOUS
<1>3. R \subseteq Reservation /\ RowsAt(i) \subseteq Reservation
  BY <1>2 DEF RowsAt
<1>4. Demand(k, i)' = SumOver(f, R)
  BY <1>1, <1>2 DEF Demand, LinesOf, RowsAt
<1>5. Demand(k, i) = SumOver(LinesOf(k), RowsAt(i))
  BY RowsCounted
<1>6. \A r \in R : f[r] \in Nat
  BY <1>1, <1>3 DEF TypeOK, LinesOf
<1>7. ASSUME NEW r \in R
      PROVE  f[r] = 0 \/ (r \in RowsAt(i) /\ f[r] <= LinesOf(k)[r])
  <2>1. /\ r \in Reservation /\ status'[r] \in Blocking /\ Calm(r, k)
        /\ window'[r].start <= i /\ i < window'[r].end
    BY <1>2 DEF RowsAt
  <2>2. f[r] = lines'[r][k] /\ LinesOf(k)[r] = lines[r][k] /\ lines[r][k] \in Nat
    BY <1>1, <2>1 DEF LinesOf, TypeOK
  <2> QED BY <2>1, <2>2 DEF Calm, RowsAt
<1>8. IsFiniteSet(R) /\ IsFiniteSet(RowsAt(i)) /\ \A r \in RowsAt(i) : LinesOf(k)[r] \in Nat
  BY <1>3, RowsCounted, FiniteAssumption, FS_Subset
<1>9. SumOver(f, R) \in Nat
  BY <1>6, <1>8, SumType
<1> QED BY <1>4, <1>5, <1>6, <1>7, <1>8, <1>9, SumDominated

\* Where the row that is written counts, demand is its quantity and at most
\* what CheckWithQuerier added up for its window.
LEMMA DemandOfWritten ==
  ASSUME TypeOK, TypeOK', RowsFull, NEW k \in Resource, NEW v \in Window, NEW i \in Nat,
         NEW r \in Reservation, v.start <= i, i < v.end, window'[r] = v,
         \A s \in Reservation \ {r} : Calm(s, k) /\ window'[s] = window[s]
                                      /\ (status'[s] \in Blocking => status[s] \in Blocking)
  PROVE  /\ Demand(k, i)' <= Reserved(k, v, r) + lines'[r][k]
         /\ Demand(k, i)' \in Nat
<1>1. PICK f : f = LinesOf(k)'
  OBVIOUS
<1>2. PICK R : R = RowsAt(i)'
  OBVIOUS
<1>3. R \subseteq Reservation /\ BlockingRows(v, r) \subseteq Reservation
  BY <1>2 DEF RowsAt, BlockingRows
<1>4. Demand(k, i)' = SumOver(f, R)
  BY <1>1, <1>2 DEF Demand, LinesOf, RowsAt
<1>5. Reserved(k, v, r) = SumOver(LinesOf(k), BlockingRows(v, r))
  BY RowsCounted
<1>6. \A s \in Reservation : f[s] \in Nat /\ f[s] = lines'[s][k]
  BY <1>1 DEF TypeOK, LinesOf
<1>7. ASSUME NEW s \in R \ {r}
      PROVE  f[s] = 0 \/ (s \in BlockingRows(v, r) /\ f[s] <= LinesOf(k)[s])
  <2>1. /\ s \in Reservation \ {r} /\ status[s] \in Blocking /\ Calm(s, k)
        /\ window[s].start <= i /\ i < window[s].end
    BY <1>2 DEF RowsAt
  <2>2. window[s] \in Window
    BY <2>1 DEF RowsFull, Blocking
  <2>3. /\ window[s].start \in Nat /\ window[s].end \in Nat
        /\ v.start \in Nat /\ v.end \in Nat
    BY <2>2, ConstantsAssumption
  <2>4. Overlaps(window[s], v)
    BY <2>1, <2>3 DEF Overlaps
  <2>5. f[s] = lines'[s][k] /\ LinesOf(k)[s] = lines[s][k] /\ lines[s][k] \in Nat
    BY <1>1, <2>1 DEF LinesOf, TypeOK
  <2> QED BY <2>1, <2>4, <2>5 DEF Calm, BlockingRows
<1>8. /\ IsFiniteSet(R) /\ IsFiniteSet(R \ {r}) /\ IsFiniteSet(BlockingRows(v, r))
      /\ \A s \in BlockingRows(v, r) : LinesOf(k)[s] \in Nat
  BY <1>3, RowsCounted, FiniteAssumption, FS_Subset
<1>9. SumOver(f, R \ {r}) <= SumOver(LinesOf(k), BlockingRows(v, r))
  BY <1>3, <1>6, <1>7, <1>8, SumDominated
<1>10. /\ SumOver(f, R \ {r}) \in Nat
       /\ SumOver(LinesOf(k), BlockingRows(v, r)) \in Nat
  BY <1>3, <1>6, <1>8, SumType
<1>11. CASE r \in R
  <2>1. SumOver(f, R) = f[r] + SumOver(f, R \ {r})
    BY <1>3, <1>6, <1>8, <1>11, SumRemove
  <2>2. f[r] \in Nat /\ f[r] = lines'[r][k]
    BY <1>6
  <2> QED BY <1>4, <1>5, <1>9, <1>10, <2>1, <2>2
<1>12. CASE r \notin R
  <2>1. R \ {r} = R
    BY <1>12
  <2>2. lines'[r][k] \in Nat
    BY <1>6
  <2> QED BY <1>4, <1>5, <1>9, <1>10, <2>1, <2>2
<1> QED BY <1>11, <1>12

-----------------------------------------------------------------------------
(* The lock of a resource is the right to change what is granted of it *)

\* A commit leaves alone every resource whose lock another connection holds.
LEMMA CommitsCalm ==
  ASSUME TypeOK, Shapes, GrantsStand, KeysHeld, NEW t \in Txn, Commits(t),
         NEW k \in Resource, holder[KeyOf[k]] \in Txn \ {t}
  PROVE  \A r \in Reservation : Calm(r, k)
<1> SUFFICES ASSUME NEW r \in Reservation PROVE Calm(r, k)
  OBVIOUS
<1>1. CASE UNCHANGED <<status, window, lines>>
  BY <1>1 DEF Calm
<1>2. CASE ~ UNCHANGED <<status, window, lines>>
  <2>1. /\ tx[t].op \in Granting /\ tx[t].pc = "commit"
        /\ tx[t].order \in [Resource -> Nat] /\ lines'[tx[t].res] = tx[t].order
        /\ \A s \in Reservation \ {tx[t].res} :
             status'[s] = status[s] /\ window'[s] = window[s] /\ lines'[s] = lines[s]
    BY <1>2, CommitsRows
  <2>2. k \notin Wanted(tx[t].order)
    BY <2>1 DEF KeysHeld
  <2>3. tx[t].order[k] = 0
    BY <2>1, <2>2 DEF Wanted
  <2> QED BY <2>1, <2>3 DEF Calm
<1> QED BY <1>1, <1>2

\* The part of ChecksStand that is about one transaction.
Checked(t) ==
  tx[t].op \in Granting =>
    /\ tx[t].pc = "lock" => tx[t].todo = Wanted(tx[t].order)
    /\ tx[t].pc \in {"exact", "commit"} => tx[t].todo = {}
    /\ \A k \in Wanted(tx[t].order) \ tx[t].todo :
         Reserved(k, tx[t].win, tx[t].res) + tx[t].order[k] <= FleetSize(k)

\* What was checked stands while what is reserved does not grow.
LEMMA CheckedFrame ==
  ASSUME TypeOK, Shapes, TypeOK', [Next]_vars, NEW u \in Txn, Checked(u), tx'[u] = tx[u],
         \A k \in Wanted(tx[u].order) \ tx[u].todo, r \in Reservation :
           tx[u].op \in Granting => Calm(r, k)
  PROVE  Checked(u)'
<1> SUFFICES ASSUME tx[u].op \in Granting PROVE Checked(u)'
  BY DEF Checked
<1>1. tx[u].order \in [Resource -> Nat]
  BY DEF Shapes, Shape
<1>2. ASSUME NEW k \in Wanted(tx[u].order) \ tx[u].todo
      PROVE  Reserved(k, tx[u].win, tx[u].res)' + tx[u].order[k] <= FleetSize(k)'
  <2>1. PICK w, self : w = tx[u].win /\ self = tx[u].res
    OBVIOUS
  <2>2. k \in Resource /\ tx[u].order[k] \in Nat
    BY <1>1 DEF Wanted
  <2>3. Reserved(k, w, self)' <= Reserved(k, w, self) /\ Reserved(k, w, self)' \in Nat
    BY <1>2, <2>2, ReservedFalls
  <2>4. Reserved(k, w, self) + tx[u].order[k] <= FleetSize(k)
    BY <1>2, <2>1 DEF Checked
  <2>5. FleetSize(k) <= FleetSize(k)' /\ FleetSize(k)' \in Nat /\ FleetSize(k) \in Nat
    BY <2>2, FleetGrows, FleetCounts
  <2>6. Reserved(k, w, self) \in Nat
    BY <2>2, RowsCounted
  <2>7. Reserved(k, w, self)' + tx[u].order[k] <= FleetSize(k)'
    BY <2>2, <2>3, <2>4, <2>5, <2>6
  <2> QED BY <2>1, <2>7 DEF Reserved
<1> QED BY <1>2 DEF Checked, Reserved

\* A connection's own next statement keeps what it has checked, and adds the
\* item it has just found to fit: of the units that exist, those that are
\* AVAILABLE are enough.
LEMMA ContinuesChecked ==
  ASSUME TypeOK, Shapes, TypeOK', KeysHeld, [Next]_vars, NEW u \in Txn, Checked(u),
         Continues(u), ~Rollback(u)
  PROVE  Checked(u)'
<1>1. GoesOn(u) /\ Shape(tx[u]) /\ tx[u] \in Transaction
  BY ContinuesWell DEF Shapes, TypeOK
<1>2. CASE tx[u].op \notin Granting
  BY <1>1, <1>2 DEF GoesOn, Checked
<1>3. CASE tx[u].op \in Granting
  <2>1. /\ tx'[u].op = tx[u].op /\ tx'[u].win = tx[u].win /\ tx'[u].res = tx[u].res
        /\ tx'[u].order = tx[u].order /\ UNCHANGED tables
    BY <1>1 DEF GoesOn
  <2>2. tx[u].order \in [Resource -> Nat] /\ tx[u].todo \in SUBSET Resource
    BY <1>1, <1>3 DEF Shape, Transaction
  <2>3. \A k : FleetSize(k)' = FleetSize(k)
    BY <2>1 DEF FleetSize, tables
  <2>4. \A k, w, self : Reserved(k, w, self)' = Reserved(k, w, self)
    BY <2>1 DEF Reserved, tables
  <2>5. CASE LockResource(u)
    <3>1. tx'[u].todo = tx[u].todo /\ tx'[u].pc \in {"lock", "check"} /\ tx[u].pc = "lock"
      BY <2>5, LockResourceMoves DEF LockResource
    <3> QED BY <1>3, <2>1, <3>1 DEF Checked
  <2>6. CASE CheckUnits(u) \/ LockUnit(u)
    <3>1. tx[u].pc = "exact" /\ tx'[u].todo = tx[u].todo /\ tx'[u].pc = "commit"
      BY <1>1, <1>3, <2>6 DEF CheckUnits, LockUnit, Shape, Granting, TypeOK, Transaction, Rollback
    <3> QED BY <1>3, <2>1, <2>3, <2>4, <3>1 DEF Checked, Reserved, tables
  <2>7. CASE ~LockResource(u) /\ ~CheckUnits(u) /\ ~LockUnit(u)
    <3>1. PICK k \in tx[u].todo :
            /\ CanFulfill(k, tx[u].win, tx[u].order[k], tx[u].res)
            /\ tx'[u].pc = IF tx[u].todo # {k} THEN "check"
                           ELSE IF tx[u].op = "reschedule" THEN "exact" ELSE "commit"
            /\ tx'[u].todo = tx[u].todo \ {k}
      BY <2>7, ChecksMove
    <3>2. PICK w, self : w = tx[u].win /\ self = tx[u].res
      OBVIOUS
    <3>3. k \in Resource /\ tx[u].order[k] \in Nat
      BY <2>2
    <3>4. Eligible(k) - Reserved(k, w, self) >= tx[u].order[k]
      BY <3>1, <3>2 DEF CanFulfill
    <3>5. /\ Eligible(k) \in Nat /\ FleetSize(k) \in Nat /\ Eligible(k) <= FleetSize(k)
          /\ Reserved(k, w, self) \in Nat
      BY <3>3, FleetCounts, RowsCounted
    <3>6. Reserved(k, w, self) + tx[u].order[k] <= FleetSize(k)
      BY <3>3, <3>4, <3>5
    <3>7. tx'[u].pc # "lock" /\ (tx'[u].pc \in {"exact", "commit"} => tx'[u].todo = {})
      BY <3>1
    <3>8. \A j \in Wanted(tx[u].order) \ tx[u].todo :
            Reserved(j, w, self) + tx[u].order[j] <= FleetSize(j)
      BY <1>3, <3>2 DEF Checked
    <3>9. \A j \in Wanted(tx[u].order) \ tx'[u].todo :
            Reserved(j, w, self) + tx[u].order[j] <= FleetSize(j)
      BY <3>1, <3>6, <3>8
    <3>10. \A j \in Wanted(tx[u].order) \ tx'[u].todo :
             Reserved(j, w, self)' + tx[u].order[j] <= FleetSize(j)'
      BY <2>3, <2>4, <3>9
    <3> QED BY <2>1, <3>2, <3>7, <3>10 DEF Checked, Reserved, tables
  <2> QED BY <2>5, <2>6, <2>7
<1> QED BY <1>2, <1>3

\* No check of CheckWithQuerier goes stale before the grant it allowed commits.
LEMMA ChecksStep ==
  ASSUME OneKeyEach, TypeOK, Shapes, GrantsStand, KeysHeld, ChecksStand, [Next]_vars, TypeOK'
  PROVE  ChecksStand'
<1> SUFFICES ASSUME NEW u \in Txn PROVE Checked(u)'
  BY DEF ChecksStand, Checked
<1>1. Checked(u)
  BY DEF ChecksStand, Checked
<1>2. ASSUME tx'[u] = Idle PROVE Checked(u)'
  BY <1>2, FieldsOfIdle DEF Checked, Granting
<1>3. ASSUME Begins(u) PROVE Checked(u)'
  <2>1. CASE tx'[u].op \in Granting
    BY <1>3, <2>1, BeginsUnlocked DEF Checked
  <2> QED BY <2>1 DEF Checked
<1>4. ASSUME NEW t \in Txn \ {u}, Commits(t) PROVE Checked(u)'
  <2>1. tx'[u] = tx[u]
    BY <1>4, CommitsLeaves DEF Untouched
  <2>2. ASSUME NEW k \in Wanted(tx[u].order) \ tx[u].todo, NEW r \in Reservation,
               tx[u].op \in Granting
        PROVE  Calm(r, k)
    <3>1. tx[u].pc # "lock" /\ k \in Resource
      BY <1>1, <2>2 DEF Checked, Wanted
    <3>2. holder[KeyOf[k]] = u
      BY <2>2, <3>1 DEF KeysHeld
    <3> QED BY <1>4, <3>1, <3>2, CommitsCalm
  <2> QED BY <1>1, <2>1, <2>2, CheckedFrame
<1>5. ASSUME UNCHANGED <<window, lines>>, tx'[u] = tx[u],
             \A s \in Reservation : status'[s] \in Blocking => status[s] \in Blocking
      PROVE  Checked(u)'
  <2>1. \A r \in Reservation : \A k : Calm(r, k)
    BY <1>5 DEF Calm
  <2> QED BY <1>1, <1>5, <2>1, CheckedFrame
<1>6. ASSUME NEW t \in Txn, Begins(t) \/ Continues(t) \/ Commits(t) \/ Abort(t)
      PROVE  Checked(u)'
  <2>1. Untouched(t)
    BY <1>6, BeginsLeaves, ContinuesLeaves, RollbackLeaves, CommitsLeaves DEF GoesOn
  <2>2. CASE t = u
    BY <1>1, <1>6, <2>2, <1>2, <1>3, ContinuesChecked, RollbackLeaves, CommitsLeaves
  <2>3. CASE t # u /\ ~Commits(t)
    <3>1. UNCHANGED tables
      BY <1>6, <2>3, BeginsTables, ContinuesLeaves DEF GoesOn, Rollback, Abort
    <3> QED BY <2>1, <2>3, <3>1, <1>5 DEF Untouched, tables
  <2> QED BY <1>4, <1>6, <2>2, <2>3
<1>7. ASSUME NEW r \in Reservation, OneStep(r) PROVE Checked(u)'
  BY <1>5, <1>7, OneStepLeaves, OneStepReleases
<1>8. CASE UNCHANGED <<status, window, lines, tx>>
  BY <1>5, <1>8
<1> QED
  BY <1>6, <1>7, <1>8, Steps, CreateAssetLeaves DEF vars, tables

\* At no instant do the reservations that block need more units than exist.
LEMMA NeverStep ==
  ASSUME TypeOK, Shapes, GrantsStand, ChecksStand, RowsFull, NeverOver, [Next]_vars, TypeOK'
  PROVE  NeverOver'
<1> SUFFICES ASSUME NEW k \in Resource, NEW w \in Window
             PROVE  Demand(k, w.start)' <= FleetSize(k)'
  BY DEF NeverOver, Demand
<1>1. PICK i \in Nat : i = w.start
  BY ConstantsAssumption
<1>2. /\ FleetSize(k) <= FleetSize(k)' /\ FleetSize(k)' \in Nat /\ FleetSize(k) \in Nat
      /\ Demand(k, i) <= FleetSize(k) /\ Demand(k, i) \in Nat
  BY <1>1, FleetGrows, FleetCounts, RowsCounted DEF NeverOver
<1>3. ASSUME \A r \in RowsAt(i)' : Calm(r, k) PROVE Demand(k, i)' <= FleetSize(k)'
  BY <1>2, <1>3, DemandFalls
<1>4. ASSUME UNCHANGED <<window, lines>>,
             \A s \in Reservation : status'[s] \in Blocking => status[s] \in Blocking
      PROVE  Demand(k, i)' <= FleetSize(k)'
  BY <1>3, <1>4 DEF Calm, RowsAt
<1>5. ASSUME NEW t \in Txn, Commits(t) PROVE Demand(k, i)' <= FleetSize(k)'
  <2>1. CASE UNCHANGED <<status, window, lines>>
    BY <1>4, <2>1
  <2>2. CASE ~ UNCHANGED <<status, window, lines>>
    <3>1. PICK r, v : r = tx[t].res /\ v = tx[t].win
      OBVIOUS
    <3>2. /\ tx[t].op \in Granting /\ tx[t].pc = "commit"
          /\ r \in Reservation /\ v \in Window /\ tx[t].order \in [Resource -> Nat]
          /\ window'[r] = v /\ lines'[r] = tx[t].order
          /\ \A s \in Reservation \ {r} :
               status'[s] = status[s] /\ window'[s] = window[s] /\ lines'[s] = lines[s]
      BY <1>5, <2>2, <3>1, CommitsRows
    <3>3. \A s \in Reservation \ {r} : /\ Calm(s, k) /\ window'[s] = window[s]
                                       /\ status'[s] \in Blocking => status[s] \in Blocking
      BY <3>2 DEF Calm
    <3>4. CASE tx[t].order[k] = 0
      <4>1. Calm(r, k)
        BY <3>2, <3>4 DEF Calm
      <4> QED BY <1>3, <3>3, <4>1 DEF RowsAt
    <3>5. CASE ~ (v.start <= i /\ i < v.end)
      <4>1. r \notin RowsAt(i)'
        BY <3>2, <3>5 DEF RowsAt
      <4> QED BY <1>3, <3>3, <4>1 DEF RowsAt
    <3>6. CASE tx[t].order[k] # 0 /\ v.start <= i /\ i < v.end
      <4>1. tx[t].order[k] \in Nat
        BY <3>2
      <4>2. k \in Wanted(tx[t].order) /\ tx[t].todo = {}
        BY <3>2, <3>6, <4>1 DEF Wanted, ChecksStand
      <4>3. Reserved(k, v, r) + tx[t].order[k] <= FleetSize(k)
        BY <3>1, <3>2, <4>2 DEF ChecksStand
      <4>4. Demand(k, i)' <= Reserved(k, v, r) + lines'[r][k] /\ Demand(k, i)' \in Nat
        BY <3>2, <3>3, <3>6, DemandOfWritten
      <4>5. Reserved(k, v, r) \in Nat
        BY RowsCounted
      <4> QED BY <1>2, <3>2, <4>1, <4>3, <4>4, <4>5
    <3> QED BY <3>4, <3>5, <3>6
  <2> QED BY <2>1, <2>2
<1>6. Demand(k, i)' <= FleetSize(k)'
  BY <1>4, <1>5, OthersRows
<1> QED BY <1>1, <1>6 DEF Demand

-----------------------------------------------------------------------------
(* Theorems *)

\* The empty tables satisfy the invariant.
LEMMA QuantityInit == Init => QuantityInv
<1> SUFFICES ASSUME Init PROVE QuantityInv
  OBVIOUS
<1>1. TypeOK /\ Shapes /\ LocksHeld /\ InsertsFresh /\ QuoteFresh
  BY InitIInv DEF IInv
<1>2. KeysHeld /\ GrantsStand /\ ChecksStand /\ RowsFull
  BY FieldsOfIdle DEF Init, KeysHeld, GrantsStand, ChecksStand, RowsFull, Granting
<1>3. ASSUME NEW k \in Resource, NEW w \in Window PROVE Demand(k, w.start) <= FleetSize(k)
  <2>1. RowsAt(w.start) = {}
    BY DEF RowsAt, Init, Blocking
  <2>2. Demand(k, w.start) = 0
    BY <1>1, <2>1, RowsCounted, SumEmpty
  <2> QED BY <1>1, <2>2, FleetCounts
<1> QED BY <1>1, <1>2, <1>3 DEF QuantityInv, NeverOver

\* Every grant is protected by the advisory locks of its resources from the
\* check of each item to the commit (LockResources, CheckWithQuerier, the
\* INSERTs of CreateManual and CreateFromQuoteTx, the UPDATE of Reschedule).
THEOREM QuantityInductive == ASSUME OneKeyEach PROVE Spec => []QuantityInv
<1>1. QuantityInv /\ [Next]_vars => QuantityInv'
  <2> SUFFICES ASSUME QuantityInv, [Next]_vars PROVE QuantityInv'
    OBVIOUS
  <2>1. TypeOK'
    BY TypeStep DEF QuantityInv
  <2>2. Shapes' /\ LocksHeld' /\ InsertsFresh' /\ QuoteFresh'
    BY ShapesStep, LocksStep, InsertsStep, QuoteStep DEF QuantityInv
  <2>3. KeysHeld' /\ GrantsStand' /\ RowsFull'
    BY KeysStep, GrantsStep, RowsStep DEF QuantityInv
  <2>4. ChecksStand' /\ NeverOver'
    BY <2>1, ChecksStep, NeverStep DEF QuantityInv
  <2> QED BY <2>1, <2>2, <2>3, <2>4 DEF QuantityInv
<1> QED BY <1>1, QuantityInit, PTL DEF Spec

\* At no instant do blocking reservations need more units of a resource than
\* the tenant has, however manual creations, conversions of quotes, moves,
\* hand-overs, returns and staff edits interleave and abort.
THEOREM NeverOverbooked == ASSUME OneKeyEach PROVE Spec => []NoOverbooking
<1>1. QuantityInv => NoOverbooking
  BY DEF QuantityInv, NeverOver, RowsFull, NoOverbooking, Blocking
<1> QED BY <1>1, QuantityInductive, PTL

-----------------------------------------------------------------------------
(* The abstract ledger *)

\* The ledger's query is the one CheckWithQuerier runs.
LEMMA BookedIsReserved ==
  ASSUME NEW k, NEW w, NEW self PROVE Ledger!Booked(k, w, self) = Reserved(k, w, self)
<1>1. \A f, S : Ledger!SumOver(f, S) = SumOver(f, S)
  BY DEF Ledger!SumOver, Ledger!MapThenSumSet, Ledger!MapThenFoldSet,
         SumOver, MapThenSumSet, MapThenFoldSet
<1>2. {r \in Reservation \ {self} : status[r] \in Ledger!Blocking /\ Ledger!Meets(window[r], w)}
      = {r \in Reservation \ {self} : status[r] \in Blocking /\ Overlaps(window[r], w)}
  BY DEF Ledger!Blocking, Ledger!Meets, Blocking, Overlaps
<1> QED BY <1>1, <1>2 DEF Ledger!Booked, Reserved

\* Units that exist are among those the tenant can ever own.
LEMMA FleetOwned ==
  ASSUME TypeOK, NEW k \in Resource
  PROVE  /\ Cardinality({a \in Asset : ResourceOf[a] = k}) \in Nat
         /\ FleetSize(k) <= Cardinality({a \in Asset : ResourceOf[a] = k})
<1> DEFINE Owns == {a \in Asset : ResourceOf[a] = k}
           Have == {a \in Asset : ResourceOf[a] = k /\ physical[a] # "NONE"}
<1>1. Have \subseteq Owns /\ IsFiniteSet(Owns)
  BY FiniteAssumption, FS_Subset, Owns \subseteq Asset
<1>2. Cardinality(Have) <= Cardinality(Owns) /\ Cardinality(Owns) \in Nat
  BY <1>1, FS_Subset, FS_CardinalityType
<1> QED BY <1>2 DEF FleetSize

\* A grant that commits still fits, whatever committed since its checks.
LEMMA CommitFits ==
  ASSUME QuantityInv, NEW t \in Txn, tx[t].op \in Granting, tx[t].pc = "commit"
  PROVE  Ledger!Fits(tx[t].res, tx[t].win, tx[t].order)
<1>1. PICK r, w, order : r = tx[t].res /\ w = tx[t].win /\ order = tx[t].order
  OBVIOUS
<1>2. order \in [Resource -> Nat] /\ tx[t].todo = {}
  BY <1>1 DEF QuantityInv, Shapes, Shape, ChecksStand
<1>3. ASSUME NEW k \in Resource, order[k] > 0
      PROVE  Ledger!Booked(k, w, r) + order[k]
               <= Cardinality({a \in Asset : ResourceOf[a] = k})
  <2>1. k \in Wanted(tx[t].order) \ tx[t].todo
    BY <1>1, <1>2, <1>3 DEF Wanted
  <2>2. Reserved(k, w, r) + order[k] <= FleetSize(k)
    BY <1>1, <2>1 DEF QuantityInv, ChecksStand
  <2>3. Reserved(k, w, r) \in Nat /\ FleetSize(k) \in Nat
    BY RowsCounted, FleetCounts DEF QuantityInv
  <2>4. /\ Cardinality({a \in Asset : ResourceOf[a] = k}) \in Nat
        /\ FleetSize(k) <= Cardinality({a \in Asset : ResourceOf[a] = k})
    BY FleetOwned DEF QuantityInv
  <2>5. Reserved(k, w, r) + order[k] <= Cardinality({a \in Asset : ResourceOf[a] = k})
    BY <1>2, <1>3, <2>2, <2>3, <2>4
  <2> QED BY <2>5, BookedIsReserved
<1> QED BY <1>1, <1>3 DEF Ledger!Fits

\* An INSERT is a grant of the ledger.
LEMMA InsertLedger ==
  ASSUME QuantityInv, NEW t \in Txn, CommitInsert(t) PROVE Ledger!Next
<1>1. /\ tx[t].pc = "commit" /\ tx[t].op \in Granting /\ tx[t].res \in Reservation
      /\ tx[t].win \in Window /\ status[tx[t].res] = "NONE"
  BY DEF CommitInsert, QuantityInv, Shapes, Shape, InsertsFresh, Granting
<1>2. Ledger!Write(tx[t].res, tx[t].win, tx[t].order, tx[t].quote)
  BY <1>1, CommitFits DEF CommitInsert, Ledger!Write
<1>3. CASE tx[t].op = "create"
  <2>1. tx[t].order \in Order /\ tx[t].quote = None
    BY <1>3 DEF QuantityInv, GrantsStand, Shapes, Shape
  <2> QED BY <1>1, <1>2, <2>1 DEF Ledger!Next, Ledger!Grant
<1>4. CASE tx[t].op = "convert"
  <2>1. /\ tx[t].quote \in Quote /\ tx[t].win = QuoteWindow[tx[t].quote]
        /\ tx[t].order = QuoteOrder[tx[t].quote]
        /\ \A s \in Reservation : origin[s] # tx[t].quote
    BY <1>4 DEF QuantityInv, GrantsStand, Shapes, Shape, QuoteFresh
  <2> QED BY <1>1, <1>2, <2>1 DEF Ledger!Next, Ledger!GrantQuote
<1> QED BY <1>3, <1>4 DEF CommitInsert

\* An UPDATE of the schedule is a move of the ledger.
LEMMA RescheduleLedger ==
  ASSUME QuantityInv, NEW t \in Txn, CommitReschedule(t) PROVE Ledger!Next
<1>1. /\ tx[t].pc = "commit" /\ tx[t].op \in Granting /\ tx[t].res \in Reservation
      /\ tx[t].win \in Window /\ status[tx[t].res] \in Reschedulable
      /\ tx[t].order = lines[tx[t].res]
  BY DEF CommitReschedule, QuantityInv, Shapes, Shape, GrantsStand, Granting
<1>2. status[tx[t].res] \in Ledger!Blocking \ {"CHECKED_OUT"}
  BY <1>1 DEF Reschedulable, Ledger!Blocking
<1>3. Ledger!Move(tx[t].res, tx[t].win)
  BY <1>1, <1>2, CommitFits DEF CommitReschedule, Ledger!Move
<1> QED BY <1>1, <1>3 DEF Ledger!Next

\* Transitions are steps of the ledger's lifecycle.
LEMMA OneStepLedger ==
  ASSUME QuantityInv, NEW r \in Reservation, OneStep(r)
  PROVE  Ledger!Next \/ UNCHANGED <<status, window, lines, origin>>
<1>1. UNCHANGED <<window, lines, origin>>
  BY OneStepLeaves
<1>2. ASSUME NEW from, NEW to, <<from, to>> \in Ledger!Lifecycle,
             status[r] = from, status' = [status EXCEPT ![r] = to]
      PROVE  Ledger!Next
  <2>1. Ledger!Advance(r, <<from, to>>[2])
    BY <1>1, <1>2 DEF Ledger!Advance
  <2> QED BY <1>2, <2>1 DEF Ledger!Next
<1>3. /\ <<"PENDING", "CONFIRMED">> \in Ledger!Lifecycle
      /\ <<"CONFIRMED", "PREPARING">> \in Ledger!Lifecycle
      /\ <<"PREPARING", "READY">> \in Ledger!Lifecycle
      /\ <<"READY", "CHECKED_OUT">> \in Ledger!Lifecycle
      /\ <<"CHECKED_OUT", "RETURNED">> \in Ledger!Lifecycle
      /\ <<"RETURNED", "COMPLETED">> \in Ledger!Lifecycle
      /\ \A from \in {"PENDING", "CONFIRMED", "PREPARING", "READY"} :
           <<from, "CANCELLED">> \in Ledger!Lifecycle
  BY DEF Ledger!Lifecycle, Ledger!Blocking
<1>4. CASE Confirm(r) \/ Prepare(r)
  BY <1>2, <1>3, <1>4 DEF Confirm, Prepare, Transition
<1>5. CASE MarkReadyWithInventory(r)
  BY <1>2, <1>3, <1>5 DEF MarkReadyWithInventory
<1>6. CASE CheckOutWithAssets(r)
  BY <1>2, <1>3, <1>6 DEF CheckOutWithAssets
<1>7. CASE \E inspection \in [Held(r) -> Condition] : ReturnWithInspection(r, inspection)
  BY <1>2, <1>3, <1>7 DEF ReturnWithInspection
<1>8. CASE CompleteAfterReturn(r)
  BY <1>2, <1>3, <1>8 DEF CompleteAfterReturn
<1>9. CASE CancelAndRelease(r)
  BY <1>2, <1>3, <1>9 DEF CancelAndRelease
<1>10. CASE \E a \in Asset : UnassignAsset(r, a)
  BY <1>10 DEF UnassignAsset
<1> QED BY <1>4, <1>5, <1>6, <1>7, <1>8, <1>9, <1>10 DEF OneStep

\* Every step of the transactions is a step of the ledger, or stutters.
LEMMA LedgerStep == QuantityInv /\ [Next]_vars => [Ledger!Next]_(Ledger!ledger)
<1> SUFFICES ASSUME QuantityInv, [Next]_vars
             PROVE  Ledger!Next \/ UNCHANGED <<status, window, lines, origin>>
  BY DEF Ledger!ledger
<1>1. ASSUME NEW t \in Txn, Begins(t) \/ Continues(t) \/ Abort(t) PROVE UNCHANGED tables
  BY <1>1, BeginsTables, ContinuesLeaves DEF QuantityInv, GoesOn, Rollback, Abort
<1>2. ASSUME NEW t \in Txn, CommitAssign(t) \/ CommitUpdateAsset(t)
      PROVE  UNCHANGED <<status, window, lines, origin>>
  BY <1>2 DEF CommitAssign, CommitUpdateAsset
<1> QED
  BY <1>1, <1>2, InsertLedger, RescheduleLedger, OneStepLedger, Steps, CreateAssetLeaves
  DEF Commits, vars, tables

\* The interleaved transactions implement BookingLedger, in which a grant
\* checks and writes at once: no grant is written on a stale check.
THEOREM RentalImplementsLedger == ASSUME OneKeyEach PROVE Spec => ImplementsLedger
<1>1. Init => Ledger!Init
  BY DEF Init, Ledger!Init
<1>2. Spec => Ledger!Init /\ [][Ledger!Next]_(Ledger!ledger)
  BY <1>1, LedgerStep, QuantityInductive, PTL DEF Spec
<1> QED BY <1>2 DEF ImplementsLedger, Ledger!Spec

-----------------------------------------------------------------------------
(* Waiting *)

\* A lock that t has after a step and had not before was free, and t asked for
\* it: a row as it began, the least of its keys, or its unit.
Takes(t, x) ==
  \/ Begins(t) /\ x \in Reservation \cup Quote
  \/ LockResource(t) /\ x = Min(tx[t].keys)
  \/ LockUnit(t) /\ x = tx[t].asset /\ tx'[t].pc = "commit"

\* The end of a transaction takes no lock, and leaves it none.
LEMMA FinishReleases ==
  ASSUME TypeOK, NEW t \in Txn, Finish(t), NEW x \in Lockable, NEW u \in Txn, holder'[x] = u
  PROVE  u # t /\ holder[x] = u
BY ConstantsAssumption DEF Finish, TypeOK

\* A lock is taken by the connection that acquires it.
LEMMA AcquireTakes ==
  ASSUME TypeOK, NEW t \in Txn, NEW y, Acquire(t, y), NEW x \in Lockable, NEW u \in Txn, holder'[x] = u
  PROVE  holder[x] = u \/ (u = t /\ x = y)
BY DEF Acquire, TypeOK

\* Where a lock comes from.
LEMMA LocksTaken ==
  ASSUME TypeOK, Shapes, [Next]_vars, NEW x \in Lockable, NEW u \in Txn, holder'[x] = u
  PROVE  holder[x] = u \/ Takes(u, x)
<1>1. ASSUME NEW t \in Txn, Begins(t) PROVE holder[x] = u \/ Takes(u, x)
  <2>1. UNCHANGED holder \/ \E y \in Reservation \cup Quote : Acquire(t, y)
    BY <1>1 DEF Begins, BeginCreate, BeginConvert, BeginReschedule, BeginAssign, BeginUpdateAsset
  <2> QED BY <1>1, <2>1, AcquireTakes DEF Takes
<1>2. ASSUME NEW t \in Txn, Continues(t) PROVE holder[x] = u \/ Takes(u, x)
  <2>1. CASE LockResource(t)
    <3>1. Acquire(t, Min(tx[t].keys))
      BY <2>1 DEF LockResource
    <3> QED BY <2>1, <3>1, AcquireTakes DEF Takes
  <2>2. CASE LockUnit(t)
    <3>1. Finish(t) \/ (Acquire(t, tx[t].asset) /\ tx' = [tx EXCEPT ![t].pc = "commit"])
      BY <2>2 DEF LockUnit, Rollback
    <3>2. CASE Finish(t)
      BY <3>2, FinishReleases
    <3>3. CASE Acquire(t, tx[t].asset) /\ tx' = [tx EXCEPT ![t].pc = "commit"]
      <4>1. tx'[t].pc = "commit"
        BY <3>3 DEF TypeOK, Transaction
      <4> QED BY <2>2, <3>3, <4>1, AcquireTakes DEF Takes
    <3> QED BY <3>1, <3>2, <3>3
  <2>3. CASE CheckResource(t) \/ CheckUnits(t)
    <3>1. Finish(t) \/ UNCHANGED holder
      BY <2>3 DEF CheckResource, CheckUnits, Rollback
    <3> QED BY <3>1, FinishReleases
  <2> QED BY <1>2, <2>1, <2>2, <2>3 DEF Continues
<1>3. ASSUME NEW t \in Txn, Commits(t) \/ Abort(t) PROVE holder[x] = u
  <2>1. Finish(t)
    BY <1>3 DEF Commits, Abort, Rollback, CommitInsert, CommitReschedule, CommitAssign, CommitUpdateAsset
  <2> QED BY <2>1, FinishReleases
<1>4. ASSUME UNCHANGED holder PROVE holder[x] = u
  BY <1>4
<1> QED BY <1>1, <1>2, <1>3, <1>4, Steps, OneStepLeaves, CreateAssetLeaves DEF vars

\* A transaction that ends has no lock.
LEMMA IdleHoldsNothing ==
  ASSUME TypeOK, NEW t \in Txn, Rollback(t) \/ Commits(t) \/ Abort(t), NEW x \in Lockable
  PROVE  holder'[x] # t
<1>1. Finish(t)
  BY DEF Commits, Abort, Rollback, CommitInsert, CommitReschedule, CommitAssign, CommitUpdateAsset
<1> QED BY <1>1, FinishReleases

\* Rows are locked by nobody under the identity of a key or of a unit.
LEMMA KindsApart ==
  /\ LockKey \subseteq Lockable /\ Asset \subseteq Lockable
  /\ LockKey \cap Asset = {}
  /\ LockKey \cap (Reservation \cup Quote) = {} /\ Asset \cap (Reservation \cup Quote) = {}
BY DisjointAssumption DEF Lockable

\* The least key of a transaction is one of its keys.
LEMMA LeastKey ==
  ASSUME TypeOK, NEW t \in Txn, tx[t].keys # {}
  PROVE  /\ Min(tx[t].keys) \in tx[t].keys
         /\ \A y \in tx[t].keys : Min(tx[t].keys) <= y
         /\ tx[t].keys \in SUBSET LockKey /\ LockKey \subseteq Nat
BY TodoType, LeastElement, ConstantsAssumption

\* Every grant wants something, and has a key to lock.
LEMMA BeginsWanting ==
  ASSUME TypeOK, RowsHaveItems, NEW t \in Txn, Begins(t)
  PROVE  tx'[t].pc = "lock" => tx'[t].keys # {}
<1>1. ASSUME NEW op, NEW r, NEW w, NEW order, NEW spell, NEW q, Wanted(order) # {},
             Start(t, Grant(op, r, w, order, spell))
             \/ Start(t, [Grant(op, r, w, order, spell) EXCEPT !.quote = q])
      PROVE  tx'[t].keys # {}
  <2>1. \/ tx'[t] = Grant(op, r, w, order, spell)
        \/ tx'[t] = [Grant(op, r, w, order, spell) EXCEPT !.quote = q]
    BY <1>1 DEF Start, TypeOK
  <2>2. tx'[t].keys = {spell[k] : k \in Wanted(order)}
    BY <2>1 DEF Grant, Idle
  <2> QED BY <1>1, <2>2
<1>2. \A order \in Order : Wanted(order) # {}
  BY ConstantsAssumption DEF Wanted
<1>3. ASSUME NEW r \in Reservation, NEW w \in Window, NEW order \in Order,
             NEW spell \in Spelling, BeginCreate(t, r, w, order, spell)
      PROVE  tx'[t].keys # {}
  BY <1>1, <1>2, <1>3 DEF BeginCreate
<1>4. ASSUME NEW q \in Quote, NEW r \in Reservation, BeginConvert(t, q, r)
      PROVE  tx'[t].keys # {}
  <2>1. Wanted(QuoteOrder[q]) # {}
    BY <1>2, ConstantsAssumption
  <2> QED BY <1>1, <1>4, <2>1 DEF BeginConvert, Convert
<1>5. ASSUME NEW r \in Reservation, NEW w \in Window, BeginReschedule(t, r, w)
      PROVE  tx'[t].keys # {}
  <2>1. Wanted(lines[r]) # {}
    BY <1>5 DEF BeginReschedule, RowsHaveItems, Reschedulable
  <2> QED BY <1>1, <1>5, <2>1 DEF BeginReschedule
<1>6. ASSUME NEW r \in Reservation, NEW a \in Asset, BeginAssign(t, r, a)
      PROVE  tx'[t].pc # "lock"
  BY <1>6 DEF BeginAssign, Start, TypeOK, Idle
<1>7. ASSUME NEW a \in Asset, NEW p \in Patch, BeginUpdateAsset(t, a, p)
      PROVE  tx'[t].pc # "lock"
  BY <1>7 DEF BeginUpdateAsset, Start, TypeOK, Idle
<1> QED BY <1>3, <1>4, <1>5, <1>6, <1>7 DEF Begins

\* Rows are written with the items that were asked for.
LEMMA RowsHaveItemsStep ==
  ASSUME TypeOK, Shapes, GrantsStand, RowsHaveItems, [Next]_vars
  PROVE  RowsHaveItems'
<1>1. ASSUME NEW t \in Txn, Commits(t) PROVE RowsHaveItems'
  <2>1. CASE UNCHANGED <<status, lines>>
    BY <2>1 DEF RowsHaveItems, Wanted
  <2>2. CASE /\ tx[t].op \in Granting /\ tx[t].res \in Reservation
             /\ lines'[tx[t].res] = tx[t].order
             /\ \A s \in Reservation \ {tx[t].res} : status'[s] = status[s] /\ lines'[s] = lines[s]
    <3>1. tx[t].op = "convert" => tx[t].quote \in Quote
      BY DEF Shapes, Shape
    <3>2. tx[t].op \in {"create", "convert"} => tx[t].order \in Order
      BY <3>1, ConstantsAssumption DEF GrantsStand
    <3>3. tx[t].op = "reschedule" => /\ tx[t].order = lines[tx[t].res]
                                     /\ status[tx[t].res] # "NONE"
      BY DEF GrantsStand, Reschedulable
    <3>4. Wanted(tx[t].order) # {}
      BY <2>2, <3>2, <3>3, ConstantsAssumption DEF Granting, RowsHaveItems, Wanted
    <3> QED BY <2>2, <3>4 DEF RowsHaveItems, Wanted
  <2> QED BY <1>1, <2>1, <2>2, CommitsRows
<1> QED BY <1>1, OthersRows DEF RowsHaveItems, Wanted

\* The part of KeysInOrder and of UnitsLast that is about one transaction.
Ranked(t) ==
  /\ tx[t].pc = "lock" => tx[t].keys # {}
  /\ \A x \in LockKey : holder[x] = t =>
       tx[t].op \in Granting /\ \A y \in tx[t].keys : x < y
  /\ \A a \in Asset : holder[a] = t => tx[t].op = "assign" /\ tx[t].pc = "commit"

\* Locks are taken in order: LockResource takes the least key that is left, and
\* LockUnit the last lock of an assignment.
LEMMA OrderStep ==
  ASSUME TypeOK, Shapes, RowsHaveItems, KeysInOrder, UnitsLast, [Next]_vars
  PROVE  KeysInOrder' /\ UnitsLast'
<1> SUFFICES ASSUME NEW u \in Txn PROVE Ranked(u)'
  BY DEF KeysInOrder, UnitsLast, Ranked
<1>1. Ranked(u) /\ tx[u] \in Transaction /\ Shape(tx[u])
  BY DEF KeysInOrder, UnitsLast, Ranked, TypeOK, Shapes
<1>2. ASSUME NEW t \in Txn \ {u}, Untouched(t), \A x \in Lockable : holder'[x] = u => holder[x] = u
      PROVE Ranked(u)'
  <2>1. tx'[u] = tx[u]
    BY <1>2 DEF Untouched
  <2> QED BY <1>1, <1>2, <2>1, KindsApart DEF Ranked
<1>3. ASSUME Begins(u) PROVE Ranked(u)'
  <2>1. tx'[u].pc = "lock" => tx'[u].keys # {}
    BY <1>3, BeginsWanting
  <2>2. tx[u] = Idle
    BY <1>3, BeginsTables
  <2>3. \A x \in LockKey \cup Asset : holder[x] # u
    BY <1>1, <2>2, FieldsOfIdle DEF Ranked, Granting
  <2>4. \A x \in LockKey \cup Asset : ~ Takes(u, x)
    BY <1>3, <2>2, KindsApart, FieldsOfIdle DEF Takes, LockResource, LockUnit
  <2>5. \A x \in LockKey \cup Asset : holder'[x] # u
    BY <2>3, <2>4, LocksTaken, KindsApart
  <2> QED BY <2>1, <2>5 DEF Ranked
<1>4. ASSUME Rollback(u) \/ Commits(u) \/ Abort(u) PROVE Ranked(u)'
  <2>1. tx'[u] = Idle
    BY <1>4, RollbackLeaves, CommitsLeaves
  <2>2. \A x \in LockKey \cup Asset : holder'[x] # u
    BY <1>4, IdleHoldsNothing, KindsApart
  <2> QED BY <2>1, <2>2, FieldsOfIdle DEF Ranked
<1>5. ASSUME LockResource(u) PROVE Ranked(u)'
  <2> DEFINE least == Min(tx[u].keys)
  <2>1. tx[u].pc = "lock" /\ tx[u].op \in Granting /\ tx[u].keys # {}
    BY <1>1, <1>5 DEF LockResource, Ranked, Shape, Granting, Transaction
  <2>2. /\ least \in tx[u].keys /\ \A y \in tx[u].keys : least <= y
        /\ tx[u].keys \in SUBSET LockKey /\ LockKey \subseteq Nat
    BY <2>1, LeastKey
  <2>3. /\ tx'[u].keys = tx[u].keys \ {least} /\ tx'[u].op = tx[u].op
        /\ tx'[u].pc = IF tx[u].keys = {least} THEN "check" ELSE "lock"
    BY <1>1, <1>5 DEF LockResource, LockNext, TypeOK, Transaction
  <2>4. ASSUME NEW y \in tx'[u].keys PROVE least < y
    <3>1. y \in Nat /\ least \in Nat /\ least <= y /\ y # least
      BY <2>2, <2>3, <2>4
    <3> HIDE DEF least
    <3> QED BY <3>1
  <2>5. ASSUME NEW x \in LockKey, holder'[x] = u PROVE \A y \in tx'[u].keys : x < y
    <3>1. holder[x] = u \/ x = least
      BY <1>5, <2>5, AcquireTakes, KindsApart DEF LockResource
    <3> QED BY <1>1, <2>3, <2>4, <3>1 DEF Ranked
  <2>6. ASSUME NEW a \in Asset PROVE holder'[a] # u
    <3>1. holder[a] # u
      BY <1>1, <2>1 DEF Ranked, Granting
    <3>2. a # least
      BY <2>2, KindsApart
    <3> QED BY <1>5, <3>1, <3>2, AcquireTakes, KindsApart DEF LockResource
  <2>7. tx'[u].pc = "lock" => tx'[u].keys # {}
    BY <2>2, <2>3
  <2> QED BY <2>1, <2>3, <2>5, <2>6, <2>7 DEF Ranked
<1>6. ASSUME Continues(u), ~ LockResource(u), ~ Rollback(u) PROVE Ranked(u)'
  <2>1. tx'[u].keys = tx[u].keys /\ tx'[u].op = tx[u].op
    BY <1>6, ChecksMove, ContinuesWell DEF GoesOn
  <2>2. tx'[u].pc # "lock"
    BY <1>1, <1>6 DEF Continues, CheckResource, CheckUnits, LockUnit, TypeOK, Transaction
  <2>3. CASE LockUnit(u)
    <3>1. tx[u].op = "assign" /\ tx'[u].pc = "commit" /\ tx[u].asset \in Asset
      BY <1>1, <1>6, <2>3, ContinuesWell DEF LockUnit, Granting, Shape, Transaction
    <3>2. \A x \in LockKey : holder[x] # u
      BY <1>1, <3>1 DEF Ranked, Granting
    <3>3. Acquire(u, tx[u].asset)
      BY <1>6, <2>3 DEF LockUnit
    <3>4. \A x \in LockKey : holder'[x] # u
      BY <3>1, <3>2, <3>3, AcquireTakes, KindsApart
    <3> QED BY <2>1, <2>2, <3>1, <3>4 DEF Ranked
  <2>4. CASE ~ LockUnit(u)
    <3>1. UNCHANGED holder
      BY <1>6, <2>4 DEF Continues, CheckResource, CheckUnits
    <3>2. tx[u].pc \in {"check", "exact"}
      BY <1>6, <2>4 DEF Continues, CheckResource, CheckUnits
    <3>3. \A a \in Asset : holder[a] # u
      BY <1>1, <3>2 DEF Ranked
    <3> QED BY <1>1, <2>1, <2>2, <3>1, <3>3 DEF Ranked
  <2> QED BY <2>3, <2>4
<1>7. ASSUME NEW t \in Txn, Begins(t) \/ Continues(t) \/ Commits(t) \/ Abort(t)
      PROVE  Ranked(u)'
  <2>1. Untouched(t)
    BY <1>7, BeginsLeaves, ContinuesLeaves, RollbackLeaves, CommitsLeaves DEF GoesOn
  <2>2. CASE t = u
    BY <1>7, <2>2, <1>3, <1>4, <1>5, <1>6
  <2>3. CASE t # u
    <3>1. ASSUME NEW x \in Lockable, holder'[x] = u PROVE holder[x] = u
      <4>1. Finish(t) \/ UNCHANGED holder \/ \E y : Acquire(t, y)
        BY <1>7 DEF Begins, BeginCreate, BeginConvert, BeginReschedule, BeginAssign, BeginUpdateAsset,
             Continues, LockResource, CheckResource, CheckUnits, LockUnit, Commits, CommitInsert,
             CommitReschedule, CommitAssign, CommitUpdateAsset, Abort, Rollback
      <4> QED BY <2>3, <3>1, <4>1, FinishReleases, AcquireTakes
    <3> QED BY <1>2, <2>1, <2>3, <3>1
  <2> QED BY <2>2, <2>3
<1>8. ASSUME UNCHANGED <<tx, holder>> PROVE Ranked(u)'
  BY <1>1, <1>8 DEF Ranked
<1> QED
  BY <1>7, <1>8, Steps, OneStepLeaves, CreateAssetLeaves DEF vars

\* Locks are taken in one order by all connections, with or without OneKeyEach
\* (LockResources, AssignAsset, UpdateAsset).
THEOREM WaitingInductive == Spec => []WaitingInv
<1>1. Init => WaitingInv
  <2> SUFFICES ASSUME Init PROVE WaitingInv
    OBVIOUS
  <2>1. TypeOK /\ Shapes /\ LocksHeld /\ InsertsFresh
    BY InitIInv DEF IInv
  <2>2. GrantsStand
    BY FieldsOfIdle DEF Init, GrantsStand
  <2>3. RowsHaveItems
    BY DEF Init, RowsHaveItems
  <2>4. \A t \in Txn, x \in Lockable : holder[x] # t
    BY ConstantsAssumption DEF Init
  <2>5. KeysInOrder /\ UnitsLast
    BY <2>4, KindsApart, FieldsOfIdle DEF Init, KeysInOrder, UnitsLast
  <2> QED BY <2>1, <2>2, <2>3, <2>5 DEF WaitingInv
<1>2. WaitingInv /\ [Next]_vars => WaitingInv'
  BY TypeStep, ShapesStep, LocksStep, InsertsStep, GrantsStep, RowsHaveItemsStep, OrderStep DEF WaitingInv
<1> QED BY <1>1, <1>2, PTL DEF Spec

\* The key a transaction waits for, if it waits for a key.
Asked(t) == Min(tx[t].keys)

\* Who is waited for and waits in turn, waits for a later key: the holder of a
\* unit waits for nothing, and the holder of a key for keys after that.
LEMMA WaitsForLater ==
  ASSUME WaitingInv, NEW t \in Txn, NEW u \in Txn, NEW v \in Txn, WaitsFor(t, u), WaitsFor(u, v)
  PROVE  Asked(t) \in Nat /\ Asked(u) \in Nat /\ Asked(t) < Asked(u)
<1>1. PICK x \in Lockable : Awaits(t, x) /\ holder[x] = u
  BY DEF WaitsFor
<1>2. tx[u].pc \in {"lock", "unit"} \/ tx[u].op = "patch"
  BY DEF WaitsFor, Awaits
<1>3. /\ tx[t] \in Transaction /\ Shape(tx[t]) /\ tx[u] \in Transaction /\ Shape(tx[u])
      /\ Ranked(t) /\ Ranked(u)
  BY DEF WaitingInv, TypeOK, Shapes, KeysInOrder, UnitsLast, Ranked
<1>4. CASE tx[t].pc = "lock"
  <2>1. /\ Asked(t) \in tx[t].keys /\ tx[t].keys \in SUBSET LockKey /\ LockKey \subseteq Nat
    BY <1>3, <1>4, LeastKey DEF WaitingInv, Ranked, Asked
  <2>2. x = Asked(t)
    BY <1>1, <1>3, <1>4 DEF Awaits, Shape, Granting, Transaction, Asked
  <2>3. tx[u].op \in Granting /\ \A y \in tx[u].keys : x < y
    BY <1>1, <1>3, <2>1, <2>2 DEF Ranked
  <2>4. tx[u].keys # {}
    BY <1>2, <1>3, <2>3 DEF Ranked, Shape, Granting
  <2>5. Asked(u) \in tx[u].keys /\ tx[u].keys \in SUBSET LockKey
    BY <2>4, LeastKey DEF WaitingInv, Asked
  <2> QED BY <2>1, <2>2, <2>3, <2>5
<1>5. CASE tx[t].pc # "lock"
  <2>1. x = tx[t].asset /\ tx[t].asset \in Asset
    BY <1>1, <1>3, <1>5 DEF Awaits, Shape, Granting, Transaction
  <2>2. tx[u].op = "assign" /\ tx[u].pc = "commit"
    BY <1>1, <1>3, <2>1 DEF Ranked
  <2> QED BY <1>2, <2>2
<1> QED BY <1>4, <1>5

\* NoDeadlock: of any connections one waits for none of the others, so that the
\* bookings, moves and assignments of any number of requests never wait in a
\* circle, whatever resources they ask for and however they spell them.
THEOREM NobodyDeadlocks == Spec => []NoDeadlock
<1>1. WaitingInv => NoDeadlock
  <2> SUFFICES ASSUME WaitingInv, NEW C \in SUBSET Txn, C # {}, IsFiniteSet(C),
                      \A t \in C : \E u \in C : WaitsFor(t, u)
               PROVE  FALSE
    BY DEF NoDeadlock
  <2> DEFINE Keys == {Asked(t) : t \in C}
  <2>1. ASSUME NEW t \in C PROVE Asked(t) \in Nat /\ \E u \in C : Asked(t) < Asked(u)
    <3>1. PICK u \in C : WaitsFor(t, u)
      OBVIOUS
    <3>2. PICK v \in C : WaitsFor(u, v)
      OBVIOUS
    <3> QED BY <3>1, <3>2, WaitsForLater
  <2>2. IsFiniteSet(Keys)
    <3>1. [t \in C |-> Asked(t)] \in Surjection(C, Keys)
      BY DEF Surjection
    <3> QED BY <3>1, FS_Surjection
  <2>3. Keys \in SUBSET Nat /\ Keys # {}
    BY <2>1
  <2>4. Max(Keys) \in Keys /\ \A y \in Keys : y <= Max(Keys)
    <3> HIDE DEF Keys
    <3> QED BY <2>2, <2>3, GreatestElement
  <2>5. PICK t \in C : Asked(t) = Max(Keys)
    BY <2>4
  <2>6. PICK u \in C : Asked(t) < Asked(u)
    BY <2>1
  <2>7. Asked(u) <= Asked(t)
    BY <2>4, <2>5
  <2>8. Asked(t) \in Nat /\ Asked(u) \in Nat
    BY <2>1
  <2> QED BY <2>6, <2>7, <2>8
<1> QED BY <1>1, WaitingInductive, PTL

-----------------------------------------------------------------------------
(* What was agreed *)

\* What AgreementStands says of one reservation.
Abides(r) ==
  /\ status'[r] # status[r] => <<status[r], status'[r]>> \in Lifecycle
  /\ lines'[r] = lines[r] /\ origin'[r] = origin[r]
  /\ status[r] \notin {"PENDING", "CONFIRMED", "PREPARING"} =>
       Held(r)' = Held(r) \/ status'[r] = "CANCELLED"
  /\ status[r] \notin Reschedulable => window'[r] = window[r]

\* A reservation stands if its row and its units are left alone.
LEMMA LeftAlone ==
  ASSUME NEW r \in Reservation, status'[r] = status[r], window'[r] = window[r],
         lines'[r] = lines[r], origin'[r] = origin[r], custody'[r] = custody[r]
  PROVE  Abides(r)
BY DEF Abides, Held

\* Handing over a reservation's units keeps them, unless they are released.
LEMMA HandOverKeeps ==
  ASSUME TypeOK, NEW r \in Reservation, NEW to \in Custody \ {"FREE"}, HandOver(r, to)
  PROVE  Held(r)' = Held(r)
BY DEF HandOver, Held, TypeOK

\* An operation on one reservation takes it one passage further.
LEMMA OneStepStands ==
  ASSUME TypeOK, NEW s \in Reservation, OneStep(s), NEW r \in Reservation
  PROVE  Abides(r)
<1>1. UNCHANGED <<window, lines, origin>>
  BY OneStepLeaves
<1>2. CASE r # s
  BY <1>1, <1>2, OneStepLeaves, OneStepReleases, LeftAlone DEF TypeOK
<1>3. CASE r = s
  <2>1. CASE Confirm(r) \/ Prepare(r) \/ MarkReadyWithInventory(r) \/ CompleteAfterReturn(r)
    <3>1. Held(r)' = Held(r)
      BY <2>1 DEF Confirm, Prepare, Transition, MarkReadyWithInventory, CompleteAfterReturn, Held
    <3>2. <<status[r], status'[r]>> \in Lifecycle
      BY <2>1 DEF Confirm, Prepare, Transition, MarkReadyWithInventory, CompleteAfterReturn,
                  Lifecycle, TypeOK
    <3> QED BY <1>1, <3>1, <3>2 DEF Abides
  <2>2. CASE CheckOutWithAssets(r)
    <3>1. Held(r)' = Held(r)
      BY <2>2, HandOverKeeps DEF CheckOutWithAssets, Custody
    <3>2. <<status[r], status'[r]>> \in Lifecycle
      BY <2>2 DEF CheckOutWithAssets, Lifecycle, TypeOK
    <3> QED BY <1>1, <3>1, <3>2 DEF Abides
  <2>3. ASSUME NEW inspection \in [Held(r) -> Condition], ReturnWithInspection(r, inspection)
        PROVE  Abides(r)
    <3>1. Held(r)' = Held(r)
      BY <2>3, HandOverKeeps DEF ReturnWithInspection, Custody
    <3>2. <<status[r], status'[r]>> \in Lifecycle
      BY <2>3 DEF ReturnWithInspection, Lifecycle, TypeOK
    <3> QED BY <1>1, <3>1, <3>2 DEF Abides
  <2>4. CASE CancelAndRelease(r)
    <3>1. <<status[r], status'[r]>> \in Lifecycle /\ status'[r] = "CANCELLED"
      BY <2>4 DEF CancelAndRelease, Lifecycle, TypeOK
    <3> QED BY <1>1, <3>1 DEF Abides
  <2>5. ASSUME NEW a \in Asset, UnassignAsset(r, a) PROVE Abides(r)
    BY <1>1, <2>5 DEF UnassignAsset, Abides
  <2> QED BY <1>3, <2>1, <2>2, <2>3, <2>4, <2>5 DEF OneStep
<1> QED BY <1>2, <1>3

\* A transaction that commits has locked the reservation it writes, which is
\* therefore still new, still reschedulable or still in preparation.
LEMMA CommitStands ==
  ASSUME IInv, GrantsStand, NEW t \in Txn, Commits(t), NEW r \in Reservation, status[r] # "NONE"
  PROVE  Abides(r)
<1> USE DEF IInv
<1>1. CASE CommitInsert(t)
  <2>1. tx[t].res # r
    BY <1>1 DEF CommitInsert, InsertsFresh
  <2> QED BY <1>1, <2>1, LeftAlone DEF CommitInsert, TypeOK
<1>2. CASE CommitReschedule(t)
  <2>1. status[tx[t].res] \in Reschedulable
    BY <1>2 DEF CommitReschedule, GrantsStand
  <2>2. UNCHANGED <<status, lines, origin, custody>> /\ (r # tx[t].res => window'[r] = window[r])
    BY <1>2 DEF CommitReschedule, TypeOK
  <2>3. Held(r)' = Held(r)
    BY <2>2 DEF Held
  <2> QED BY <2>1, <2>2, <2>3 DEF Abides
<1>3. CASE CommitAssign(t)
  <2>1. status[tx[t].res] = "PREPARING"
    BY <1>3 DEF CommitAssign, AssignReady
  <2>2. /\ UNCHANGED <<status, window, lines, origin>>
        /\ r # tx[t].res => custody'[r] = custody[r]
    BY <1>3 DEF CommitAssign, TypeOK
  <2>3. CASE r = tx[t].res
    BY <2>1, <2>2, <2>3 DEF Abides
  <2>4. CASE r # tx[t].res
    BY <2>2, <2>4, LeftAlone
  <2> QED BY <2>3, <2>4
<1>4. CASE CommitUpdateAsset(t)
  BY <1>4, LeftAlone DEF CommitUpdateAsset
<1> QED BY <1>1, <1>2, <1>3, <1>4 DEF Commits

\* AgreementStands: no request that began before takes a reservation back, adds
\* or removes a unit after READY, or moves a reservation whose units are out.
THEOREM AgreementsStand == Spec => AgreementStands
<1> DEFINE A == \A r \in Reservation : status[r] # "NONE" => Abides(r)
<1>1. IInv /\ WaitingInv /\ [Next]_vars => [A]_vars
  <2> SUFFICES ASSUME IInv, WaitingInv, [Next]_vars, NEW r \in Reservation, status[r] # "NONE"
               PROVE  Abides(r)
    OBVIOUS
  <2>1. ASSUME NEW t \in Txn, Begins(t) \/ Continues(t) \/ Abort(t) PROVE Abides(r)
    <3>1. UNCHANGED tables
      BY <2>1, BeginsTables, ContinuesLeaves DEF IInv, GoesOn, Rollback, Abort
    <3> QED BY <3>1, LeftAlone DEF tables
  <2>2. ASSUME NEW t \in Txn, Commits(t) PROVE Abides(r)
    BY <2>2, CommitStands DEF WaitingInv
  <2>3. ASSUME NEW s \in Reservation, OneStep(s) PROVE Abides(r)
    BY <2>3, OneStepStands DEF IInv
  <2>4. ASSUME NEW a \in Asset, NEW s \in NewUnit, CreateAsset(a, s) PROVE Abides(r)
    BY <2>4, CreateAssetLeaves, LeftAlone
  <2>5. CASE UNCHANGED vars
    BY <2>5, LeftAlone DEF vars, tables
  <2> QED BY <2>1, <2>2, <2>3, <2>4, <2>5, Steps
<1>2. Spec => [][A]_vars
  BY <1>1, Inductive, WaitingInductive, PTL DEF Spec
<1> QED BY <1>2 DEF AgreementStands, Abides
===============================================================================
