---------------------------- MODULE Rental_proofs ----------------------------
(***************************************************************************)
(* Proofs about Rental for every number of reservations, units, quotes and *)
(* connections.  One lemma per conjunct of IInv shows that a step keeps    *)
(* it; the theorems follow.                                                *)
(***************************************************************************)
EXTENDS Rental, FiniteSetTheorems, TLAPS

\* An idle connection.
LEMMA FieldsOfIdle ==
  /\ Idle \in Transaction
  /\ Idle.op = "idle" /\ Idle.pc = "idle" /\ Idle.res = None
  /\ Shape(Idle)
BY DEF Idle, Transaction, Shape, Granting

\* The empty tables satisfy the invariant.
LEMMA InitIInv == Init => IInv
<1> SUFFICES ASSUME Init PROVE IInv
  OBVIOUS
<1>1. TypeOK
  BY FieldsOfIdle, ConstantsAssumption DEF Init, TypeOK, Status, Custody, PhysicalStatus
<1>2. Shapes
  BY FieldsOfIdle DEF Init, Shapes
<1>3. LocksHeld /\ InsertsFresh /\ QuoteFresh /\ AssignReady
  BY FieldsOfIdle DEF Init, LocksHeld, HoldsLocks, InsertsFresh, QuoteFresh, AssignReady
<1>4. RoomLeft /\ NeverTooMany /\ CompleteFromReady
  BY FieldsOfIdle DEF Init, RoomLeft, NeverTooMany, CompleteFromReady
<1>5. CustodyMatchesStatus
  BY DEF Init, CustodyMatchesStatus, CustodyOf
<1>6. OneReservationPerQuote /\ UnitExclusiveUnlessMoved
  BY DEF Init, OneReservationPerQuote, UnitExclusiveUnlessMoved, Clash
<1> QED
  BY <1>1, <1>2, <1>3, <1>4, <1>5, <1>6 DEF IInv

-----------------------------------------------------------------------------
(* Which actions can disturb what. *)

\* Only an INSERT sets the quote a reservation comes from.
LEMMA OriginFrame ==
  [Next]_vars => UNCHANGED origin \/ \E t \in Txn : CommitInsert(t)
BY DEF Next, vars, tables, BookingNext, BookingStep, WarehouseNext,
       WarehouseStep, InventoryNext, BeginCreate, BeginConvert, BeginReschedule,
       LockResource, CheckResource, CheckUnits, CommitReschedule, Confirm,
       Prepare, Transition, BeginAssign, LockUnit, CommitAssign, UnassignAsset,
       MarkReadyWithInventory, CheckOutWithAssets, ReturnWithInspection,
       CompleteAfterReturn, CancelAndRelease, CreateAsset, BeginUpdateAsset,
       CommitUpdateAsset, Abort, Rollback

-----------------------------------------------------------------------------
(* Types *)

\* The end of a transaction keeps the types.
LEMMA FinishTypes ==
  ASSUME TypeOK, NEW t \in Txn, Finish(t)
  PROVE  /\ holder' \in [Lockable -> Txn \cup {None}]
         /\ tx' \in [Txn -> Transaction]
BY FieldsOfIdle DEF TypeOK, Finish

\* So does an error return.
LEMMA RollbackTypes ==
  ASSUME TypeOK, NEW t \in Txn, Rollback(t)
  PROVE  TypeOK'
BY FinishTypes DEF TypeOK, Rollback, tables

\* A connection starts a transaction record.
LEMMA StartTypes ==
  ASSUME TypeOK, NEW t \in Txn, NEW x \in Transaction, Start(t, x)
  PROVE  tx' \in [Txn -> Transaction]
BY DEF TypeOK, Start

\* A lock is held by a connection.
LEMMA AcquireTypes ==
  ASSUME TypeOK, NEW t \in Txn, NEW x, Acquire(t, x)
  PROVE  holder' \in [Lockable -> Txn \cup {None}]
BY DEF TypeOK, Acquire

\* A transaction that goes on is a transaction record.
LEMMA PcTypes ==
  ASSUME TypeOK, NEW t \in Txn,
         NEW pc \in {"lock", "check", "exact", "unit", "commit"},
         NEW todo \in SUBSET Resource, NEW keys \in SUBSET LockKey
  PROVE  /\ [tx EXCEPT ![t].pc = pc] \in [Txn -> Transaction]
         /\ [tx EXCEPT ![t].pc = pc, ![t].todo = todo] \in [Txn -> Transaction]
         /\ [tx EXCEPT ![t].pc = pc, ![t].keys = keys] \in [Txn -> Transaction]
<1>1. tx \in [Txn -> Transaction]
  BY DEF TypeOK
<1>2. \A x \in Transaction : [x EXCEPT !.pc = pc] \in Transaction
  BY DEF Transaction
<1>3. \A x \in Transaction : [x EXCEPT !.todo = todo] \in Transaction
  BY DEF Transaction
<1>4. \A x \in Transaction : [x EXCEPT !.keys = keys] \in Transaction
  BY DEF Transaction
<1>5. [tx EXCEPT ![t].pc = pc] \in [Txn -> Transaction]
  BY <1>1, <1>2
<1> QED
  BY <1>1, <1>3, <1>4, <1>5

\* What is still to do are keys and resources.
LEMMA TodoType ==
  ASSUME TypeOK, NEW t \in Txn
  PROVE  tx[t].todo \in SUBSET Resource /\ tx[t].keys \in SUBSET LockKey
BY DEF TypeOK, Transaction

\* Every grant is a transaction record, with the fields it was given.
LEMMA GrantTypes ==
  ASSUME NEW op \in {"create", "convert", "reschedule"}, NEW r \in Reservation,
         NEW w \in Window, NEW order \in [Resource -> Nat],
         NEW spell \in [Resource -> LockKey]
  PROVE  Grant(op, r, w, order, spell) \in Transaction
<1>1. {spell[k] : k \in Wanted(order)} \in SUBSET LockKey
  BY DEF Wanted
<1>2. Wanted(order) \in SUBSET Resource
  BY DEF Wanted
<1> QED
  BY <1>1, <1>2 DEF Grant, Transaction, Idle

\* The fields of a grant as it begins.
LEMMA GrantFields ==
  ASSUME NEW op, NEW r, NEW w, NEW order, NEW spell
  PROVE  LET x == Grant(op, r, w, order, spell)
         IN /\ x.op = op /\ x.pc = "lock" /\ x.res = r /\ x.win = w
            /\ x.order = order /\ x.quote = None
BY DEF Grant, Idle

\* Every step keeps the types.
LEMMA TypeStep ==
  ASSUME TypeOK, Shapes, [Next]_vars
  PROVE  TypeOK'
<1> USE DEF tables
<1>1. ASSUME NEW t \in Txn, NEW r \in Reservation, NEW w \in Window,
             NEW order \in Order, NEW spell \in Spelling,
             BeginCreate(t, r, w, order, spell)
      PROVE  TypeOK'
  <2>1. Grant("create", r, w, order, spell) \in Transaction
    BY GrantTypes, ConstantsAssumption
  <2> QED
    BY <1>1, <2>1, StartTypes DEF BeginCreate, TypeOK
<1>2. ASSUME NEW t \in Txn, NEW q \in Quote, NEW r \in Reservation,
             BeginConvert(t, q, r)
      PROVE  TypeOK'
  <2>1. Convert(q, r) \in Transaction
    <3>1. /\ QuoteWindow[q] \in Window /\ QuoteOrder[q] \in [Resource -> Nat]
          /\ KeyOf \in [Resource -> LockKey]
      BY ConstantsAssumption
    <3>2. Grant("convert", r, QuoteWindow[q], QuoteOrder[q], KeyOf) \in Transaction
      BY <3>1, GrantTypes
    <3> QED
      BY <3>2 DEF Convert, Transaction
  <2> QED
    BY <1>2, <2>1, StartTypes, AcquireTypes DEF BeginConvert, TypeOK
<1>3. ASSUME NEW t \in Txn, NEW r \in Reservation, NEW w \in Window,
             BeginReschedule(t, r, w)
      PROVE  TypeOK'
  <2>1. Grant("reschedule", r, w, lines[r], KeyOf) \in Transaction
    BY GrantTypes, ConstantsAssumption DEF TypeOK
  <2> QED
    BY <1>3, <2>1, StartTypes, AcquireTypes DEF BeginReschedule, TypeOK
<1>4. ASSUME NEW t \in Txn, LockResource(t) PROVE TypeOK'
  <2> DEFINE x == Min(tx[t].keys)
             pc == IF tx[t].keys = {x} THEN "check" ELSE "lock"
             keys == tx[t].keys \ {x}
  <2>1. tx' = [tx EXCEPT ![t].pc = pc, ![t].keys = keys]
    BY <1>4 DEF LockResource, LockNext, TypeOK, Transaction
  <2>2. pc \in {"lock", "check"} /\ keys \in SUBSET LockKey
    BY TodoType
  <2>3. tx' \in [Txn -> Transaction]
    <3> HIDE DEF x, pc, keys
    <3> QED
      BY <2>1, <2>2, PcTypes
  <2> QED
    BY <1>4, <2>3, AcquireTypes DEF LockResource, TypeOK
<1>5. ASSUME NEW t \in Txn, CheckResource(t) PROVE TypeOK'
  <2>1. CASE Rollback(t)
    BY <2>1, RollbackTypes
  <2>2. CASE ~Rollback(t)
    <3>1. PICK k \in tx[t].todo :
            /\ tx' = [tx EXCEPT
                 ![t].pc = IF tx[t].todo # {k} THEN "check"
                           ELSE IF tx[t].op = "reschedule" THEN "exact"
                           ELSE "commit",
                 ![t].todo = @ \ {k}]
            /\ UNCHANGED <<tables, holder>>
      BY <1>5, <2>2 DEF CheckResource
    <3> DEFINE pc == IF tx[t].todo # {k} THEN "check"
                     ELSE IF tx[t].op = "reschedule" THEN "exact"
                     ELSE "commit"
               todo == tx[t].todo \ {k}
    <3>2. pc \in {"check", "exact", "commit"} /\ todo \in SUBSET Resource
      BY TodoType
    <3>3. tx' = [tx EXCEPT ![t].pc = pc, ![t].todo = todo]
      BY <3>1 DEF TypeOK, Transaction
    <3>4. tx' \in [Txn -> Transaction]
      <4> HIDE DEF pc, todo
      <4> QED
        BY <3>2, <3>3, PcTypes
    <3> QED
      BY <3>1, <3>4 DEF TypeOK
  <2> QED
    BY <2>1, <2>2
<1>6. ASSUME NEW t \in Txn, CheckUnits(t) PROVE TypeOK'
  <2>1. CASE Rollback(t)
    BY <2>1, RollbackTypes
  <2>2. CASE ~Rollback(t)
    <3>1. tx' = [tx EXCEPT ![t].pc = "commit"] /\ UNCHANGED <<tables, holder>>
      BY <1>6, <2>2 DEF CheckUnits
    <3>2. tx' \in [Txn -> Transaction]
      BY <3>1, PcTypes
    <3> QED
      BY <3>1, <3>2 DEF TypeOK
  <2> QED
    BY <2>1, <2>2
<1>7. ASSUME NEW t \in Txn, CommitInsert(t) PROVE TypeOK'
  <2>1. /\ tx[t].win \in Window /\ tx[t].order \in [Resource -> Nat]
        /\ tx[t].quote \in Quote \cup {None}
    BY <1>7 DEF CommitInsert, Shapes, Shape, Granting, TypeOK, Transaction
  <2> QED
    BY <1>7, <2>1, FinishTypes DEF CommitInsert, TypeOK, Status, Blocking
<1>8. ASSUME NEW t \in Txn, CommitReschedule(t) PROVE TypeOK'
  <2>1. tx[t].win \in Window /\ tx[t].res \in Reservation
    BY <1>8 DEF CommitReschedule, Shapes, Shape, Granting
  <2> QED
    BY <1>8, <2>1, FinishTypes DEF CommitReschedule, TypeOK
<1>9. ASSUME NEW r \in Reservation, Confirm(r) \/ Prepare(r) PROVE TypeOK'
  BY <1>9 DEF Confirm, Prepare, Transition, TypeOK, Status, Blocking
<1>10. ASSUME NEW t \in Txn, NEW r \in Reservation, NEW a \in Asset,
              BeginAssign(t, r, a)
       PROVE  TypeOK'
  <2>1. [Idle EXCEPT !.op = "assign", !.pc = "unit", !.res = r, !.asset = a]
          \in Transaction
    BY DEF Transaction, Idle
  <2> QED
    BY <1>10, <2>1, StartTypes, AcquireTypes DEF BeginAssign, TypeOK
<1>11. ASSUME NEW t \in Txn, LockUnit(t) PROVE TypeOK'
  <2>1. CASE Rollback(t)
    BY <2>1, RollbackTypes
  <2>2. CASE ~Rollback(t)
    <3>1. tx' = [tx EXCEPT ![t].pc = "commit"]
      BY <1>11, <2>2 DEF LockUnit
    <3>2. [tx EXCEPT ![t].pc = "commit"] \in [Txn -> Transaction]
      BY PcTypes
    <3> QED
      BY <1>11, <2>2, <3>1, <3>2, AcquireTypes DEF LockUnit, TypeOK
  <2> QED
    BY <2>1, <2>2
<1>12. ASSUME NEW t \in Txn, CommitAssign(t) PROVE TypeOK'
  BY <1>12, FinishTypes DEF CommitAssign, TypeOK, Custody
<1>13. ASSUME NEW r \in Reservation, NEW a \in Asset, UnassignAsset(r, a)
       PROVE  TypeOK'
  BY <1>13 DEF UnassignAsset, TypeOK, Custody
<1>14. ASSUME NEW r \in Reservation,
              MarkReadyWithInventory(r) \/ CompleteAfterReturn(r)
       PROVE  TypeOK'
  BY <1>14 DEF MarkReadyWithInventory, CompleteAfterReturn, TypeOK, Status, Blocking
<1>15. ASSUME NEW r \in Reservation, CheckOutWithAssets(r) \/ CancelAndRelease(r)
       PROVE  TypeOK'
  BY <1>15 DEF CheckOutWithAssets, CancelAndRelease, HandOver, TypeOK, Custody,
               Status, Blocking
<1>16. ASSUME NEW r \in Reservation, NEW inspection \in [Held(r) -> Condition],
              ReturnWithInspection(r, inspection)
       PROVE  TypeOK'
  <2>1. \A c : c \notin {"MAINTENANCE_REQUIRED", "DAMAGED", "LOST"} =>
                PhysicalStatusForReturn(c) = "AVAILABLE"
    BY Zenon DEF PhysicalStatusForReturn
  <2>2. /\ PhysicalStatusForReturn("MAINTENANCE_REQUIRED") = "MAINTENANCE"
        /\ PhysicalStatusForReturn("DAMAGED") = "DAMAGED"
        /\ PhysicalStatusForReturn("LOST") = "LOST"
    BY Zenon DEF PhysicalStatusForReturn
  <2>3. \A c : PhysicalStatusForReturn(c) \in PhysicalStatus
    BY <2>1, <2>2 DEF PhysicalStatus
  <2> QED
    BY <1>16, <2>3 DEF ReturnWithInspection, HandOver, TypeOK, Custody, Status
<1>17. ASSUME NEW a \in Asset, NEW s \in NewUnit, CreateAsset(a, s)
       PROVE  TypeOK'
  BY <1>17, PatchAssumption DEF CreateAsset, TypeOK
<1>18. ASSUME NEW t \in Txn, NEW a \in Asset, NEW p \in Patch,
              BeginUpdateAsset(t, a, p)
       PROVE  TypeOK'
  <2>1. [Idle EXCEPT !.op = "patch", !.pc = "commit", !.asset = a,
           !.value = IF p = None THEN physical[a] ELSE p] \in Transaction
    BY <1>18, PatchAssumption DEF BeginUpdateAsset, Transaction, Idle, TypeOK
  <2> QED
    BY <1>18, <2>1, StartTypes DEF BeginUpdateAsset, TypeOK
<1>19. ASSUME NEW t \in Txn, CommitUpdateAsset(t) PROVE TypeOK'
  <2>1. tx[t].value \in PhysicalStatus
    BY <1>19 DEF CommitUpdateAsset, Shapes, Shape
  <2> QED
    BY <1>19, <2>1, FinishTypes DEF CommitUpdateAsset, TypeOK
<1>20. ASSUME NEW t \in Txn, Abort(t) PROVE TypeOK'
  BY <1>20, RollbackTypes DEF Abort
<1>21. CASE UNCHANGED vars
  BY <1>21 DEF vars, TypeOK
<1> QED
  BY <1>1, <1>2, <1>3, <1>4, <1>5, <1>6, <1>7, <1>8, <1>9, <1>10, <1>11, <1>12,
     <1>13, <1>14, <1>15, <1>16, <1>17, <1>18, <1>19, <1>20, <1>21
  DEF Next, BookingNext, BookingStep, WarehouseNext, WarehouseStep, InventoryNext

-----------------------------------------------------------------------------
(* One actor at a time: a step of one connection leaves the transactions   *)
(* and the locks of the others alone.                                      *)

\* The transactions and locks of every connection but t are as they were.
Untouched(t) ==
  \A u \in Txn \ {t} :
    /\ tx'[u] = tx[u]
    /\ \A x \in Lockable : holder[x] = u => holder'[x] = u

\* A transaction begins.
Begins(t) ==
  \/ \E r \in Reservation, w \in Window, order \in Order, spell \in Spelling :
       BeginCreate(t, r, w, order, spell)
  \/ \E q \in Quote, r \in Reservation : BeginConvert(t, q, r)
  \/ \E r \in Reservation, w \in Window : BeginReschedule(t, r, w)
  \/ \E r \in Reservation, a \in Asset : BeginAssign(t, r, a)
  \/ \E a \in Asset, p \in Patch : BeginUpdateAsset(t, a, p)

\* A transaction goes on to its next statement.
Continues(t) ==
  LockResource(t) \/ CheckResource(t) \/ CheckUnits(t) \/ LockUnit(t)

\* A transaction that took several statements commits.
Commits(t) ==
  CommitInsert(t) \/ CommitReschedule(t) \/ CommitAssign(t) \/ CommitUpdateAsset(t)

\* An operation on one reservation whose reads are all under its locks.
OneStep(r) ==
  \/ Confirm(r) \/ Prepare(r) \/ MarkReadyWithInventory(r)
  \/ CheckOutWithAssets(r)
  \/ \E inspection \in [Held(r) -> Condition] : ReturnWithInspection(r, inspection)
  \/ CompleteAfterReturn(r) \/ CancelAndRelease(r)
  \/ \E a \in Asset : UnassignAsset(r, a)

\* The steps, by what they do to transactions.
LEMMA Steps ==
  ASSUME [Next]_vars
  PROVE  \/ \E t \in Txn : Begins(t) \/ Continues(t) \/ Commits(t) \/ Abort(t)
         \/ \E r \in Reservation : OneStep(r)
         \/ \E a \in Asset, s \in NewUnit : CreateAsset(a, s)
         \/ UNCHANGED vars
BY DEF Next, BookingNext, BookingStep, WarehouseNext, WarehouseStep,
       InventoryNext, Begins, Continues, Commits, OneStep

\* The end of a transaction leaves the other connections alone.
LEMMA FinishLeaves ==
  ASSUME TypeOK, NEW t \in Txn, Finish(t)
  PROVE  tx'[t] = Idle /\ Untouched(t)
BY DEF Finish, Untouched, TypeOK

\* A free lock is taken from nobody.
LEMMA AcquireLeaves ==
  ASSUME TypeOK, NEW t \in Txn, NEW x, Free(x), Acquire(t, x)
  PROVE  /\ x \in Lockable => holder'[x] = t
         /\ \A u \in Txn, y \in Lockable : holder[y] = u => holder'[y] = u
BY ConstantsAssumption DEF TypeOK, Free, Acquire

\* A transaction that begins leaves the others alone.
LEMMA BeginsLeaves ==
  ASSUME TypeOK, NEW t \in Txn, Begins(t)
  PROVE  Untouched(t)
<1>1. tx' = [tx EXCEPT ![t] = tx'[t]]
  BY DEF Begins, BeginCreate, BeginConvert, BeginReschedule, BeginAssign,
         BeginUpdateAsset, Start, TypeOK
<1>2. UNCHANGED holder \/ \E x : Free(x) /\ Acquire(t, x)
  BY DEF Begins, BeginCreate, BeginConvert, BeginReschedule, BeginAssign,
         BeginUpdateAsset
<1> QED
  BY <1>1, <1>2, AcquireLeaves DEF Untouched, TypeOK

\* A transaction that goes on changes its pc and todo, and may take a lock.
GoesOn(t) ==
  /\ Untouched(t)
  /\ \A x \in Lockable : holder[x] = t => holder'[x] = t
  /\ tx'[t].op = tx[t].op /\ tx'[t].res = tx[t].res
  /\ tx'[t].asset = tx[t].asset /\ tx'[t].win = tx[t].win
  /\ tx'[t].order = tx[t].order /\ tx'[t].quote = tx[t].quote
  /\ tx'[t].value = tx[t].value
  /\ UNCHANGED tables

\* A change of pc, keys or todo, perhaps with a lock, is going on.
LEMMA PcChange ==
  ASSUME TypeOK, NEW t \in Txn, NEW pc, NEW todo, UNCHANGED tables,
         \/ tx' = [tx EXCEPT ![t].pc = pc, ![t].todo = todo]
         \/ tx' = [tx EXCEPT ![t].pc = pc, ![t].keys = todo]
         \/ tx' = [tx EXCEPT ![t].pc = pc],
         UNCHANGED holder \/ \E x : Free(x) /\ Acquire(t, x)
  PROVE  GoesOn(t) /\ tx'[t].pc = pc
<1>1. tx[t] \in Transaction
  BY DEF TypeOK
<1>2. /\ tx'[t].pc = pc
      /\ tx'[t].op = tx[t].op /\ tx'[t].res = tx[t].res
      /\ tx'[t].asset = tx[t].asset /\ tx'[t].win = tx[t].win
      /\ tx'[t].order = tx[t].order /\ tx'[t].quote = tx[t].quote
      /\ tx'[t].value = tx[t].value
  BY <1>1 DEF TypeOK, Transaction
<1>3. \A u \in Txn, x \in Lockable : holder[x] = u => holder'[x] = u
  BY AcquireLeaves
<1>4. \A u \in Txn \ {t} : tx'[u] = tx[u]
  BY DEF TypeOK
<1> QED
  BY <1>2, <1>3, <1>4 DEF GoesOn, Untouched

\* A statement that is not the last fails or goes on.
LEMMA ContinuesLeaves ==
  ASSUME TypeOK, NEW t \in Txn, Continues(t)
  PROVE  Rollback(t) \/ GoesOn(t)
<1>1. CASE LockResource(t)
  <2>1. \E pc, todo : tx' = [tx EXCEPT ![t].pc = pc, ![t].keys = todo]
    BY <1>1 DEF LockResource, LockNext, TypeOK, Transaction
  <2>2. \E x : Free(x) /\ Acquire(t, x)
    BY <1>1 DEF LockResource
  <2> QED
    BY <1>1, <2>1, <2>2, PcChange DEF LockResource
<1>2. CASE CheckResource(t)
  <2>1. Rollback(t) \/ /\ \E pc, todo : tx' = [tx EXCEPT ![t].pc = pc, ![t].todo = todo]
                       /\ UNCHANGED <<tables, holder>>
    BY <1>2 DEF CheckResource, TypeOK, Transaction
  <2> QED
    BY <2>1, PcChange
<1>3. CASE CheckUnits(t)
  <2>1. Rollback(t) \/ /\ tx' = [tx EXCEPT ![t].pc = "commit"]
                       /\ UNCHANGED <<tables, holder>>
    BY <1>3 DEF CheckUnits
  <2> QED
    BY <2>1, PcChange
<1>4. CASE LockUnit(t)
  <2>1. Rollback(t) \/ /\ tx' = [tx EXCEPT ![t].pc = "commit"]
                       /\ \E x : Free(x) /\ Acquire(t, x)
                       /\ UNCHANGED tables
    BY <1>4 DEF LockUnit
  <2> QED
    BY <2>1, PcChange
<1> QED
  BY <1>1, <1>2, <1>3, <1>4 DEF Continues

\* COMMIT and ROLLBACK end the transaction and leave the others alone.
LEMMA CommitsLeaves ==
  ASSUME TypeOK, NEW t \in Txn, Commits(t) \/ Abort(t)
  PROVE  tx'[t] = Idle /\ Untouched(t)
BY FinishLeaves DEF Commits, CommitInsert, CommitReschedule, CommitAssign,
                    CommitUpdateAsset, Abort, Rollback

\* A one-step operation writes the status of a reservation nobody has locked.
LEMMA OneStepLeaves ==
  ASSUME NEW r \in Reservation, OneStep(r)
  PROVE  /\ UNCHANGED <<tx, holder, window, lines, origin, moved>>
         /\ Free(r)
         /\ status[r] # "NONE"
         /\ \/ UNCHANGED status
            \/ \E s \in Status : status' = [status EXCEPT ![r] = s]
BY DEF OneStep, Confirm, Prepare, Transition, MarkReadyWithInventory,
       CheckOutWithAssets, ReturnWithInspection, CompleteAfterReturn,
       CancelAndRelease, UnassignAsset, CanLock, Status, Blocking

\* What begins has written nothing yet.
LEMMA BeginsTables ==
  ASSUME NEW t \in Txn, Begins(t)
  PROVE  UNCHANGED tables /\ tx[t] = Idle
BY DEF Begins, BeginCreate, BeginConvert, BeginReschedule, BeginAssign,
       BeginUpdateAsset, tables

\* How a transaction starts: its fields, the lock of the row it began with,
\* and what it has seen.
LEMMA BeginsWell ==
  ASSUME TypeOK, NEW t \in Txn, Begins(t)
  PROVE  /\ Shape(tx'[t])
         /\ HoldsLocks(t)'
         /\ tx'[t].op \in {"create", "convert"} => Unused(tx'[t].res)
         /\ tx'[t].op = "convert" => \A s \in Reservation : origin[s] # tx'[t].quote
         /\ tx'[t].op = "assign" => tx'[t].pc = "unit" /\ status[tx'[t].res] = "PREPARING"
<1>1. ASSUME NEW r \in Reservation, NEW w \in Window, NEW order \in Order,
             NEW spell \in Spelling, BeginCreate(t, r, w, order, spell)
      PROVE  /\ tx'[t].op = "create" /\ tx'[t].pc = "lock" /\ tx'[t].res = r
             /\ tx'[t].win = w /\ tx'[t].order = order /\ tx'[t].quote = None
  BY <1>1, GrantFields DEF BeginCreate, Start, TypeOK
<1>2. ASSUME NEW q \in Quote, NEW r \in Reservation, BeginConvert(t, q, r)
      PROVE  /\ tx'[t].op = "convert" /\ tx'[t].pc = "lock" /\ tx'[t].res = r
             /\ tx'[t].win = QuoteWindow[q] /\ tx'[t].order = QuoteOrder[q]
             /\ tx'[t].quote = q /\ holder'[q] = t
  <2>1. tx'[t] = Convert(q, r)
    BY <1>2 DEF BeginConvert, Start, TypeOK
  <2>2. holder'[q] = t
    BY <1>2, AcquireLeaves DEF BeginConvert, Lockable
  <2> QED
    BY <2>1, <2>2 DEF Convert, Grant, Idle
<1>3. ASSUME NEW r \in Reservation, NEW w \in Window, BeginReschedule(t, r, w)
      PROVE  /\ tx'[t].op = "reschedule" /\ tx'[t].pc = "lock" /\ tx'[t].res = r
             /\ tx'[t].win = w /\ tx'[t].order = lines[r] /\ holder'[r] = t
  BY <1>3, AcquireLeaves, GrantFields DEF BeginReschedule, Start, TypeOK, Lockable
<1>4. ASSUME NEW r \in Reservation, NEW a \in Asset, BeginAssign(t, r, a)
      PROVE  /\ tx'[t].op = "assign" /\ tx'[t].pc = "unit" /\ tx'[t].res = r
             /\ tx'[t].asset = a /\ holder'[r] = t
  BY <1>4, AcquireLeaves DEF BeginAssign, Start, TypeOK, Idle, Lockable
<1>5. ASSUME NEW a \in Asset, NEW p \in Patch, BeginUpdateAsset(t, a, p)
      PROVE  /\ tx'[t].op = "patch" /\ tx'[t].pc = "commit" /\ tx'[t].asset = a
             /\ tx'[t].value \in PhysicalStatus
  BY <1>5, PatchAssumption DEF BeginUpdateAsset, Start, TypeOK, Idle
<1>6. ASSUME NEW r \in Reservation, NEW w \in Window, NEW order \in Order,
             NEW spell \in Spelling, BeginCreate(t, r, w, order, spell)
      PROVE  Shape(tx'[t]) /\ HoldsLocks(t)' /\ Unused(r)
  BY <1>6, <1>1, ConstantsAssumption DEF Shape, Granting, HoldsLocks, BeginCreate
<1>7. ASSUME NEW q \in Quote, NEW r \in Reservation, BeginConvert(t, q, r)
      PROVE  /\ Shape(tx'[t]) /\ HoldsLocks(t)' /\ Unused(r)
             /\ \A s \in Reservation : origin[s] # q
  <2>1. QuoteWindow[q] \in Window /\ QuoteOrder[q] \in [Resource -> Nat]
    BY ConstantsAssumption
  <2>2. Shape(tx'[t])
    BY <1>7, <1>2, <2>1 DEF Shape, Granting
  <2>3. HoldsLocks(t)'
    BY <1>7, <1>2 DEF HoldsLocks
  <2> QED
    BY <1>7, <2>2, <2>3 DEF BeginConvert
<1>8. ASSUME NEW r \in Reservation, NEW w \in Window, BeginReschedule(t, r, w)
      PROVE  Shape(tx'[t]) /\ HoldsLocks(t)'
  <2>1. lines[r] \in [Resource -> Nat]
    BY DEF TypeOK
  <2> QED
    BY <1>8, <1>3, <2>1 DEF Shape, Granting, HoldsLocks
<1>9. ASSUME NEW r \in Reservation, NEW a \in Asset, BeginAssign(t, r, a)
      PROVE  Shape(tx'[t]) /\ HoldsLocks(t)' /\ status[r] = "PREPARING"
  BY <1>9, <1>4 DEF Shape, Granting, HoldsLocks, BeginAssign
<1>10. ASSUME NEW a \in Asset, NEW p \in Patch, BeginUpdateAsset(t, a, p)
       PROVE  Shape(tx'[t]) /\ HoldsLocks(t)'
  BY <1>10, <1>5 DEF Shape, Granting, HoldsLocks
<1> QED
  BY <1>1, <1>2, <1>3, <1>4, <1>5, <1>6, <1>7, <1>8, <1>9, <1>10 DEF Begins

\* Where a transaction that goes on stands, and what an assignment knows once
\* it has locked its unit.
LEMMA ContinuesWell ==
  ASSUME TypeOK, Shapes, NEW t \in Txn, Continues(t), ~Rollback(t)
  PROVE  /\ GoesOn(t)
         /\ \/ /\ tx[t].op \in Granting
               /\ tx'[t].pc \in {"lock", "check", "exact", "commit"}
               /\ tx'[t].pc = "exact" => tx[t].op = "reschedule"
            \/ /\ tx[t].op = "assign" /\ LockUnit(t)
               /\ tx'[t].pc = "commit" /\ holder'[tx[t].asset] = t
<1>1. GoesOn(t)
  BY ContinuesLeaves
<1>2. Shape(tx[t]) /\ tx[t] \in Transaction
  BY DEF Shapes, TypeOK
<1>3. CASE LockResource(t)
  <2>1. tx'[t].pc \in {"lock", "check"}
    BY <1>2, <1>3 DEF LockResource, LockNext, TypeOK, Transaction
  <2>2. tx[t].op \in Granting
    BY <1>2, <1>3 DEF LockResource, Shape, Granting, Transaction
  <2> QED
    BY <1>1, <2>1, <2>2
<1>4. CASE CheckResource(t)
  <2>1. /\ tx'[t].pc \in {"check", "exact", "commit"}
        /\ tx'[t].pc = "exact" => tx[t].op = "reschedule"
    BY <1>2, <1>4 DEF CheckResource, TypeOK, Transaction
  <2>2. tx[t].op \in Granting
    BY <1>2, <1>4 DEF CheckResource, Shape, Granting, Transaction
  <2> QED
    BY <1>1, <2>1, <2>2
<1>5. CASE CheckUnits(t)
  <2>1. tx'[t].pc = "commit"
    BY <1>2, <1>5 DEF CheckUnits, TypeOK, Transaction
  <2>2. tx[t].op \in Granting
    BY <1>2, <1>5 DEF CheckUnits, Shape, Granting, Transaction
  <2> QED
    BY <1>1, <2>1, <2>2
<1>6. CASE LockUnit(t)
  <2>1. tx'[t].pc = "commit"
    BY <1>2, <1>6 DEF LockUnit, TypeOK, Transaction
  <2>2. tx[t].op = "assign" /\ tx[t].asset \in Lockable
    BY <1>2, <1>6 DEF LockUnit, Shape, Granting, Transaction, Lockable
  <2>3. holder'[tx[t].asset] = t
    BY <1>6, <2>2, AcquireLeaves DEF LockUnit
  <2> QED
    BY <1>1, <1>6, <2>1, <2>2, <2>3
<1> QED
  BY <1>3, <1>4, <1>5, <1>6 DEF Continues

\* CreateAsset writes the assets table only.
LEMMA CreateAssetLeaves ==
  ASSUME NEW a \in Asset, NEW s \in NewUnit, CreateAsset(a, s)
  PROVE  UNCHANGED <<status, window, lines, origin, moved, custody, holder, tx>>
BY DEF CreateAsset

\* An error return leaves the tables and the other connections alone.
LEMMA RollbackLeaves ==
  ASSUME TypeOK, NEW t \in Txn, Rollback(t)
  PROVE  tx'[t] = Idle /\ Untouched(t) /\ UNCHANGED tables
BY FinishLeaves DEF Rollback

-----------------------------------------------------------------------------
(* One lemma per conjunct of IInv *)

\* Transactions keep the fields their statements use.
LEMMA ShapesStep ==
  ASSUME TypeOK, Shapes, [Next]_vars
  PROVE  Shapes'
<1> SUFFICES ASSUME NEW u \in Txn PROVE Shape(tx'[u])
  BY DEF Shapes
<1>1. Shape(tx[u])
  BY DEF Shapes
<1>2. ASSUME NEW t \in Txn, Begins(t) PROVE Shape(tx'[u])
  BY <1>1, <1>2, BeginsWell, BeginsLeaves DEF Untouched
<1>3. ASSUME NEW t \in Txn, Continues(t) PROVE Shape(tx'[u])
  <2>1. CASE Rollback(t)
    BY <1>1, <2>1, RollbackLeaves, FieldsOfIdle DEF Untouched
  <2>2. CASE ~Rollback(t) /\ u # t
    BY <1>1, <1>3, <2>2, ContinuesWell DEF GoesOn, Untouched
  <2>3. CASE ~Rollback(t) /\ u = t
    <3>1. GoesOn(u)
      BY <1>3, <2>3, ContinuesWell
    <3>2. \/ /\ tx[u].op \in Granting
             /\ tx'[u].pc \in {"lock", "check", "exact", "commit"}
             /\ tx'[u].pc = "exact" => tx[u].op = "reschedule"
          \/ tx[u].op = "assign" /\ tx'[u].pc = "commit"
      BY <1>3, <2>3, ContinuesWell
    <3> QED
      BY <1>1, <3>1, <3>2 DEF GoesOn, Shape, Granting
  <2> QED
    BY <2>1, <2>2, <2>3
<1>4. ASSUME NEW t \in Txn, Commits(t) \/ Abort(t) PROVE Shape(tx'[u])
  BY <1>1, <1>4, CommitsLeaves, FieldsOfIdle DEF Untouched
<1>5. ASSUME UNCHANGED tx PROVE Shape(tx'[u])
  BY <1>1, <1>5
<1> QED
  BY <1>2, <1>3, <1>4, <1>5, Steps, OneStepLeaves, CreateAssetLeaves DEF vars

\* The row locks of a transaction are held until it ends.
LEMMA LocksStep ==
  ASSUME TypeOK, Shapes, LocksHeld, [Next]_vars
  PROVE  LocksHeld'
<1> SUFFICES ASSUME NEW u \in Txn PROVE HoldsLocks(u)'
  BY DEF LocksHeld
<1>1. HoldsLocks(u) /\ Shape(tx[u])
  BY DEF LocksHeld, Shapes
<1>2. /\ tx[u].op \in {"assign", "reschedule"} => tx[u].res \in Lockable
      /\ tx[u].op = "convert" => tx[u].quote \in Lockable
      /\ tx[u].op = "assign" => tx[u].asset \in Lockable
  BY <1>1 DEF Shape, Granting, Lockable
<1>3. ASSUME NEW t \in Txn \ {u}, Untouched(t) PROVE HoldsLocks(u)'
  BY <1>1, <1>2, <1>3 DEF Untouched, HoldsLocks
<1>4. ASSUME Begins(u) PROVE HoldsLocks(u)'
  BY <1>4, BeginsWell
<1>5. ASSUME tx'[u] = Idle PROVE HoldsLocks(u)'
  BY <1>5, FieldsOfIdle DEF HoldsLocks
<1>6. ASSUME Continues(u), ~Rollback(u) PROVE HoldsLocks(u)'
  <2>1. GoesOn(u)
    BY <1>6, ContinuesWell
  <2>2. tx[u].op = "assign" => holder'[tx[u].asset] = u
    BY <1>6, ContinuesWell DEF Granting
  <2> QED
    BY <1>1, <1>2, <2>1, <2>2 DEF GoesOn, HoldsLocks
<1>7. ASSUME UNCHANGED <<tx, holder>> PROVE HoldsLocks(u)'
  BY <1>1, <1>7 DEF HoldsLocks
<1>8. ASSUME NEW t \in Txn, Begins(t) \/ Continues(t) \/ Commits(t) \/ Abort(t)
      PROVE  HoldsLocks(u)'
  <2>1. Untouched(t)
    BY <1>8, BeginsLeaves, ContinuesLeaves, RollbackLeaves, CommitsLeaves DEF GoesOn
  <2>2. CASE t # u
    BY <2>1, <2>2, <1>3
  <2>3. CASE t = u
    BY <1>8, <2>3, <1>4, <1>5, <1>6, RollbackLeaves, CommitsLeaves
  <2> QED
    BY <2>2, <2>3
<1> QED
  BY <1>7, <1>8, Steps, OneStepLeaves, CreateAssetLeaves DEF vars

\* A row being inserted stays absent until its COMMIT.
LEMMA InsertsStep ==
  ASSUME TypeOK, Shapes, InsertsFresh, [Next]_vars
  PROVE  InsertsFresh'
<1> DEFINE Inserts(u) == tx[u].op \in {"create", "convert"}
<1>1. ASSUME NEW t \in Txn, Begins(t) PROVE InsertsFresh'
  <2>1. Untouched(t) /\ UNCHANGED status
    BY <1>1, BeginsLeaves, BeginsTables DEF tables
  <2>2. tx'[t].op \in {"create", "convert"} =>
          status[tx'[t].res] = "NONE" /\ \A u \in Txn : tx[u].res # tx'[t].res
    BY <1>1, BeginsWell DEF Unused
  <2> QED
    BY <2>1, <2>2 DEF Untouched, InsertsFresh
<1>2. ASSUME NEW t \in Txn, GoesOn(t) PROVE InsertsFresh'
  BY <1>2 DEF GoesOn, Untouched, tables, InsertsFresh
<1>3. ASSUME NEW t \in Txn, tx'[t] = Idle, Untouched(t),
             \A u \in Txn \ {t} : Inserts(u) => status'[tx[u].res] = "NONE"
      PROVE  InsertsFresh'
  BY <1>3, FieldsOfIdle DEF Untouched, InsertsFresh
<1>4. ASSUME NEW t \in Txn, Commits(t) \/ Abort(t), NEW u \in Txn \ {t}, Inserts(u)
      PROVE  status'[tx[u].res] = "NONE"
  <2>1. status[tx[u].res] = "NONE"
    BY <1>4 DEF InsertsFresh
  <2>2. CASE CommitInsert(t)
    <3>1. tx[u].res # tx[t].res
      BY <1>4, <2>2 DEF CommitInsert, InsertsFresh
    <3>2. status' = [status EXCEPT ![tx[t].res] = "PENDING"]
      BY <2>2 DEF CommitInsert
    <3>3. tx[u].res \in Reservation
      BY <1>4 DEF Shapes, Shape, Granting
    <3> QED
      BY <2>1, <3>1, <3>2, <3>3 DEF TypeOK
  <2>3. CASE ~CommitInsert(t)
    BY <1>4, <2>1, <2>3 DEF Commits, CommitReschedule, CommitAssign,
      CommitUpdateAsset, Abort, Rollback, tables
  <2> QED
    BY <2>2, <2>3
<1>5. ASSUME NEW t \in Txn, Commits(t) \/ Abort(t) PROVE InsertsFresh'
  BY <1>3, <1>4, <1>5, CommitsLeaves
<1>6. ASSUME NEW t \in Txn, Continues(t) PROVE InsertsFresh'
  <2>1. CASE Rollback(t)
    BY <2>1, <1>3, RollbackLeaves DEF InsertsFresh, tables
  <2> QED
    BY <1>2, <1>6, <2>1, ContinuesLeaves
<1>7. ASSUME NEW r \in Reservation, OneStep(r) PROVE InsertsFresh'
  <2>1. ASSUME NEW u \in Txn, Inserts(u) PROVE status'[tx[u].res] = "NONE"
    <3>1. tx[u].res \in Reservation /\ status[tx[u].res] = "NONE"
      BY <2>1 DEF InsertsFresh, Shapes, Shape, Granting
    <3> QED
      BY <1>7, <3>1, OneStepLeaves DEF TypeOK
  <2> QED
    BY <1>7, <2>1, OneStepLeaves DEF InsertsFresh
<1>8. ASSUME UNCHANGED <<status, tx>> PROVE InsertsFresh'
  BY <1>8 DEF InsertsFresh
<1> HIDE DEF Inserts
<1> QED
  BY <1>1, <1>5, <1>6, <1>7, <1>8, Steps, CreateAssetLeaves DEF vars, tables

\* A quote being converted stays without a reservation: its row is locked.
LEMMA QuoteStep ==
  ASSUME TypeOK, Shapes, LocksHeld, QuoteFresh, [Next]_vars
  PROVE  QuoteFresh'
<1>1. ASSUME NEW t \in Txn, Begins(t) PROVE QuoteFresh'
  <2>1. Untouched(t) /\ UNCHANGED origin
    BY <1>1, BeginsLeaves, BeginsTables DEF tables
  <2>2. tx'[t].op = "convert" => \A s \in Reservation : origin[s] # tx'[t].quote
    BY <1>1, BeginsWell
  <2> QED
    BY <2>1, <2>2 DEF Untouched, QuoteFresh
<1>2. ASSUME NEW t \in Txn, GoesOn(t) PROVE QuoteFresh'
  BY <1>2 DEF GoesOn, Untouched, tables, QuoteFresh
<1>3. ASSUME NEW t \in Txn, tx'[t] = Idle, Untouched(t), UNCHANGED origin
      PROVE  QuoteFresh'
  BY <1>3, FieldsOfIdle DEF Untouched, QuoteFresh
<1>4. ASSUME NEW t \in Txn, CommitInsert(t) PROVE QuoteFresh'
  <2>1. tx'[t] = Idle /\ Untouched(t)
    BY <1>4, CommitsLeaves DEF Commits
  <2>2. tx[t].res \in Reservation /\ tx[t].quote \in Quote \cup {None}
    BY <1>4 DEF CommitInsert, Shapes, Shape, Granting
  <2>3. ASSUME NEW u \in Txn \ {t}, tx[u].op = "convert"
        PROVE  tx[t].quote # tx[u].quote
    <3>1. holder[tx[u].quote] = u /\ tx[u].quote \in Quote
      BY <2>3 DEF LocksHeld, HoldsLocks, Shapes, Shape
    <3>2. CASE tx[t].op = "create"
      BY <3>1, <3>2, ConstantsAssumption DEF Shapes, Shape
    <3>3. CASE tx[t].op = "convert"
      BY <3>1, <3>3 DEF LocksHeld, HoldsLocks
    <3> QED
      BY <1>4, <3>2, <3>3 DEF CommitInsert
  <2>4. origin' = [origin EXCEPT ![tx[t].res] = tx[t].quote]
    BY <1>4 DEF CommitInsert
  <2>5. \A s \in Reservation : origin'[s] = origin[s] \/ origin'[s] = tx[t].quote
    BY <2>2, <2>4 DEF TypeOK
  <2> QED
    BY <2>1, <2>3, <2>5, FieldsOfIdle DEF Untouched, QuoteFresh
<1>5. ASSUME NEW t \in Txn, Commits(t) \/ Abort(t) PROVE QuoteFresh'
  <2>1. CASE CommitInsert(t)
    BY <1>4, <2>1
  <2>2. CASE ~CommitInsert(t)
    BY <1>3, <1>5, <2>2, CommitsLeaves DEF Commits, CommitReschedule, CommitAssign,
      CommitUpdateAsset, Abort, Rollback, tables
  <2> QED
    BY <2>1, <2>2
<1>6. ASSUME NEW t \in Txn, Continues(t) PROVE QuoteFresh'
  BY <1>2, <1>3, <1>6, ContinuesLeaves, RollbackLeaves DEF tables
<1>7. ASSUME UNCHANGED <<origin, tx>> PROVE QuoteFresh'
  BY <1>7 DEF QuoteFresh
<1> QED
  BY <1>1, <1>5, <1>6, <1>7, Steps, OneStepLeaves, CreateAssetLeaves DEF vars, tables

\* A quote becomes one reservation at most.
LEMMA OneReservationStep ==
  ASSUME TypeOK, Shapes, QuoteFresh, OneReservationPerQuote, [Next]_vars
  PROVE  OneReservationPerQuote'
<1>1. CASE UNCHANGED origin
  BY <1>1 DEF OneReservationPerQuote
<1>2. ASSUME NEW t \in Txn, CommitInsert(t) PROVE OneReservationPerQuote'
  <2>1. origin' = [origin EXCEPT ![tx[t].res] = tx[t].quote]
    BY <1>2 DEF CommitInsert
  <2>2. tx[t].quote # None => \A s \in Reservation : origin[s] # tx[t].quote
    BY <1>2 DEF CommitInsert, Shapes, Shape, QuoteFresh
  <2>3. \A s \in Reservation :
          origin'[s] = IF s = tx[t].res THEN tx[t].quote ELSE origin[s]
    BY <2>1 DEF TypeOK
  <2> QED
    BY <2>2, <2>3 DEF OneReservationPerQuote
<1> QED
  BY <1>1, <1>2, OriginFrame

\* The values of CustodyOf, status by status.
LEMMA CustodyValues ==
  /\ CustodyOf("PREPARING") = {"FREE", "ASSIGNED"}
  /\ CustodyOf("READY") = {"FREE", "ASSIGNED"}
  /\ CustodyOf("CHECKED_OUT") = {"FREE", "CHECKED_OUT"}
  /\ CustodyOf("RETURNED") = {"FREE", "RETURNED"}
  /\ CustodyOf("COMPLETED") = {"FREE", "RETURNED"}
  /\ \A s \in {"NONE", "PENDING", "CONFIRMED", "CANCELLED"} : CustodyOf(s) = {"FREE"}
<1>1. CustodyOf("PREPARING") = {"FREE", "ASSIGNED"}
  BY Zenon DEF CustodyOf
<1>2. CustodyOf("READY") = {"FREE", "ASSIGNED"}
  BY Zenon DEF CustodyOf
<1>3. CustodyOf("CHECKED_OUT") = {"FREE", "CHECKED_OUT"}
  BY Zenon DEF CustodyOf
<1>4. CustodyOf("RETURNED") = {"FREE", "RETURNED"}
  BY Zenon DEF CustodyOf
<1>5. CustodyOf("COMPLETED") = {"FREE", "RETURNED"}
  BY Zenon DEF CustodyOf
<1>6. CustodyOf("NONE") = {"FREE"}
  BY Zenon DEF CustodyOf
<1>7. CustodyOf("PENDING") = {"FREE"}
  BY Zenon DEF CustodyOf
<1>8. CustodyOf("CONFIRMED") = {"FREE"}
  BY Zenon DEF CustodyOf
<1>9. CustodyOf("CANCELLED") = {"FREE"}
  BY Zenon DEF CustodyOf
<1> QED
  BY <1>1, <1>2, <1>3, <1>4, <1>5, <1>6, <1>7, <1>8, <1>9

\* The custody of units follows the status of their reservation.
LEMMA CustodyStep ==
  ASSUME TypeOK, Shapes, LocksHeld, InsertsFresh, AssignReady,
         CustodyMatchesStatus, [Next]_vars
  PROVE  CustodyMatchesStatus'
<1>1. CASE UNCHANGED <<status, custody>>
  BY <1>1 DEF CustodyMatchesStatus
<1>2. ASSUME NEW t \in Txn, CommitInsert(t) PROVE CustodyMatchesStatus'
  <2>1. /\ status' = [status EXCEPT ![tx[t].res] = "PENDING"]
        /\ UNCHANGED custody /\ status[tx[t].res] = "NONE"
    BY <1>2 DEF CommitInsert, InsertsFresh
  <2> QED
    BY <2>1, CustodyValues DEF CustodyMatchesStatus, TypeOK
<1>3. ASSUME NEW t \in Txn, CommitAssign(t) PROVE CustodyMatchesStatus'
  <2>1. /\ custody' = [custody EXCEPT ![tx[t].res][tx[t].asset] = "ASSIGNED"]
        /\ UNCHANGED status /\ status[tx[t].res] = "PREPARING"
    BY <1>3 DEF CommitAssign, AssignReady
  <2> QED
    BY <2>1, CustodyValues DEF CustodyMatchesStatus, TypeOK
<1>4. ASSUME NEW r \in Reservation, OneStep(r) PROVE CustodyMatchesStatus'
  <2>1. CASE Confirm(r) \/ Prepare(r) \/ MarkReadyWithInventory(r)
    BY <2>1, CustodyValues DEF Confirm, Prepare, Transition,
      MarkReadyWithInventory, CustodyMatchesStatus, TypeOK
  <2>2. CASE CheckOutWithAssets(r)
    BY <2>2, CustodyValues DEF CheckOutWithAssets, HandOver, Held,
      CustodyMatchesStatus, TypeOK
  <2>3. ASSUME NEW inspection \in [Held(r) -> Condition],
               ReturnWithInspection(r, inspection)
        PROVE  CustodyMatchesStatus'
    BY <2>3, CustodyValues DEF ReturnWithInspection, HandOver, Held,
      CustodyMatchesStatus, TypeOK
  <2>4. CASE CompleteAfterReturn(r)
    BY <2>4, CustodyValues DEF CompleteAfterReturn, CustodyMatchesStatus, TypeOK
  <2>5. CASE CancelAndRelease(r)
    BY <2>5, CustodyValues DEF CancelAndRelease, HandOver, Held,
      CustodyMatchesStatus, TypeOK
  <2>6. ASSUME NEW a \in Asset, UnassignAsset(r, a) PROVE CustodyMatchesStatus'
    BY <2>6, CustodyValues DEF UnassignAsset, CustodyMatchesStatus, TypeOK
  <2> QED
    BY <1>4, <2>1, <2>2, <2>3, <2>4, <2>5, <2>6 DEF OneStep
<1>5. ASSUME NEW t \in Txn, Begins(t) \/ Continues(t) \/ Abort(t)
      PROVE  UNCHANGED <<status, custody>>
  BY <1>5, BeginsTables, ContinuesLeaves DEF GoesOn, Rollback, Abort, tables
<1>6. ASSUME NEW t \in Txn, CommitReschedule(t) \/ CommitUpdateAsset(t)
      PROVE  UNCHANGED <<status, custody>>
  BY <1>6 DEF CommitReschedule, CommitUpdateAsset
<1> QED
  BY <1>1, <1>2, <1>3, <1>4, <1>5, <1>6, Steps, CreateAssetLeaves
  DEF Commits, vars, tables

-----------------------------------------------------------------------------
(* Exact units *)

\* No single-statement operation makes a reservation block that did not, nor
\* gives it a unit; none touches a unit that a transaction has locked.
LEMMA OneStepReleases ==
  ASSUME TypeOK, NEW r \in Reservation, OneStep(r)
  PROVE  /\ \A s \in Reservation :
              /\ s # r => status'[s] = status[s]
              /\ status'[s] \in Blocking => status[s] \in Blocking
              /\ \A a \in Asset : custody'[s][a] # "FREE" => custody[s][a] # "FREE"
         /\ \A a \in Asset : physical'[a] # physical[a] => Free(a)
         /\ \A s \in Reservation \ {r} : custody'[s] = custody[s]
<1>1. CASE Confirm(r) \/ Prepare(r) \/ MarkReadyWithInventory(r)
  BY <1>1 DEF Confirm, Prepare, Transition, MarkReadyWithInventory, TypeOK, Blocking
<1>2. CASE CheckOutWithAssets(r)
  BY <1>2 DEF CheckOutWithAssets, HandOver, Held, TypeOK, Blocking
<1>3. ASSUME NEW inspection \in [Held(r) -> Condition],
             ReturnWithInspection(r, inspection)
      PROVE  /\ \A s \in Reservation :
                  /\ s # r => status'[s] = status[s]
                  /\ status'[s] \in Blocking => status[s] \in Blocking
                  /\ \A a \in Asset : custody'[s][a] # "FREE" => custody[s][a] # "FREE"
             /\ \A a \in Asset : physical'[a] # physical[a] => Free(a)
             /\ \A s \in Reservation \ {r} : custody'[s] = custody[s]
  <2>1. \A a \in Asset : physical'[a] # physical[a] => Free(a)
    BY <1>3 DEF ReturnWithInspection, CanLock, TypeOK
  <2> QED
    BY <1>3, <2>1 DEF ReturnWithInspection, HandOver, Held, TypeOK, Blocking
<1>4. CASE CompleteAfterReturn(r)
  BY <1>4 DEF CompleteAfterReturn, TypeOK, Blocking
<1>5. CASE CancelAndRelease(r)
  BY <1>5 DEF CancelAndRelease, HandOver, Held, TypeOK, Blocking
<1>6. ASSUME NEW a \in Asset, UnassignAsset(r, a)
      PROVE  /\ UNCHANGED <<status, physical>>
             /\ custody' = [custody EXCEPT ![r][a] = "FREE"]
  BY <1>6 DEF UnassignAsset
<1> QED
  BY <1>1, <1>2, <1>3, <1>4, <1>5, <1>6 DEF OneStep, TypeOK

\* AssignReady for one transaction.
Assigns(u) ==
  tx[u].op = "assign" =>
    /\ status[tx[u].res] = "PREPARING"
    /\ tx[u].pc = "commit" =>
         /\ physical[tx[u].asset] = "AVAILABLE"
         /\ \A s \in Reservation \ {tx[u].res} :
              /\ custody[s][tx[u].asset] # "FREE"
              /\ status[s] \in Blocking
              /\ Overlaps(window[s], window[tx[u].res])
              => tx[u].res \in moved \/ s \in moved

\* A step keeps what an assignment knows if it leaves the assignment's own
\* reservation and unit alone and every new rival has moved.
LEMMA AssignFrame ==
  ASSUME NEW u \in Txn, Assigns(u), tx'[u] = tx[u], tx[u].op = "assign" =>
           /\ status'[tx[u].res] = status[tx[u].res]
           /\ tx[u].pc = "commit" =>
                /\ physical'[tx[u].asset] = physical[tx[u].asset]
                /\ window'[tx[u].res] = window[tx[u].res]
                /\ moved \subseteq moved'
                /\ \A s \in Reservation \ {tx[u].res} :
                     custody'[s][tx[u].asset] # "FREE" /\ status'[s] \in Blocking =>
                       \/ s \in moved'
                       \/ /\ custody[s][tx[u].asset] # "FREE"
                          /\ status[s] \in Blocking
                          /\ window'[s] = window[s]
  PROVE  Assigns(u)'
BY DEF Assigns

\* What AssignAsset has checked stands until it commits.
LEMMA AssignStep ==
  ASSUME TypeOK, Shapes, LocksHeld, InsertsFresh, AssignReady,
         CustodyMatchesStatus, [Next]_vars
  PROVE  AssignReady'
<1> SUFFICES ASSUME NEW u \in Txn PROVE Assigns(u)'
  BY DEF AssignReady, Assigns
<1>1. Assigns(u)
  BY DEF AssignReady, Assigns
<1>2. tx[u].op = "assign" =>
        /\ tx[u].res \in Reservation /\ tx[u].asset \in Asset
        /\ holder[tx[u].res] = u
        /\ tx[u].pc = "commit" => holder[tx[u].asset] = u
        /\ status[tx[u].res] = "PREPARING"
  BY DEF Shapes, Shape, LocksHeld, HoldsLocks, AssignReady
<1>3. CASE UNCHANGED <<tables, tx>>
  BY <1>1, <1>3 DEF Assigns, tables
<1>4. CASE tx'[u] = Idle
  BY <1>4, FieldsOfIdle DEF Assigns
<1>5. CASE Begins(u)
  BY <1>5, BeginsWell, BeginsTables DEF Assigns, tables
<1>6. CASE Continues(u) /\ ~Rollback(u)
  <2>1. GoesOn(u)
    BY <1>6, ContinuesWell
  <2>2. CASE tx[u].op \in Granting
    BY <2>1, <2>2 DEF GoesOn, Assigns, Granting
  <2>3. CASE tx[u].op = "assign" /\ LockUnit(u)
    <3>1. /\ physical[tx[u].asset] = "AVAILABLE"
          /\ ~UnitConflict(tx[u].asset, window[tx[u].res], tx[u].res)
      BY <1>6, <2>3 DEF LockUnit, Assignable
    <3> QED
      BY <1>2, <2>1, <2>3, <3>1 DEF GoesOn, Assigns, UnitConflict, tables
  <2> QED
    BY <1>6, <2>2, <2>3, ContinuesWell
<1>7. ASSUME NEW t \in Txn \ {u}, UNCHANGED tables, Untouched(t) PROVE Assigns(u)'
  BY <1>1, <1>7 DEF Untouched, Assigns, tables
<1>8. ASSUME NEW t \in Txn \ {u}, CommitInsert(t) PROVE Assigns(u)'
  <2>1. tx'[u] = tx[u]
    BY <1>8, CommitsLeaves DEF Commits, Untouched
  <2>2. /\ status' = [status EXCEPT ![tx[t].res] = "PENDING"]
        /\ window' = [window EXCEPT ![tx[t].res] = tx[t].win]
        /\ UNCHANGED <<moved, physical, custody>>
        /\ status[tx[t].res] = "NONE"
    BY <1>8 DEF CommitInsert, InsertsFresh
  <2>3. tx[t].res \in Reservation
    BY <1>8 DEF CommitInsert, Shapes, Shape, Granting
  <2>4. \A a \in Asset : custody[tx[t].res][a] = "FREE"
    BY <2>2, <2>3, CustodyValues DEF CustodyMatchesStatus
  <2>5. tx[u].op = "assign" =>
          /\ tx[u].res # tx[t].res
          /\ status'[tx[u].res] = status[tx[u].res]
          /\ window'[tx[u].res] = window[tx[u].res]
    BY <1>2, <2>2 DEF TypeOK
  <2>6. \A s \in Reservation \ {tx[t].res} : status'[s] = status[s] /\ window'[s] = window[s]
    BY <2>2 DEF TypeOK
  <2>7. tx[u].op = "assign" =>
          \A s \in Reservation : custody'[s][tx[u].asset] # "FREE" =>
            /\ custody[s][tx[u].asset] # "FREE"
            /\ status'[s] = status[s] /\ window'[s] = window[s]
    BY <1>2, <2>2, <2>4, <2>6
  <2> QED
    BY <1>1, <2>1, <2>2, <2>5, <2>7, AssignFrame
<1>9. ASSUME NEW t \in Txn \ {u}, CommitReschedule(t) PROVE Assigns(u)'
  <2>1. tx'[u] = tx[u]
    BY <1>9, CommitsLeaves DEF Commits, Untouched
  <2>2. holder[tx[t].res] = t /\ tx[t].res \in Reservation
    BY <1>9 DEF CommitReschedule, LocksHeld, HoldsLocks, Shapes, Shape, Granting
  <2>3. /\ window' = [window EXCEPT ![tx[t].res] = tx[t].win]
        /\ moved' = moved \cup {tx[t].res}
        /\ UNCHANGED <<status, physical, custody>>
    BY <1>9 DEF CommitReschedule
  <2> QED
    BY <1>1, <1>2, <2>1, <2>2, <2>3, AssignFrame DEF TypeOK
<1>10. ASSUME NEW t \in Txn \ {u}, CommitAssign(t) PROVE Assigns(u)'
  <2>1. tx'[u] = tx[u]
    BY <1>10, CommitsLeaves DEF Commits, Untouched
  <2>2. holder[tx[t].asset] = t
    BY <1>10 DEF CommitAssign, LocksHeld, HoldsLocks
  <2>3. /\ custody' = [custody EXCEPT ![tx[t].res][tx[t].asset] = "ASSIGNED"]
        /\ UNCHANGED <<status, window, moved, physical>>
    BY <1>10 DEF CommitAssign
  <2>4. tx[u].op = "assign" /\ tx[u].pc = "commit" =>
          \A s \in Reservation : custody'[s][tx[u].asset] = custody[s][tx[u].asset]
    BY <1>2, <2>2, <2>3 DEF TypeOK
  <2> QED
    BY <1>1, <2>1, <2>3, <2>4, AssignFrame
<1>11. ASSUME NEW t \in Txn \ {u}, CommitUpdateAsset(t) PROVE Assigns(u)'
  <2>1. tx'[u] = tx[u]
    BY <1>11, CommitsLeaves DEF Commits, Untouched
  <2>2. /\ Free(tx[t].asset)
        /\ physical' = [physical EXCEPT ![tx[t].asset] = tx[t].value]
        /\ UNCHANGED <<status, window, moved, custody>>
    BY <1>11 DEF CommitUpdateAsset
  <2>3. tx[u].op = "assign" /\ tx[u].pc = "commit" => tx[u].asset # tx[t].asset
    BY <1>2, <2>2, ConstantsAssumption DEF Free
  <2> QED
    BY <1>1, <1>2, <2>1, <2>2, <2>3, AssignFrame DEF TypeOK
<1>12. ASSUME NEW r \in Reservation, OneStep(r) PROVE Assigns(u)'
  <2>1. UNCHANGED <<tx, window, moved>> /\ Free(r)
    BY <1>12, OneStepLeaves
  <2>2. tx[u].op = "assign" => tx[u].res # r
    BY <1>2, <2>1, ConstantsAssumption DEF Free
  <2>3. tx[u].op = "assign" /\ tx[u].pc = "commit" =>
          physical'[tx[u].asset] = physical[tx[u].asset]
    BY <1>2, <1>12, OneStepReleases, ConstantsAssumption DEF Free
  <2> QED
    BY <1>1, <1>2, <1>12, <2>1, <2>2, <2>3, OneStepReleases, AssignFrame
<1>13. ASSUME NEW a \in Asset, NEW s \in NewUnit, CreateAsset(a, s)
       PROVE  Assigns(u)'
  <2>1. /\ UNCHANGED <<status, window, moved, custody, tx>>
        /\ physical[a] = "NONE" /\ physical' = [physical EXCEPT ![a] = s]
    BY <1>13 DEF CreateAsset
  <2>2. tx[u].op = "assign" /\ tx[u].pc = "commit" => tx[u].asset # a
    BY <1>1, <2>1 DEF Assigns
  <2> QED
    BY <1>1, <1>2, <2>1, <2>2, AssignFrame DEF TypeOK
<1>14. ASSUME NEW t \in Txn, Begins(t) \/ Continues(t) \/ Commits(t) \/ Abort(t)
       PROVE  Assigns(u)'
  <2>1. CASE t = u
    BY <1>14, <2>1, <1>4, <1>5, <1>6, RollbackLeaves, CommitsLeaves
  <2>2. CASE t # u /\ ~Commits(t)
    BY <1>14, <2>2, <1>7, BeginsTables, BeginsLeaves, ContinuesLeaves,
       RollbackLeaves DEF Abort, GoesOn
  <2>3. CASE t # u /\ Commits(t)
    BY <2>3, <1>8, <1>9, <1>10, <1>11 DEF Commits
  <2> QED
    BY <2>1, <2>2, <2>3
<1> QED
  BY <1>3, <1>12, <1>13, <1>14, Steps DEF vars

\* Assignments of two overlapping reservations clash only after a move.
LEMMA UnitStep ==
  ASSUME TypeOK, Shapes, InsertsFresh, AssignReady, CustodyMatchesStatus,
         UnitExclusiveUnlessMoved, [Next]_vars
  PROVE  UnitExclusiveUnlessMoved'
<1>1. ASSUME UNCHANGED <<window, moved>>,
             \A s \in Reservation :
               /\ status'[s] \in Blocking => status[s] \in Blocking
               /\ \A a \in Asset : custody'[s][a] # "FREE" => custody[s][a] # "FREE"
      PROVE  UnitExclusiveUnlessMoved'
  BY <1>1 DEF UnitExclusiveUnlessMoved, Clash
<1>2. ASSUME NEW t \in Txn, CommitInsert(t) PROVE UnitExclusiveUnlessMoved'
  <2>1. /\ status' = [status EXCEPT ![tx[t].res] = "PENDING"]
        /\ window' = [window EXCEPT ![tx[t].res] = tx[t].win]
        /\ UNCHANGED <<moved, custody>>
        /\ status[tx[t].res] = "NONE" /\ tx[t].res \in Reservation
    BY <1>2 DEF CommitInsert, InsertsFresh, Shapes, Shape, Granting
  <2>2. \A a \in Asset : custody'[tx[t].res][a] = "FREE"
    BY <2>1, CustodyValues DEF CustodyMatchesStatus
  <2>3. \A r, s \in Reservation, a \in Asset : Clash(r, s, a)' => Clash(r, s, a)
    BY <2>1, <2>2 DEF Clash, TypeOK
  <2> QED
    BY <2>1, <2>3 DEF UnitExclusiveUnlessMoved
<1>3. ASSUME NEW t \in Txn, CommitReschedule(t) PROVE UnitExclusiveUnlessMoved'
  <2>1. /\ window' = [window EXCEPT ![tx[t].res] = tx[t].win]
        /\ moved' = moved \cup {tx[t].res}
        /\ UNCHANGED <<status, custody>>
    BY <1>3 DEF CommitReschedule
  <2>2. \A r, s \in Reservation \ {tx[t].res}, a \in Asset :
          Clash(r, s, a)' => Clash(r, s, a)
    BY <2>1 DEF Clash, TypeOK
  <2> QED
    BY <2>1, <2>2 DEF UnitExclusiveUnlessMoved
<1>4. ASSUME NEW t \in Txn, CommitAssign(t) PROVE UnitExclusiveUnlessMoved'
  <2>1. PICK r \in Reservation, a \in Asset : r = tx[t].res /\ a = tx[t].asset
    BY <1>4 DEF CommitAssign, Shapes, Shape
  <2>2. /\ custody' = [custody EXCEPT ![r][a] = "ASSIGNED"]
        /\ UNCHANGED <<status, window, moved>>
    BY <1>4, <2>1 DEF CommitAssign
  <2>3. \A s \in Reservation \ {r} :
          /\ custody[s][a] # "FREE" /\ status[s] \in Blocking
          /\ Overlaps(window[s], window[r])
          => r \in moved \/ s \in moved
    BY <1>4, <2>1 DEF CommitAssign, AssignReady
  <2>4. \A s, q \in Reservation, b \in Asset :
          /\ Clash(s, q, b)'
          => Clash(s, q, b) \/ (b = a /\ (s = r \/ q = r))
    BY <2>2 DEF Clash, TypeOK
  <2>5. \A s \in Reservation : Clash(s, r, a)' => r \in moved \/ s \in moved
    BY <2>2, <2>3 DEF Clash, TypeOK
  <2>6. \A s \in Reservation : Clash(r, s, a)' => Clash(s, r, a)'
    BY DEF Clash, Overlaps
  <2> QED
    BY <2>2, <2>4, <2>5, <2>6 DEF UnitExclusiveUnlessMoved
<1>5. ASSUME NEW t \in Txn, CommitUpdateAsset(t) PROVE UnitExclusiveUnlessMoved'
  BY <1>1, <1>5 DEF CommitUpdateAsset
<1>6. ASSUME NEW r \in Reservation, OneStep(r) PROVE UnitExclusiveUnlessMoved'
  BY <1>1, <1>6, OneStepLeaves, OneStepReleases
<1>7. CASE UNCHANGED tables
  BY <1>1, <1>7 DEF tables
<1>8. ASSUME NEW t \in Txn, Begins(t) \/ Continues(t) \/ Abort(t)
      PROVE  UNCHANGED tables
  BY <1>8, BeginsTables, ContinuesLeaves DEF GoesOn, Rollback, Abort
<1>9. ASSUME NEW a \in Asset, NEW s \in NewUnit, CreateAsset(a, s)
      PROVE  UnitExclusiveUnlessMoved'
  BY <1>1, <1>9 DEF CreateAsset
<1> QED
  BY <1>2, <1>3, <1>4, <1>5, <1>6, <1>7, <1>8, <1>9, Steps DEF Commits, vars

-----------------------------------------------------------------------------
(* Counting units *)

\* The units of a reservation can be counted.
LEMMA UnitsFinite ==
  ASSUME NEW r \in Reservation, NEW k
  PROVE  /\ IsFiniteSet(UnitsOf(r, k))
         /\ Cardinality(UnitsOf(r, k)) \in Nat
<1>1. UnitsOf(r, k) \subseteq Asset
  BY DEF UnitsOf, Held
<1> QED
  BY <1>1, FiniteAssumption, FS_Subset, FS_CardinalityType

\* Only rows of r itself decide which units r holds.
LEMMA UnitsFrame ==
  ASSUME NEW r, NEW k,
         \A a \in Asset : custody'[r][a] = "FREE" <=> custody[r][a] = "FREE"
  PROVE  UnitsOf(r, k)' = UnitsOf(r, k)
BY DEF UnitsOf, Held

\* There is still room for the unit an assignment is about to insert.
LEMMA RoomStep ==
  ASSUME TypeOK, Shapes, LocksHeld, InsertsFresh, AssignReady, RoomLeft, [Next]_vars
  PROVE  RoomLeft'
<1> DEFINE Room(u) ==
      tx[u].op = "assign" /\ tx[u].pc = "commit" =>
        /\ custody[tx[u].res][tx[u].asset] = "FREE"
        /\ Cardinality(UnitsOf(tx[u].res, ResourceOf[tx[u].asset]))
             < lines[tx[u].res][ResourceOf[tx[u].asset]]
<1> SUFFICES ASSUME NEW u \in Txn PROVE Room(u)'
  BY DEF RoomLeft
<1>1. Room(u)
  BY DEF RoomLeft
<1>2. tx[u].op = "assign" =>
        /\ tx[u].res \in Reservation /\ tx[u].asset \in Asset
        /\ holder[tx[u].res] = u
        /\ status[tx[u].res] = "PREPARING"
  BY DEF Shapes, Shape, LocksHeld, HoldsLocks, AssignReady
<1>3. ASSUME tx'[u] = tx[u],
             tx[u].op = "assign" =>
               /\ custody'[tx[u].res] = custody[tx[u].res]
               /\ lines'[tx[u].res] = lines[tx[u].res]
      PROVE  Room(u)'
  BY <1>1, <1>3, UnitsFrame
<1>4. CASE tx'[u] = Idle
  BY <1>4, FieldsOfIdle
<1>5. CASE Begins(u)
  BY <1>5, BeginsWell
<1>6. CASE Continues(u) /\ ~Rollback(u)
  <2>1. GoesOn(u)
    BY <1>6, ContinuesWell
  <2>2. CASE tx[u].op \in Granting
    BY <2>1, <2>2 DEF GoesOn, Granting
  <2>3. CASE tx[u].op = "assign" /\ LockUnit(u)
    <3>1. /\ custody[tx[u].res][tx[u].asset] = "FREE"
          /\ Cardinality(UnitsOf(tx[u].res, ResourceOf[tx[u].asset]))
               < lines[tx[u].res][ResourceOf[tx[u].asset]]
      BY <1>6, <2>3 DEF LockUnit, Assignable
    <3>2. UNCHANGED <<custody, lines>> /\ tx'[u].res = tx[u].res /\ tx'[u].asset = tx[u].asset
      BY <2>1 DEF GoesOn, tables
    <3>3. UnitsOf(tx[u].res, ResourceOf[tx[u].asset])'
            = UnitsOf(tx[u].res, ResourceOf[tx[u].asset])
      BY <3>2 DEF UnitsOf, Held
    <3> QED
      BY <3>1, <3>2, <3>3
  <2> QED
    BY <1>6, <2>2, <2>3, ContinuesWell
<1> HIDE DEF Room
<1>7. ASSUME NEW t \in Txn \ {u}, Begins(t) \/ Continues(t) \/ Abort(t)
      PROVE  Room(u)'
  <2>1. UNCHANGED tables /\ Untouched(t)
    BY <1>7, BeginsTables, BeginsLeaves, ContinuesLeaves, RollbackLeaves DEF Abort, GoesOn
  <2> QED
    BY <2>1, <1>3 DEF Untouched, tables
<1>8. ASSUME NEW t \in Txn \ {u}, Commits(t) PROVE Room(u)'
  <2>1. tx'[u] = tx[u]
    BY <1>8, CommitsLeaves DEF Untouched
  <2>2. CASE CommitInsert(t)
    <3>1. /\ UNCHANGED custody
          /\ lines' = [lines EXCEPT ![tx[t].res] = tx[t].order]
          /\ status[tx[t].res] = "NONE"
      BY <2>2 DEF CommitInsert, InsertsFresh
    <3> QED
      BY <1>2, <1>3, <2>1, <3>1 DEF TypeOK
  <2>3. CASE CommitAssign(t)
    <3>1. /\ custody' = [custody EXCEPT ![tx[t].res][tx[t].asset] = "ASSIGNED"]
          /\ UNCHANGED lines /\ holder[tx[t].res] = t
      BY <2>3 DEF CommitAssign, LocksHeld, HoldsLocks
    <3> QED
      BY <1>2, <1>3, <2>1, <3>1 DEF TypeOK
  <2>4. CASE CommitReschedule(t) \/ CommitUpdateAsset(t)
    BY <1>3, <2>1, <2>4 DEF CommitReschedule, CommitUpdateAsset
  <2> QED
    BY <1>8, <2>2, <2>3, <2>4 DEF Commits
<1>9. ASSUME NEW r \in Reservation, OneStep(r) PROVE Room(u)'
  <2>1. UNCHANGED <<tx, lines>> /\ Free(r)
    BY <1>9, OneStepLeaves
  <2>2. tx[u].op = "assign" => tx[u].res # r
    BY <1>2, <2>1, ConstantsAssumption DEF Free
  <2> QED
    BY <1>2, <1>3, <1>9, <2>1, <2>2, OneStepReleases
<1>10. CASE UNCHANGED <<tx, custody, lines>>
  BY <1>3, <1>10
<1>11. ASSUME NEW t \in Txn, Begins(t) \/ Continues(t) \/ Commits(t) \/ Abort(t)
       PROVE  Room(u)'
  BY <1>11, <1>4, <1>5, <1>6, <1>7, <1>8, RollbackLeaves, CommitsLeaves
<1> QED
  BY <1>9, <1>10, <1>11, Steps, CreateAssetLeaves DEF vars, tables

\* From PREPARING on, a reservation has at most, then exactly, the units its
\* items ask for.
CountedIn(r) ==
  \A k \in Tracked :
    /\ status[r] = "PREPARING" => Cardinality(UnitsOf(r, k)) <= lines[r][k]
    /\ status[r] \in {"READY", "CHECKED_OUT", "RETURNED", "COMPLETED"} =>
         Cardinality(UnitsOf(r, k)) = lines[r][k]

\* Tracked items never hold too many units, and from READY on exactly enough.
LEMMA CountStep ==
  ASSUME TypeOK, Shapes, InsertsFresh, AssignReady, RoomLeft, NeverTooMany,
         CustodyMatchesStatus, CompleteFromReady, [Next]_vars
  PROVE  NeverTooMany' /\ CompleteFromReady'
<1> SUFFICES ASSUME NEW r \in Reservation PROVE CountedIn(r)'
  BY DEF NeverTooMany, CompleteFromReady, CountedIn
<1>1. CountedIn(r)
  BY DEF NeverTooMany, CompleteFromReady, CountedIn
<1>2. ASSUME status'[r] = status[r], lines'[r] = lines[r], custody'[r] = custody[r]
      PROVE  CountedIn(r)'
  BY <1>1, <1>2, UnitsFrame DEF CountedIn
<1>3. ASSUME status'[r] \notin {"PREPARING", "READY", "CHECKED_OUT", "RETURNED", "COMPLETED"}
      PROVE  CountedIn(r)'
  BY <1>3 DEF CountedIn
<1>4. ASSUME NEW t \in Txn, CommitInsert(t) PROVE CountedIn(r)'
  <2>1. /\ UNCHANGED custody
        /\ lines' = [lines EXCEPT ![tx[t].res] = tx[t].order]
        /\ status' = [status EXCEPT ![tx[t].res] = "PENDING"]
    BY <1>4 DEF CommitInsert
  <2>2. CASE r = tx[t].res
    BY <1>3, <2>1, <2>2 DEF TypeOK
  <2>3. CASE r # tx[t].res
    BY <1>2, <2>1, <2>3 DEF TypeOK
  <2> QED
    BY <2>2, <2>3
<1>5. ASSUME NEW t \in Txn, CommitAssign(t) PROVE CountedIn(r)'
  <2>1. /\ custody' = [custody EXCEPT ![tx[t].res][tx[t].asset] = "ASSIGNED"]
        /\ UNCHANGED <<status, lines>>
    BY <1>5 DEF CommitAssign
  <2>2. CASE r # tx[t].res
    BY <1>2, <2>1, <2>2 DEF TypeOK
  <2>3. CASE r = tx[t].res
    <3>1. PICK a \in Asset : a = tx[t].asset
      BY <1>5 DEF CommitAssign, Shapes, Shape
    <3>2. /\ status[r] = "PREPARING" /\ custody[r][a] = "FREE"
          /\ Cardinality(UnitsOf(r, ResourceOf[a])) < lines[r][ResourceOf[a]]
      BY <1>5, <2>3, <3>1 DEF CommitAssign, AssignReady, RoomLeft
    <3>3. \A b \in Asset : custody'[r][b] = IF b = a THEN "ASSIGNED" ELSE custody[r][b]
      BY <2>1, <2>3, <3>1 DEF TypeOK
    <3>4. ASSUME NEW k \in Tracked
          PROVE  (Cardinality(UnitsOf(r, k)) <= lines[r][k])'
      <4>1. lines[r][k] \in Nat
        BY ConstantsAssumption DEF TypeOK
      <4>2. CASE k # ResourceOf[a]
        <5>1. UnitsOf(r, k)' = UnitsOf(r, k)
          BY <3>3, <4>2 DEF UnitsOf, Held
        <5> QED
          BY <2>1, <3>2, <5>1 DEF NeverTooMany
      <4>3. CASE k = ResourceOf[a]
        <5>1. UnitsOf(r, k)' = UnitsOf(r, k) \cup {a} /\ a \notin UnitsOf(r, k)
          BY <3>2, <3>3, <4>3 DEF UnitsOf, Held
        <5>2. Cardinality(UnitsOf(r, k) \cup {a}) = Cardinality(UnitsOf(r, k)) + 1
          BY <5>1, UnitsFinite, FS_AddElement
        <5> QED
          BY <2>1, <3>2, <4>1, <4>3, <5>1, <5>2, UnitsFinite
      <4> QED
        BY <4>2, <4>3
    <3> QED
      BY <2>1, <3>2, <3>4 DEF CountedIn
  <2> QED
    BY <2>2, <2>3
<1>6. ASSUME NEW s \in Reservation, OneStep(s) PROVE CountedIn(r)'
  <2>1. UNCHANGED lines
    BY <1>6, OneStepLeaves
  <2>2. CASE s # r
    BY <1>2, <1>6, <2>1, <2>2, OneStepReleases
  <2>3. CASE s = r /\ Confirm(r)
    BY <1>3, <2>3 DEF Confirm, Transition, TypeOK
  <2>4. CASE s = r /\ Prepare(r)
    <3>1. /\ UNCHANGED custody /\ status'[r] = "PREPARING"
          /\ \A a \in Asset : custody[r][a] = "FREE"
      BY <2>4, CustodyValues DEF Prepare, Transition, CustodyMatchesStatus, TypeOK
    <3>2. ASSUME NEW k \in Tracked PROVE UnitsOf(r, k)' = {}
      BY <3>1 DEF UnitsOf, Held
    <3>3. \A k \in Tracked : lines'[r][k] \in Nat
      BY <2>1, ConstantsAssumption DEF TypeOK
    <3> QED
      BY <3>1, <3>2, <3>3, FS_EmptySet DEF CountedIn
  <2>5. CASE s = r /\ MarkReadyWithInventory(r)
    <3>1. /\ UNCHANGED custody /\ status'[r] = "READY"
          /\ status[r] = "PREPARING" /\ NoInventoryGaps(r)
      BY <2>5 DEF MarkReadyWithInventory, TypeOK
    <3>2. ASSUME NEW k \in Tracked PROVE Cardinality(UnitsOf(r, k)) = lines[r][k]
      <4>1. lines[r][k] \in Nat
        BY ConstantsAssumption DEF TypeOK
      <4> QED
        BY <3>1, <4>1, UnitsFinite DEF NoInventoryGaps, NeverTooMany
    <3> QED
      BY <2>1, <3>1, <3>2, UnitsFrame DEF CountedIn
  <2>6. ASSUME s = r, status[r] \in {"READY", "CHECKED_OUT", "RETURNED"},
               status'[r] \in {"CHECKED_OUT", "RETURNED", "COMPLETED"},
               \A a \in Asset : custody'[r][a] = "FREE" <=> custody[r][a] = "FREE"
        PROVE  CountedIn(r)'
    BY <1>1, <2>1, <2>6, UnitsFrame DEF CountedIn
  <2>7. CASE s = r /\ CheckOutWithAssets(r)
    BY <2>6, <2>7 DEF CheckOutWithAssets, HandOver, Held, TypeOK
  <2>8. ASSUME s = r, NEW inspection \in [Held(r) -> Condition],
               ReturnWithInspection(r, inspection)
        PROVE  CountedIn(r)'
    BY <2>6, <2>8 DEF ReturnWithInspection, HandOver, Held, TypeOK
  <2>9. CASE s = r /\ CompleteAfterReturn(r)
    BY <2>6, <2>9 DEF CompleteAfterReturn, TypeOK
  <2>10. CASE s = r /\ CancelAndRelease(r)
    BY <1>3, <2>10 DEF CancelAndRelease, TypeOK
  <2>11. ASSUME s = r, NEW a \in Asset, UnassignAsset(r, a) PROVE CountedIn(r)'
    <3>1. /\ status[r] = "PREPARING" /\ UNCHANGED status
          /\ \A b \in Asset : custody'[r][b] # "FREE" => custody[r][b] # "FREE"
      BY <2>11 DEF UnassignAsset, TypeOK
    <3>2. ASSUME NEW k \in Tracked
          PROVE  Cardinality(UnitsOf(r, k)') <= lines[r][k]
      <4>1. UnitsOf(r, k)' \subseteq UnitsOf(r, k)
        BY <3>1 DEF UnitsOf, Held
      <4>2. /\ Cardinality(UnitsOf(r, k)') <= Cardinality(UnitsOf(r, k))
            /\ Cardinality(UnitsOf(r, k)') \in Nat
        BY <4>1, UnitsFinite, FS_Subset, FS_CardinalityType
      <4>3. Cardinality(UnitsOf(r, k)) <= lines[r][k] /\ lines[r][k] \in Nat
        BY <3>1, ConstantsAssumption DEF NeverTooMany, TypeOK
      <4> QED
        BY <4>2, <4>3, UnitsFinite
    <3> QED
      BY <2>1, <3>1, <3>2 DEF CountedIn
  <2> QED
    BY <1>6, <2>2, <2>3, <2>4, <2>5, <2>7, <2>8, <2>9, <2>10, <2>11 DEF OneStep
<1>7. CASE UNCHANGED <<status, lines, custody>>
  BY <1>2, <1>7
<1>8. ASSUME NEW t \in Txn, Begins(t) \/ Continues(t) \/ Abort(t)
      PROVE  UNCHANGED <<status, lines, custody>>
  BY <1>8, BeginsTables, ContinuesLeaves DEF GoesOn, Rollback, Abort, tables
<1>9. ASSUME NEW t \in Txn, CommitReschedule(t) \/ CommitUpdateAsset(t)
      PROVE  UNCHANGED <<status, lines, custody>>
  BY <1>9 DEF CommitReschedule, CommitUpdateAsset
<1> QED
  BY <1>4, <1>5, <1>6, <1>7, <1>8, <1>9, Steps, CreateAssetLeaves
  DEF Commits, vars, tables

-----------------------------------------------------------------------------
(* Theorems *)

\* The initial state satisfies the inductive invariant and every step of
\* every operation keeps it: each transaction, at each statement, holds the
\* locks that protect what it has read.
THEOREM Inductive == Spec => []IInv
<1>1. IInv /\ [Next]_vars => IInv'
  BY TypeStep, ShapesStep, LocksStep, InsertsStep, QuoteStep, AssignStep,
     CustodyStep, OneReservationStep, UnitStep, RoomStep, CountStep DEF IInv
<1> QED
  BY <1>1, InitIInv, PTL DEF Spec

\* Tables, locks and transactions stay within their types (the CHECK
\* constraints of the migrations on statuses and conditions).
THEOREM TypeCorrect == Spec => []TypeOK
<1>1. IInv => TypeOK
  BY DEF IInv
<1> QED
  BY <1>1, Inductive, PTL

\* However many conversions of a quote race (CreateFromQuoteTx), at most one
\* reservation comes from it, without the help of a unique index.
THEOREM QuoteConvertedOnce == Spec => []OneReservationPerQuote
<1>1. IInv => OneReservationPerQuote
  BY DEF IInv
<1> QED
  BY <1>1, Inductive, PTL

\* Assigned units follow the lifecycle of their reservation through check-out,
\* return and cancellation, whatever assignments are in flight.
THEOREM CustodyFollowsStatus == Spec => []CustodyMatchesStatus
<1>1. IInv => CustodyMatchesStatus
  BY DEF IInv
<1> QED
  BY <1>1, Inductive, PTL

\* Two overlapping reservations hold the same unit only if one of them was
\* rescheduled: assignments alone never clash (AssignAsset).
THEOREM AssignmentsExclusive == Spec => []UnitExclusiveUnlessMoved
<1>1. IInv => UnitExclusiveUnlessMoved
  BY DEF IInv
<1> QED
  BY <1>1, Inductive, PTL

\* A reservation that is READY, out, back or COMPLETED holds exactly the units
\* its tracked items ask for (MarkReadyWithInventory and the row locks).
THEOREM PreparationComplete == Spec => []CompleteFromReady
<1>1. IInv => CompleteFromReady
  BY DEF IInv
<1> QED
  BY <1>1, Inductive, PTL

\* A unit is in service when its assignment commits (AssignAsset), although
\* inspections and staff edits of other requests interleave.
THEOREM AssignedInService == Spec => AssignsAvailableUnit
<1> DEFINE A == \A r \in Reservation, a \in Asset :
                  custody[r][a] = "FREE" /\ custody'[r][a] # "FREE" =>
                    physical[a] = "AVAILABLE" /\ physical'[a] = "AVAILABLE"
<1>1. IInv /\ [Next]_vars => [A]_vars
  <2> SUFFICES ASSUME IInv, [Next]_vars PROVE A
    OBVIOUS
  <2>1. ASSUME NEW t \in Txn, CommitAssign(t) PROVE A
    <3>1. tx[t].res \in Reservation /\ tx[t].asset \in Asset
      BY <2>1 DEF CommitAssign, IInv, Shapes, Shape
    <3>2. physical[tx[t].asset] = "AVAILABLE" /\ physical' = physical
      BY <2>1 DEF CommitAssign, IInv, AssignReady
    <3>3. custody' = [custody EXCEPT ![tx[t].res][tx[t].asset] = "ASSIGNED"]
      BY <2>1 DEF CommitAssign
    <3> QED
      BY <3>1, <3>2, <3>3 DEF IInv, TypeOK
  <2>2. ASSUME NEW t \in Txn, Commits(t), ~CommitAssign(t) PROVE UNCHANGED custody
    BY <2>2 DEF Commits, CommitInsert, CommitReschedule, CommitUpdateAsset
  <2>3. ASSUME NEW t \in Txn, Begins(t) \/ Continues(t) \/ Abort(t)
        PROVE  UNCHANGED custody
    BY <2>3, BeginsTables, ContinuesLeaves DEF IInv, GoesOn, Rollback, Abort, tables
  <2>4. ASSUME NEW r \in Reservation, OneStep(r) PROVE A
    BY <2>4, OneStepReleases DEF IInv
  <2>5. CASE UNCHANGED custody
    BY <2>5
  <2>6. UNCHANGED vars => UNCHANGED custody
    BY DEF vars, tables
  <2> HIDE DEF A
  <2> QED
    BY <2>1, <2>2, <2>3, <2>4, <2>5, <2>6, Steps, CreateAssetLeaves
<1>2. Spec => [][A]_vars
  BY <1>1, Inductive, PTL DEF Spec
<1> QED
  BY <1>2 DEF AssignsAvailableUnit
=============================================================================
