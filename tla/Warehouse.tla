------------------------------ MODULE Warehouse ------------------------------
(***************************************************************************)
(* Exact units: assignment during preparation, check-out, return with      *)
(* inspection, completion and cancellation.                                *)
(*                                                                         *)
(* Every operation locks its reservation row first and writes assignments  *)
(* of that reservation only, so what it reads about its own reservation    *)
(* cannot change under it.  AssignAsset also reads the assignments and     *)
(* windows of OTHER reservations, whose rows it does not lock: it takes    *)
(* several steps.  The others are one step each.                           *)
(***************************************************************************)
EXTENDS RentalState

CONSTANT Condition   \* return conditions an inspection may report

ASSUME ConditionAssumption ==
  Condition \subseteq {"GOOD", "MAINTENANCE_REQUIRED", "DAMAGED", "LOST"}

\* AssignAsset: FOR UPDATE of the reservation, which must be PREPARING.
BeginAssign(t, r, a) ==
  /\ tx[t] = Idle
  /\ Free(r)
  /\ status[r] = "PREPARING"
  /\ Acquire(t, r)
  /\ Start(t, [Idle EXCEPT !.op = "assign", !.pc = "unit", !.res = r, !.asset = a])
  /\ UNCHANGED tables

\* Mutant of Assignable: the quantity comparison is off by one.
AssignableOneMore(r, a) ==
  LET k == ResourceOf[a]
  IN /\ physical[a] = "AVAILABLE"
     /\ lines[r][k] > 0
     /\ k \in Tracked
     /\ custody[r][a] = "FREE"
     /\ Cardinality(UnitsOf(r, k)) <= lines[r][k]

\* The unit is AVAILABLE, belongs to a tracked item of the reservation that
\* still misses units, and is not assigned to it already.
Assignable(r, a) ==
  LET k == ResourceOf[a]
  IN /\ physical[a] = "AVAILABLE"
     /\ lines[r][k] > 0
     /\ k \in Tracked
     /\ custody[r][a] = "FREE"
     /\ Cardinality(UnitsOf(r, k)) < lines[r][k]

\* Mutant of LockUnit: the asset is read without FOR UPDATE.
LockUnitNot(t) ==
  LET r == tx[t].res
      a == tx[t].asset
  IN /\ tx[t].pc = "unit"
     /\ Free(a)
     /\ IF Assignable(r, a) /\ ~UnitConflict(a, window[r], r)
        THEN tx' = [tx EXCEPT ![t].pc = "commit"] /\ UNCHANGED <<tables, holder>>
        ELSE Rollback(t)

\* FOR UPDATE of the asset, the checks on rows the transaction has locked,
\* and last the overlap query over the other reservations' assignments.
LockUnit(t) ==
  LET r == tx[t].res
      a == tx[t].asset
  IN /\ tx[t].pc = "unit"
     /\ Free(a)
     /\ IF Assignable(r, a) /\ ~UnitConflict(a, window[r], r)
        THEN /\ Acquire(t, a)
             /\ tx' = [tx EXCEPT ![t].pc = "commit"]
             /\ UNCHANGED tables
        ELSE Rollback(t)

\* INSERT INTO reservation_assets, and COMMIT.
CommitAssign(t) ==
  /\ tx[t].pc = "commit" /\ tx[t].op = "assign"
  /\ custody' = [custody EXCEPT ![tx[t].res][tx[t].asset] = "ASSIGNED"]
  /\ Finish(t)
  /\ UNCHANGED <<status, window, lines, origin, moved, physical>>

\* Mutant of CanLock: the reservation row is read without FOR UPDATE.
CanLockUnitsOnly(r) == \A a \in Held(r) : Free(a)

\* Every row of r and of its active assignments can be locked.
CanLock(r) == Free(r) /\ \A a \in Held(r) : Free(a)

UnassignAsset(r, a) ==
  /\ Free(r) /\ Free(a)
  /\ status[r] = "PREPARING"
  /\ custody[r][a] # "FREE"
  /\ custody' = [custody EXCEPT ![r][a] = "FREE"]
  /\ UNCHANGED <<status, window, lines, origin, moved, physical, holder, tx>>

MarkReadyWithInventory(r) ==
  /\ Free(r)
  /\ status[r] = "PREPARING"
  /\ NoInventoryGaps(r)
  /\ status' = [status EXCEPT ![r] = "READY"]
  /\ UNCHANGED <<window, lines, origin, moved, physical, custody, holder, tx>>

\* Moves every active assignment of r to a new state of custody.
HandOver(r, to) ==
  custody' = [custody EXCEPT ![r] =
                [a \in Asset |-> IF a \in Held(r) THEN to ELSE "FREE"]]

CheckOutWithAssets(r) ==
  /\ CanLock(r)
  /\ status[r] = "READY"
  /\ NoInventoryGaps(r)
  /\ HandOver(r, "CHECKED_OUT")
  /\ status' = [status EXCEPT ![r] = "CHECKED_OUT"]
  /\ UNCHANGED <<window, lines, origin, moved, physical, holder, tx>>

PhysicalStatusForReturn(condition) ==
  CASE condition = "MAINTENANCE_REQUIRED" -> "MAINTENANCE"
    [] condition = "DAMAGED" -> "DAMAGED"
    [] condition = "LOST" -> "LOST"
    [] OTHER -> "AVAILABLE"

\* inspection: the condition reported for each unit; the request must name
\* exactly the units the reservation holds, all of them checked out.
ReturnWithInspection(r, inspection) ==
  /\ CanLock(r)
  /\ status[r] = "CHECKED_OUT"
  /\ \A a \in Held(r) : custody[r][a] \in {"CHECKED_OUT", "RETURNED"}
  /\ DOMAIN inspection = Held(r)
  /\ physical' = [a \in Asset |-> IF a \in Held(r)
                    THEN PhysicalStatusForReturn(inspection[a])
                    ELSE physical[a]]
  /\ HandOver(r, "RETURNED")
  /\ status' = [status EXCEPT ![r] = "RETURNED"]
  /\ UNCHANGED <<window, lines, origin, moved, holder, tx>>

CompleteAfterReturn(r) ==
  /\ Free(r)
  /\ status[r] = "RETURNED"
  /\ \A a \in Held(r) : custody[r][a] = "RETURNED"
  /\ status' = [status EXCEPT ![r] = "COMPLETED"]
  /\ UNCHANGED <<window, lines, origin, moved, physical, custody, holder, tx>>

CancelAndRelease(r) ==
  /\ CanLock(r)
  /\ status[r] \in {"PENDING", "CONFIRMED", "PREPARING", "READY"}
  /\ HandOver(r, "FREE")
  /\ status' = [status EXCEPT ![r] = "CANCELLED"]
  /\ UNCHANGED <<window, lines, origin, moved, physical, holder, tx>>

WarehouseStep(t) == LockUnit(t) \/ CommitAssign(t)

WarehouseNext ==
  \/ \E t \in Txn :
       \/ \E r \in Reservation, a \in Asset : BeginAssign(t, r, a)
       \/ WarehouseStep(t)
  \/ \E r \in Reservation :
       \/ \E a \in Asset : UnassignAsset(r, a)
       \/ MarkReadyWithInventory(r)
       \/ CheckOutWithAssets(r)
       \/ \E inspection \in [Held(r) -> Condition] :
            ReturnWithInspection(r, inspection)
       \/ CompleteAfterReturn(r)
       \/ CancelAndRelease(r)
=============================================================================
