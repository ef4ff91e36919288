------------------------------- MODULE Booking -------------------------------
(***************************************************************************)
(* Promises of quantity: manual reservations, accepted-quote conversion,   *)
(* rescheduling and the first two lifecycle transitions.                   *)
(*                                                                         *)
(* The three granting operations share their middle: take the advisory     *)
(* lock of every wanted resource in the order of their keys, then check    *)
(* each item in a statement of its own, then write.                        *)
(***************************************************************************)
EXTENDS RentalState

\* The identity the INSERT will give the row is set aside when the
\* transaction begins: Reservation bounds how many rows there can be.
Unused(r) == status[r] = "NONE" /\ \A t \in Txn : tx[t].res # r

\* What every grant starts with: the keys to lock, the items to check.
Grant(op, r, w, order, spell) ==
  [Idle EXCEPT !.op = op, !.pc = "lock", !.res = r, !.win = w, !.order = order,
               !.keys = {spell[k] : k \in Wanted(order)}, !.todo = Wanted(order)]

\* CreateManual: no row is locked before the advisory locks, and the lock
\* keys are the identifiers as the request spells them.
BeginCreate(t, r, w, order, spell) ==
  /\ tx[t] = Idle
  /\ Unused(r)
  /\ Start(t, Grant("create", r, w, order, spell))
  /\ UNCHANGED <<tables, holder>>

Convert(q, r) ==
  [Grant("convert", r, QuoteWindow[q], QuoteOrder[q], KeyOf) EXCEPT !.quote = q]

\* Mutant of BeginConvert: the quote is read without FOR UPDATE.
BeginConvertUnlocked(t, q, r) ==
  /\ tx[t] = Idle
  /\ Unused(r)
  /\ \A s \in Reservation : origin[s] # q
  /\ Start(t, Convert(q, r))
  /\ UNCHANGED <<tables, holder>>

\* CreateFromQuoteTx: locks the quote, then refuses one that is converted.
BeginConvert(t, q, r) ==
  /\ tx[t] = Idle
  /\ Unused(r)
  /\ Free(q)
  /\ \A s \in Reservation : origin[s] # q
  /\ Acquire(t, q)
  /\ Start(t, Convert(q, r))
  /\ UNCHANGED tables

\* Reschedule: locks the reservation, loads its items.
BeginReschedule(t, r, w) ==
  /\ tx[t] = Idle
  /\ Free(r)
  /\ status[r] \in Reschedulable
  /\ Acquire(t, r)
  /\ Start(t, Grant("reschedule", r, w, lines[r], KeyOf))
  /\ UNCHANGED tables

\* Key x is locked; after the last one come the checks.
LockNext(t, x) ==
  tx' = [tx EXCEPT ![t].pc = IF tx[t].keys = {x} THEN "check" ELSE "lock",
                   ![t].keys = @ \ {x}]

\* Mutant of LockResource: no lock is taken.
LockResourceNot(t) ==
  /\ tx[t].pc = "lock"
  /\ LockNext(t, Min(tx[t].keys))
  /\ UNCHANGED <<tables, holder>>

\* Mutant of LockResource: the identifiers are not sorted.
LockResourceUnsorted(t) ==
  /\ tx[t].pc = "lock"
  /\ \E x \in tx[t].keys : Free(x) /\ Acquire(t, x) /\ LockNext(t, x)
  /\ UNCHANGED tables

\* LockResources: one pg_advisory_xact_lock per key, smallest first.
LockResource(t) ==
  /\ tx[t].pc = "lock"
  /\ LET x == Min(tx[t].keys)
     IN Free(x) /\ Acquire(t, x) /\ LockNext(t, x)
  /\ UNCHANGED tables

\* CheckWithQuerier: one statement per item, in the order of the request.  The
\* code looks at the remaining items before it refuses; the model refuses at
\* the first that does not fit.
CheckResource(t) ==
  /\ tx[t].pc = "check"
  /\ \E k \in tx[t].todo :
       IF CanFulfill(k, tx[t].win, tx[t].order[k], tx[t].res)
       THEN /\ tx' = [tx EXCEPT
                 ![t].pc = IF tx[t].todo # {k} THEN "check"
                           ELSE IF tx[t].op = "reschedule" THEN "exact"
                           ELSE "commit",
                 ![t].todo = @ \ {k}]
            /\ UNCHANGED <<tables, holder>>
       ELSE Rollback(t)

\* Reschedule's exact check: none of the units it holds may be held by
\* another blocking reservation that overlaps the new window.
CheckUnits(t) ==
  /\ tx[t].pc = "exact"
  /\ IF \E a \in Held(tx[t].res) : UnitConflict(a, tx[t].win, tx[t].res)
     THEN Rollback(t)
     ELSE /\ tx' = [tx EXCEPT ![t].pc = "commit"]
          /\ UNCHANGED <<tables, holder>>

\* The INSERTs of CreateManual and of CreateFromQuoteTx, and COMMIT.
CommitInsert(t) ==
  /\ tx[t].pc = "commit" /\ tx[t].op \in {"create", "convert"}
  /\ status' = [status EXCEPT ![tx[t].res] = "PENDING"]
  /\ window' = [window EXCEPT ![tx[t].res] = tx[t].win]
  /\ lines' = [lines EXCEPT ![tx[t].res] = tx[t].order]
  /\ origin' = [origin EXCEPT ![tx[t].res] = tx[t].quote]
  /\ Finish(t)
  /\ UNCHANGED <<moved, physical, custody>>

\* UPDATE of the schedule, the schedule history row, and COMMIT.
CommitReschedule(t) ==
  /\ tx[t].pc = "commit" /\ tx[t].op = "reschedule"
  /\ window' = [window EXCEPT ![tx[t].res] = tx[t].win]
  /\ moved' = moved \cup {tx[t].res}
  /\ Finish(t)
  /\ UNCHANGED <<status, lines, origin, physical, custody>>

\* Transition, as called by Confirm and by Prepare.
Transition(r, from, to) ==
  /\ Free(r)
  /\ status[r] = from
  /\ status' = [status EXCEPT ![r] = to]
  /\ UNCHANGED <<window, lines, origin, moved, physical, custody, holder, tx>>

Confirm(r) == Transition(r, "PENDING", "CONFIRMED")
Prepare(r) == Transition(r, "CONFIRMED", "PREPARING")

BookingStep(t) ==
  \/ LockResource(t)
  \/ CheckResource(t)
  \/ CheckUnits(t)
  \/ CommitInsert(t)
  \/ CommitReschedule(t)

BookingNext ==
  \/ \E t \in Txn :
       \/ \E r \in Reservation :
            \/ \E w \in Window, order \in Order, spell \in Spelling :
                 BeginCreate(t, r, w, order, spell)
            \/ \E q \in Quote : BeginConvert(t, q, r)
            \/ \E w \in Window : BeginReschedule(t, r, w)
       \/ BookingStep(t)
  \/ \E r \in Reservation : Confirm(r) \/ Prepare(r)
=============================================================================
