-------------------------------- MODULE Rental --------------------------------
(***************************************************************************)
(* The rental core: Booking, Warehouse and Inventory operations of several *)
(* connections interleaved on one tenant's tables, with transactions that  *)
(* may be aborted at any statement.                                        *)
(***************************************************************************)
EXTENDS Booking, Warehouse, Inventory

Next ==
  \/ BookingNext
  \/ WarehouseNext
  \/ InventoryNext
  \/ \E t \in Txn : Abort(t)

Spec == Init /\ [][Next]_vars

\* A statement the database can run is run; a lock that is released again
\* and again is granted in the end, because PostgreSQL queues waiters.
Step(t) == BookingStep(t) \/ WarehouseStep(t) \/ CommitUpdateAsset(t)

FairSpec == Spec /\ \A t \in Txn : SF_vars(Step(t))

-----------------------------------------------------------------------------
(* Quantity *)

FleetSize(k) == Cardinality({a \in Asset : ResourceOf[a] = k /\ physical[a] # "NONE"})

\* Units of k promised to blocking reservations at an instant.
Demand(k, instant) ==
  SumOver([r \in Reservation |-> lines[r][k]],
          {r \in Reservation : /\ status[r] \in Blocking
                               /\ window[r].start <= instant /\ instant < window[r].end})

\* Blocking reservations never claim more units of a resource at any instant
\* than the tenant owns, however creations, conversions and reschedules
\* interleave (LockResources and CheckWithQuerier).  Demand is highest where
\* some reservation starts.
NoOverbooking ==
  \A r \in Reservation, k \in Resource :
    status[r] \in Blocking => Demand(k, window[r].start) <= FleetSize(k)

\* A quote becomes at most one reservation, whatever conversions race
\* (the quote row lock and the lookup by quote_id in CreateFromQuoteTx).
OneReservationPerQuote ==
  \A r, s \in Reservation : origin[r] # None /\ origin[r] = origin[s] => r = s

\* Every committed effect on reservations is a step of the abstract ledger,
\* in which a grant checks and writes at once.  Owned counts every identity
\* in Asset, whether its row exists yet or not.
Ledger == INSTANCE BookingLedger WITH
  Owned <- [k \in Resource |-> Cardinality({a \in Asset : ResourceOf[a] = k})]

\* The interleaved transactions implement the ledger: no grant is written on
\* a capacity check that another grant has made stale.
ImplementsLedger == Ledger!Spec

-----------------------------------------------------------------------------
(* Exact units *)

Clash(r, s, a) ==
  /\ r # s
  /\ custody[r][a] # "FREE" /\ custody[s][a] # "FREE"
  /\ status[r] \in Blocking /\ status[s] \in Blocking
  /\ Overlaps(window[r], window[s])

\* A unit is never assigned to two overlapping blocking reservations: the
\* promise of the warehouse endpoint (AssignAsset, Reschedule).
UnitExclusive ==
  \A r, s \in Reservation, a \in Asset : ~Clash(r, s, a)

\* What the code guarantees of that promise under concurrency: a clash takes
\* a reservation that was rescheduled, since AssignAsset and Reschedule lock
\* different rows and neither sees the other's uncommitted write.
UnitExclusiveUnlessMoved ==
  \A r, s \in Reservation, a \in Asset :
    Clash(r, s, a) => r \in moved \/ s \in moved

\* Preparation that was declared complete stays complete, and exact: from
\* READY on, each tracked item holds its quantity of units, no fewer and no
\* more, although assignments of the same reservation raced before.
CompleteFromReady ==
  \A r \in Reservation, k \in Tracked :
    status[r] \in {"READY", "CHECKED_OUT", "RETURNED", "COMPLETED"} =>
      Cardinality(UnitsOf(r, k)) = lines[r][k]

\* The state of custody of a reservation's units follows its status, also
\* when an assignment is in flight while the reservation is cancelled or
\* handed over: no unit stays bound to a cancelled reservation, and none is
\* out, or back, alone.
CustodyOf(s) ==
  CASE s \in {"PREPARING", "READY"} -> {"FREE", "ASSIGNED"}
    [] s = "CHECKED_OUT" -> {"FREE", "CHECKED_OUT"}
    [] s \in {"RETURNED", "COMPLETED"} -> {"FREE", "RETURNED"}
    [] OTHER -> {"FREE"}

CustodyMatchesStatus ==
  \A r \in Reservation, a \in Asset : custody[r][a] \in CustodyOf(status[r])

\* The lifecycle, as the guards of the handlers spell it out one by one.
Lifecycle ==
  {<<"PENDING", "CONFIRMED">>, <<"CONFIRMED", "PREPARING">>, <<"PREPARING", "READY">>,
   <<"READY", "CHECKED_OUT">>, <<"CHECKED_OUT", "RETURNED">>, <<"RETURNED", "COMPLETED">>}
  \cup ({"PENDING", "CONFIRMED", "PREPARING", "READY"} \X {"CANCELLED"})

\* What was agreed stands: a reservation goes through its lifecycle without a step
\* back and keeps its items and its quote.  Once it is READY its units stay,
\* unless it is cancelled, and once it is out, back or cancelled its window does
\* too, although an assignment or a reschedule may have begun before.
AgreementStands ==
  [][\A r \in Reservation : status[r] # "NONE" =>
       /\ status'[r] # status[r] => <<status[r], status'[r]>> \in Lifecycle
       /\ lines'[r] = lines[r] /\ origin'[r] = origin[r]
       /\ status[r] \notin {"PENDING", "CONFIRMED", "PREPARING"} =>
            Held(r)' = Held(r) \/ status'[r] = "CANCELLED"
       /\ status[r] \notin Reschedulable => window'[r] = window[r]]_vars

-----------------------------------------------------------------------------
(* Condition of units *)

\* The unit is AVAILABLE at the moment its assignment becomes visible: staff
\* cannot take it out of service between AssignAsset's check and its commit,
\* because the asset row stays locked.
AssignsAvailableUnit ==
  [][\A r \in Reservation, a \in Asset :
       custody[r][a] = "FREE" /\ custody'[r][a] # "FREE" =>
         physical[a] = "AVAILABLE" /\ physical'[a] = "AVAILABLE"]_vars

\* While no patch sets a status (Patch = {None}: staff edits notes, codes and
\* prices), only an inspection changes the condition of a unit: what
\* ReturnWithInspection records is what inventory shows afterwards.
InspectionStands ==
  [][\A a \in Asset :
       physical[a] # "NONE" /\ physical'[a] # physical[a] =>
         \E r \in Reservation : custody[r][a] = "CHECKED_OUT"
                                /\ custody'[r][a] = "RETURNED"]_vars

-----------------------------------------------------------------------------
(* Locks and transactions *)

\* Every connection's transaction ends: no two of them wait for each other,
\* because advisory locks are taken in resource order after at most one row.
EveryTransactionEnds == \A t \in Txn : tx[t] # Idle ~> tx[t] = Idle

\* The lock the next statement of t asks for.  A request that begins waits for
\* its row before it holds anything, and has no statement yet.
Awaits(t, x) ==
  \/ tx[t].pc = "lock" /\ x = Min(tx[t].keys)
  \/ tx[t].pc = "unit" /\ x = tx[t].asset
  \/ tx[t].op = "patch" /\ x = tx[t].asset

WaitsFor(t, u) == \E x \in Lockable : Awaits(t, x) /\ holder[x] = u

\* No deadlock: among any connections, one waits for none of them, so that
\* PostgreSQL never has to cancel one (LockResources sorts the identifiers, and
\* who locks a unit takes no further lock).
NoDeadlock ==
  \A C \in (SUBSET Txn) \ {{}} :
    IsFiniteSet(C) => \E t \in C : \A u \in C : ~ WaitsFor(t, u)

-----------------------------------------------------------------------------
(* The inductive invariant: what a transaction knows, holds and protects   *)
(* at each of its statements.                                              *)

Granting == {"create", "convert", "reschedule"}

\* A transaction carries the fields its remaining statements use.
Shape(x) ==
  /\ x.op = "idle" => x.pc = "idle"
  /\ x.op \in Granting =>
       /\ x.res \in Reservation /\ x.win \in Window
       /\ x.order \in [Resource -> Nat]
       /\ x.pc \in {"lock", "check", "exact", "commit"}
  /\ x.op \in {"create", "convert"} => x.pc # "exact"
  /\ x.op = "assign" =>
       /\ x.res \in Reservation /\ x.asset \in Asset
       /\ x.pc \in {"unit", "commit"}
  /\ x.op = "patch" =>
       /\ x.asset \in Asset /\ x.value \in PhysicalStatus
       /\ x.pc = "commit"
  /\ x.op = "create" => x.quote = None
  /\ x.op = "convert" => x.quote \in Quote

Shapes == \A t \in Txn : Shape(tx[t])

HoldsLocks(t) ==
  /\ tx[t].op \in {"assign", "reschedule"} => holder[tx[t].res] = t
  /\ tx[t].op = "convert" => holder[tx[t].quote] = t
  /\ tx[t].op = "assign" /\ tx[t].pc = "commit" => holder[tx[t].asset] = t

LocksHeld == \A t \in Txn : HoldsLocks(t)

\* A row being inserted does not exist yet, and each insert has its own.
InsertsFresh ==
  \A t \in Txn : tx[t].op \in {"create", "convert"} =>
    /\ status[tx[t].res] = "NONE"
    /\ \A u \in Txn \ {t} :
         tx[u].op \in {"create", "convert"} => tx[u].res # tx[t].res

\* A conversion in progress is of a quote no reservation comes from.
QuoteFresh ==
  \A t \in Txn : tx[t].op = "convert" =>
    \A s \in Reservation : origin[s] # tx[t].quote

\* What AssignAsset has checked is still so when it inserts, except for
\* reservations that moved since.
AssignReady ==
  \A t \in Txn : tx[t].op = "assign" =>
    /\ status[tx[t].res] = "PREPARING"
    /\ tx[t].pc = "commit" =>
         /\ physical[tx[t].asset] = "AVAILABLE"
         /\ \A s \in Reservation \ {tx[t].res} :
              /\ custody[s][tx[t].asset] # "FREE"
              /\ status[s] \in Blocking
              /\ Overlaps(window[s], window[tx[t].res])
              => tx[t].res \in moved \/ s \in moved

\* An assignment about to be inserted is new, and there is room for it.
RoomLeft ==
  \A t \in Txn : tx[t].op = "assign" /\ tx[t].pc = "commit" =>
    LET r == tx[t].res
        k == ResourceOf[tx[t].asset]
    IN /\ custody[r][tx[t].asset] = "FREE"
       /\ Cardinality(UnitsOf(r, k)) < lines[r][k]

\* Preparation never assigns more units than the item asks for.
NeverTooMany ==
  \A r \in Reservation, k \in Tracked :
    status[r] = "PREPARING" => Cardinality(UnitsOf(r, k)) <= lines[r][k]

IInv ==
  /\ TypeOK
  /\ Shapes
  /\ LocksHeld
  /\ InsertsFresh
  /\ QuoteFresh
  /\ AssignReady
  /\ RoomLeft
  /\ NeverTooMany
  /\ CustodyMatchesStatus
  /\ CompleteFromReady
  /\ OneReservationPerQuote
  /\ UnitExclusiveUnlessMoved

-----------------------------------------------------------------------------
(* The inductive invariant of quantities: each item that was checked is    *)
(* protected by the advisory lock of its resource until the grant commits. *)

\* Every request spells identifiers as the database does, so that a resource
\* has one advisory lock.
OneKeyEach == \A spell \in Spelling : spell = KeyOf

KeysHeld ==
  \A t \in Txn : tx[t].op \in Granting =>
    /\ tx[t].pc # "lock" => tx[t].keys = {}
    /\ \A k \in Wanted(tx[t].order) : KeyOf[k] \in tx[t].keys \/ holder[KeyOf[k]] = t

\* What is granted is what was asked for; a reservation that is being moved
\* keeps its items and stays in the house.
GrantsStand ==
  \A t \in Txn :
    /\ tx[t].op = "create" => tx[t].order \in Order
    /\ tx[t].op = "convert" => /\ tx[t].win = QuoteWindow[tx[t].quote]
                               /\ tx[t].order = QuoteOrder[tx[t].quote]
    /\ tx[t].op = "reschedule" => /\ status[tx[t].res] \in Reschedulable
                                  /\ tx[t].order = lines[tx[t].res]

\* An item that was found to fit still fits.
ChecksStand ==
  \A t \in Txn : tx[t].op \in Granting =>
    /\ tx[t].pc = "lock" => tx[t].todo = Wanted(tx[t].order)
    /\ tx[t].pc \in {"exact", "commit"} => tx[t].todo = {}
    /\ \A k \in Wanted(tx[t].order) \ tx[t].todo :
         Reserved(k, tx[t].win, tx[t].res) + tx[t].order[k] <= FleetSize(k)

RowsFull == \A r \in Reservation : status[r] # "NONE" => window[r] \in Window

\* Demand changes at the start of a window only, so these instants are enough.
NeverOver == \A k \in Resource, w \in Window : Demand(k, w.start) <= FleetSize(k)

QuantityInv ==
  /\ TypeOK /\ Shapes /\ LocksHeld /\ InsertsFresh /\ QuoteFresh
  /\ KeysHeld /\ GrantsStand /\ ChecksStand /\ RowsFull /\ NeverOver

-----------------------------------------------------------------------------
(* The inductive invariant of waiting: advisory locks are taken in the     *)
(* order of their keys, and a unit is the last thing to be locked.         *)

\* No reservation is without items.
RowsHaveItems == \A r \in Reservation : status[r] # "NONE" => Wanted(lines[r]) # {}

\* The keys a transaction holds come before those it has still to lock.
KeysInOrder ==
  \A t \in Txn :
    /\ tx[t].pc = "lock" => tx[t].keys # {}
    /\ \A x \in LockKey : holder[x] = t =>
         tx[t].op \in Granting /\ \A y \in tx[t].keys : x < y

UnitsLast ==
  \A t \in Txn, a \in Asset : holder[a] = t => tx[t].op = "assign" /\ tx[t].pc = "commit"

WaitingInv ==
  /\ TypeOK /\ Shapes /\ LocksHeld /\ InsertsFresh
  /\ GrantsStand /\ RowsHaveItems /\ KeysInOrder /\ UnitsLast
=============================================================================
