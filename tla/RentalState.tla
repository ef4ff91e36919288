----------------------------- MODULE RentalState -----------------------------
(***************************************************************************)
(* The tables, locks and shared queries of the rental core: reservations,  *)
(* their items and schedule history, assets and exact-unit assignments.    *)
(* Booking, Warehouse and Inventory add the operations; Rental composes    *)
(* them.                                                                   *)
(*                                                                         *)
(* PostgreSQL runs every transaction at READ COMMITTED: a statement sees   *)
(* what is committed when it starts, so a transaction that reads in one    *)
(* statement and writes in a later one is modelled as several steps of a   *)
(* slot of Txn.  Its writes become visible at its commit step.  Row locks  *)
(* (FOR UPDATE) and advisory transaction locks are held until the          *)
(* transaction ends.  A transaction all of whose reads are covered by the  *)
(* locks it holds is one step, enabled when those locks are free.          *)
(***************************************************************************)
EXTENDS Integers, FiniteSets, FiniteSetsExt, Sums

CONSTANTS
  Reservation,   \* identities of reservation rows
  Asset,         \* identities of asset rows (exact units)
  Resource,      \* identities of catalog resources
  LockKey,       \* strings advisory locks are keyed by, in sort.Strings order
  KeyOf,         \* the key made of a resource identifier read from the database
  Spelling,      \* keys made of the identifiers a request may send
  Quote,         \* ACCEPTED quotes: no operation changes one any more
  Txn,           \* database connections running multi-statement transactions
  None,          \* absent value (SQL NULL)
  ResourceOf,    \* the resource each asset is a unit of
  Tracked,       \* resources with track_individual_assets = TRUE
  Fleet,         \* assets that exist, AVAILABLE, in the initial state
  Window,        \* blocking intervals a caller may ask for
  Order,         \* item lists of manual reservations: quantity per resource
  QuoteWindow,   \* interval of each quote
  QuoteOrder     \* item list of each quote

\* start is inclusive and end exclusive; item lists are never empty.  A request
\* may spell the hexadecimal digits of an identifier in either case (IsUUID):
\* the key is the string it sent, but no string spells two resources.
ASSUME ConstantsAssumption ==
  /\ LockKey \subseteq Nat
  /\ KeyOf \in [Resource -> LockKey]
  /\ Spelling \subseteq [Resource -> LockKey]
  /\ \A s, u \in Spelling \cup {KeyOf}, k, l \in Resource : s[k] = u[l] => k = l
  /\ ResourceOf \in [Asset -> Resource]
  /\ Tracked \subseteq Resource
  /\ Fleet \subseteq Asset
  /\ Window \subseteq [start : Nat, end : Nat]
  /\ \A w \in Window : w.start < w.end
  /\ Order \subseteq [Resource -> Nat]
  /\ \A o \in Order : \E k \in Resource : o[k] > 0
  /\ QuoteWindow \in [Quote -> Window]
  /\ QuoteOrder \in [Quote -> Order]
  /\ None \notin Reservation /\ None \notin Asset /\ None \notin Quote
  /\ None \notin Txn /\ None \notin Window

\* Tables are finite.
ASSUME FiniteAssumption == IsFiniteSet(Asset) /\ IsFiniteSet(Reservation)

\* One advisory or row lock per object: no identity is used for two kinds.
ASSUME DisjointAssumption ==
  /\ Reservation \cap (Asset \cup LockKey \cup Quote) = {}
  /\ Asset \cap (LockKey \cup Quote) = {}
  /\ LockKey \cap Quote = {}

-----------------------------------------------------------------------------
VARIABLES
  status,    \* reservations.status, "NONE" while the row does not exist
  window,    \* reservations.block_start_at / block_end_at
  lines,     \* reservation_items: quantity per resource, 0 for no item
  origin,    \* reservations.quote_id
  moved,     \* reservations with a row in reservation_schedule_history
  physical,  \* assets.physical_status, "NONE" while the row does not exist
  custody,   \* per reservation and asset, the state of the active assignment
  holder,    \* the transaction that holds the lock of each object, or None
  tx         \* the transaction each connection is running

tables == <<status, window, lines, origin, moved, physical, custody>>
vars == <<tables, holder, tx>>

\* Mutant of Blocking: reservations that are out stop blocking.
BlockingForgetsOut == {"PENDING", "CONFIRMED", "PREPARING", "READY"}

Blocking == {"PENDING", "CONFIRMED", "PREPARING", "READY", "CHECKED_OUT"}
Reschedulable == {"PENDING", "CONFIRMED", "PREPARING", "READY"}
Status == Blocking \cup {"RETURNED", "COMPLETED", "CANCELLED"}
PhysicalStatus == {"AVAILABLE", "MAINTENANCE", "DAMAGED", "LOST", "RETIRED"}

\* FREE: no row with released_at IS NULL.
Custody == {"FREE", "ASSIGNED", "CHECKED_OUT", "RETURNED"}

Lockable == Reservation \cup Asset \cup LockKey \cup Quote

\* What a connection remembers between two statements: keys still to be
\* locked, then resources still to be checked (todo); value is the row image
\* an asset update will write.
Idle == [op |-> "idle", pc |-> "idle", res |-> None, asset |-> None,
         win |-> None, order |-> None, quote |-> None, keys |-> {},
         todo |-> {}, value |-> None]

Transaction ==
  [op : {"idle", "create", "convert", "reschedule", "assign", "patch"},
   pc : {"idle", "lock", "check", "exact", "unit", "commit"},
   res : Reservation \cup {None}, asset : Asset \cup {None},
   win : Window \cup {None}, order : [Resource -> Nat] \cup {None},
   quote : Quote \cup {None}, keys : SUBSET LockKey, todo : SUBSET Resource,
   value : PhysicalStatus \cup {None}]

-----------------------------------------------------------------------------
(* Locks *)

Free(x) == holder[x] = None

Acquire(t, x) == holder' = [holder EXCEPT ![x] = t]

\* COMMIT or ROLLBACK: every lock of the transaction is released.
Finish(t) ==
  /\ holder' = [x \in Lockable |-> IF holder[x] = t THEN None ELSE holder[x]]
  /\ tx' = [tx EXCEPT ![t] = Idle]

\* An error return: the deferred Rollback discards everything.
Rollback(t) == Finish(t) /\ UNCHANGED tables

\* The request context is cancelled, the connection is lost or the process
\* stops before COMMIT, at whatever statement the transaction has reached.
Abort(t) == tx[t] # Idle /\ Rollback(t)

Start(t, transaction) == tx' = [tx EXCEPT ![t] = transaction]

-----------------------------------------------------------------------------
(* Queries *)

\* Mutant of Overlaps: only intervals that start inside w count.
OverlapsFromInside(v, w) == w.start <= v.start /\ v.start < w.end

Overlaps(v, w) == v.start < w.end /\ v.end > w.start

Wanted(order) == {k \in Resource : order[k] > 0}

\* Units of k that reservations other than self block during w.
Reserved(k, w, self) ==
  SumOver([r \in Reservation |-> lines[r][k]],
          {r \in Reservation \ {self} : status[r] \in Blocking /\ Overlaps(window[r], w)})

Eligible(k) ==
  Cardinality({a \in Asset : ResourceOf[a] = k /\ physical[a] = "AVAILABLE"})

\* CheckWithQuerier for one item: available is eligible - reserved, floored
\* at zero, and wanted items have a positive quantity.
CanFulfill(k, w, quantity, self) ==
  Eligible(k) - Reserved(k, w, self) >= quantity

\* Active assignments of a reservation, in any state of custody.
Held(r) == {a \in Asset : custody[r][a] # "FREE"}

\* Those of them that are units of k.
UnitsOf(r, k) == {a \in Held(r) : ResourceOf[a] = k}

\* Another blocking reservation that overlaps w holds unit a.
UnitConflict(a, w, self) ==
  \E r \in Reservation \ {self} :
    /\ custody[r][a] # "FREE"
    /\ status[r] \in Blocking
    /\ Overlaps(window[r], w)

\* inventoryGaps is empty: every tracked item has its quantity assigned.
NoInventoryGaps(r) ==
  \A k \in Tracked : Cardinality(UnitsOf(r, k)) >= lines[r][k]

-----------------------------------------------------------------------------
Init ==
  /\ status = [r \in Reservation |-> "NONE"]
  /\ window = [r \in Reservation |-> None]
  /\ lines = [r \in Reservation |-> [k \in Resource |-> 0]]
  /\ origin = [r \in Reservation |-> None]
  /\ moved = {}
  /\ physical = [a \in Asset |-> IF a \in Fleet THEN "AVAILABLE" ELSE "NONE"]
  /\ custody = [r \in Reservation |-> [a \in Asset |-> "FREE"]]
  /\ holder = [x \in Lockable |-> None]
  /\ tx = [t \in Txn |-> Idle]

TypeOK ==
  /\ status \in [Reservation -> Status \cup {"NONE"}]
  /\ window \in [Reservation -> Window \cup {None}]
  /\ lines \in [Reservation -> [Resource -> Nat]]
  /\ origin \in [Reservation -> Quote \cup {None}]
  /\ moved \subseteq Reservation
  /\ physical \in [Asset -> PhysicalStatus \cup {"NONE"}]
  /\ custody \in [Reservation -> [Asset -> Custody]]
  /\ holder \in [Lockable -> Txn \cup {None}]
  /\ tx \in [Txn -> Transaction]
=============================================================================
