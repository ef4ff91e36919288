---------------------------- MODULE BookingLedger ----------------------------
(***************************************************************************)
(* What the rental core promises about quantities, without transactions,   *)
(* locks or statements: bookings are granted, moved and released one at a  *)
(* time, and a grant or a move is possible only if the tenant owns enough  *)
(* units of every wanted resource.  Rental implements this.                *)
(***************************************************************************)
EXTENDS Integers, Sums

CONSTANTS
  Reservation, Resource, Quote, None,
  Owned,       \* units of each resource the tenant can ever own
  Window, Order, QuoteWindow, QuoteOrder

VARIABLES status, window, lines, origin

ledger == <<status, window, lines, origin>>

Blocking == {"PENDING", "CONFIRMED", "PREPARING", "READY", "CHECKED_OUT"}

Meets(v, w) == v.start < w.end /\ v.end > w.start

Booked(k, w, self) ==
  SumOver([r \in Reservation |-> lines[r][k]],
          {r \in Reservation \ {self} : status[r] \in Blocking /\ Meets(window[r], w)})

Fits(r, w, order) ==
  \A k \in Resource : order[k] > 0 => Booked(k, w, r) + order[k] <= Owned[k]

Init ==
  /\ status = [r \in Reservation |-> "NONE"]
  /\ window = [r \in Reservation |-> None]
  /\ lines = [r \in Reservation |-> [k \in Resource |-> 0]]
  /\ origin = [r \in Reservation |-> None]

Write(r, w, order, q) ==
  /\ status[r] = "NONE"
  /\ Fits(r, w, order)
  /\ status' = [status EXCEPT ![r] = "PENDING"]
  /\ window' = [window EXCEPT ![r] = w]
  /\ lines' = [lines EXCEPT ![r] = order]
  /\ origin' = [origin EXCEPT ![r] = q]

Grant(r) == \E w \in Window, order \in Order : Write(r, w, order, None)

\* The first conversion of a quote is the only one.
GrantQuote(r, q) ==
  /\ \A s \in Reservation : origin[s] # q
  /\ Write(r, QuoteWindow[q], QuoteOrder[q], q)

\* Only what has not left the warehouse can be moved.
Move(r, w) ==
  /\ status[r] \in Blocking \ {"CHECKED_OUT"}
  /\ Fits(r, w, lines[r])
  /\ window' = [window EXCEPT ![r] = w]
  /\ UNCHANGED <<status, lines, origin>>

\* The lifecycle: one way through it, left early only by cancellation
\* before anything is handed over.
Lifecycle ==
  {<<"PENDING", "CONFIRMED">>, <<"CONFIRMED", "PREPARING">>,
   <<"PREPARING", "READY">>, <<"READY", "CHECKED_OUT">>,
   <<"CHECKED_OUT", "RETURNED">>, <<"RETURNED", "COMPLETED">>}
  \cup (Blocking \ {"CHECKED_OUT"}) \X {"CANCELLED"}

Advance(r, s) ==
  /\ <<status[r], s>> \in Lifecycle
  /\ status' = [status EXCEPT ![r] = s]
  /\ UNCHANGED <<window, lines, origin>>

Next ==
  \E r \in Reservation :
    \/ Grant(r)
    \/ \E q \in Quote : GrantQuote(r, q)
    \/ \E w \in Window : Move(r, w)
    \/ \E edge \in Lifecycle : Advance(r, edge[2])

Spec == Init /\ [][Next]_ledger
=============================================================================
