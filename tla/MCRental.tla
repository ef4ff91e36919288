------------------------------- MODULE MCRental -------------------------------
(* Values for the constants of Rental in the runs of TLC. *)
EXTENDS Rental, TLC

CONSTANTS r1, r2, r3, a1, a2, a3, t1, t2, q1

\* One resource, two units, and two windows of which one overlaps both
\* halves of the other's neighbourhood.
Early == [start |-> 0, end |-> 2]
Middle == [start |-> 1, end |-> 3]
Late == [start |-> 2, end |-> 4]

OneResource == {1}
TwoResources == {1, 2}
NoneTracked == {}

\* One key per resource: every request spells identifiers as the database.
\* UpperCase is another spelling of the only resource, the one requests use.
SameKey == [k \in Resource |-> k]
OneSpelling == {SameKey}
UpperCase == {[k \in Resource |-> 2]}

UnitsOfOne == [a \in Asset |-> 1]
UnitsOfTwo == [a \in Asset |-> IF a = a1 THEN 1 ELSE 2]

ThreeWindows == {Early, Middle, Late}

OneWindow == {Early}
OneUnit == {[k \in Resource |-> 1]}
OneOrTwoUnits == {[k \in Resource |-> n] : n \in 1..2}

QuotesEarly == [q \in Quote |-> Early]
QuotesOneEach == [q \in Quote |-> [k \in Resource |-> 1]]

NoQuotes == [q \in {} |-> None]

BookingSymmetry == Permutations(Reservation) \cup Permutations(Txn)
FloorSymmetry == BookingSymmetry \cup Permutations(Asset)
=============================================================================
