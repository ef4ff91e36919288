----------------------------- MODULE Receivables -----------------------------
(***************************************************************************)
(* What billing promises: an account book.  Each document of the book is   *)
(* drafted, numbered in the order of issue without gaps, and cancelled     *)
(* only while nothing was received for it; a receipt is entered once, for  *)
(* no more than what is still due, and may be reversed.  What is due is    *)
(* never written down: it is the total less the receipts that stand.       *)
(***************************************************************************)
EXTENDS Integers, Sequences, Sums

CONSTANTS Invoice, Payment, Totals

VARIABLES
  phase,     \* none, draft, open or cancelled
  total,
  book,      \* the invoices in the order of their numbers
  stands,    \* whether the receipt of a payment does: never, yes or reversed
  alloc      \* what each payment is for

receipts == <<stands, alloc>>
vars == <<phase, total, book, receipts>>

Init ==
  /\ phase = [i \in Invoice |-> "none"]
  /\ total = [i \in Invoice |-> 0]
  /\ book = <<>>
  /\ stands = [p \in Payment |-> "never"]
  /\ alloc = [p \in Payment |-> [i \in Invoice |-> 0]]

Received(i) ==
  SumOver([p \in Payment |-> IF stands[p] = "yes" THEN alloc[p][i] ELSE 0], Payment)

Due(i) == total[i] - Received(i)

Draft(i) ==
  /\ phase[i] \in {"none", "draft"}
  /\ phase' = [phase EXCEPT ![i] = "draft"]
  /\ \E n \in Totals : total' = [total EXCEPT ![i] = n]
  /\ UNCHANGED <<book, receipts>>

Issue(i) ==
  /\ phase[i] = "draft"
  /\ phase' = [phase EXCEPT ![i] = "open"]
  /\ book' = Append(book, i)
  /\ UNCHANGED <<total, receipts>>

Cancel(i) ==
  /\ phase[i] \in {"draft", "open"}
  /\ phase' = [phase EXCEPT ![i] = "cancelled"]
  /\ Received(i) = 0
  /\ UNCHANGED <<total, book, receipts>>

Receive(p) ==
  /\ stands[p] = "never"
  /\ stands' = [stands EXCEPT ![p] = "yes"]
  /\ \E amounts \in [Invoice -> 0 .. Max(Totals \cup {0})] :
       /\ alloc' = [alloc EXCEPT ![p] = amounts]
       /\ \A i \in Invoice : amounts[i] > 0 => phase[i] = "open" /\ amounts[i] <= Due(i)
  /\ UNCHANGED <<phase, total, book>>

Reverse(p) ==
  /\ stands[p] = "yes"
  /\ stands' = [stands EXCEPT ![p] = "reversed"]
  /\ UNCHANGED <<phase, total, book, alloc>>

Next ==
  \/ \E i \in Invoice : Draft(i) \/ Issue(i) \/ Cancel(i)
  \/ \E p \in Payment : Receive(p) \/ Reverse(p)

Spec == Init /\ [][Next]_vars
=============================================================================
