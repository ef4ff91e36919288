------------------------------- MODULE MCFiscal -------------------------------
(* Values for the constants of Fiscal in the runs of TLC. *)
EXTENDS Fiscal, TLC

CONSTANTS p1, p2, d1, d2, q1, t1, t2

\* A tenant that files documents, and one that has billing switched off.
OnOrOff == {[enabled |-> TRUE, profile |-> TRUE], [enabled |-> FALSE, profile |-> FALSE]}
On == {[enabled |-> TRUE, profile |-> TRUE]}

\* A point of sale in use, and another that is not.
Points == {[enabled |-> TRUE, point |-> 1], [enabled |-> FALSE, point |-> 2]}
OnePoint == {[enabled |-> TRUE, point |-> 1]}
NoPoint == {[enabled |-> FALSE, point |-> 1]}

\* Two invoices whose ids a request may spell so that they sort the other way.
AsStored == {Stored}
Spelled == {Stored, [i \in Invoice |-> 3 - i]}

\* Payments of one invoice, and of both, in equal amounts or not.
Split(a, b) == [i \in Invoice |-> IF i = 1 THEN a ELSE b]
Splits == {Split(1, 0), Split(0, 1), Split(0, 2), Split(1, 1), Split(1, 2), Split(2, 1)}

\* Answers in any words, and answers in those of the repository's own provider
\* (MockProvider): PROCESADO with a seal, INVALIDADO for an invalidation.
Polite == {[http |-> "2xx", word |-> "PROCESADO", seal |-> TRUE],
           [http |-> "2xx", word |-> "INVALIDADO", seal |-> FALSE]}

\* Settings are read where an invoice is created or issued, and nowhere else: a
\* change of them after that leads to nothing new.
SettingsMatter ==
  settings' # settings => \E i \in Invoice : inv[i].status \in {"NONE", "DRAFT"}

ReceivablesSymmetry == Permutations(Payment) \cup Permutations(Txn)
===============================================================================
