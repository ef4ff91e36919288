--------------------------------- MODULE Offer ---------------------------------
(***************************************************************************)
(* What a formal quote promises, without links, rows or transactions: it   *)
(* is drafted, sent, and decided at most once; only an accepted one is     *)
(* reserved, at the moment it is accepted or later.  QuotePortal           *)
(* implements this.                                                        *)
(***************************************************************************)
CONSTANT Quote

VARIABLES offer, reserved

Init == offer = [q \in Quote |-> "NONE"] /\ reserved = {}

Draft(q) ==
  /\ offer[q] = "NONE"
  /\ offer' = [offer EXCEPT ![q] = "DRAFT"]
  /\ UNCHANGED reserved

Send(q) ==
  /\ offer[q] = "DRAFT"
  /\ offer' = [offer EXCEPT ![q] = "SENT"]
  /\ UNCHANGED reserved

\* Withdrawn before or after it is sent.
Withdraw(q) ==
  /\ offer[q] \in {"DRAFT", "SENT"}
  /\ offer' = [offer EXCEPT ![q] = "CANCELLED"]
  /\ UNCHANGED reserved

Close(q, decision) ==
  /\ offer[q] = "SENT"
  /\ offer' = [offer EXCEPT ![q] = decision]
  /\ UNCHANGED reserved

\* Accepted by the customer: reserved in the same instant.
AcceptAndReserve(q) ==
  /\ offer[q] = "SENT" /\ q \notin reserved
  /\ offer' = [offer EXCEPT ![q] = "ACCEPTED"]
  /\ reserved' = reserved \cup {q}

Reserve(q) ==
  /\ offer[q] = "ACCEPTED" /\ q \notin reserved
  /\ reserved' = reserved \cup {q}
  /\ UNCHANGED offer

Next ==
  \E q \in Quote :
    \/ Draft(q) \/ Send(q) \/ Withdraw(q)
    \/ \E decision \in {"ACCEPTED", "REJECTED", "EXPIRED"} : Close(q, decision)
    \/ AcceptAndReserve(q) \/ Reserve(q)

Spec == Init /\ [][Next]_<<offer, reserved>>
=============================================================================
