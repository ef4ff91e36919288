------------------------------- MODULE Billing -------------------------------
(***************************************************************************)
(* Invoices and payments of a tenant.                                      *)
(*                                                                         *)
(* A request that waits between two statements takes several steps.  One   *)
(* whose reads are all covered by the row it locks first is a single step. *)
(* Names, dates, tax and currency are left out: one customer, one currency *)
(* (Money is about amounts).                                               *)
(***************************************************************************)
EXTENDS BillingState

Put(i, row) == inv' = [inv EXCEPT ![i] = row]

(* Settings and the sources of invoices *)

\* One UPDATE: it waits for an issue that holds the row and never sets `next`.
UpdateSettings ==
  /\ settings' \in Profiles
  /\ UNCHANGED <<next, reserved, inv, pay, fiscal, lock, tx>>

\* Environment: an accepted quote becomes a reservation.
Convert(q) ==
  /\ reserved' = reserved \cup {q}
  /\ UNCHANGED <<settings, next, inv, pay, fiscal, lock, tx>>

\* An invoice that is not VOID charges the quote or the reservation of refs.
SourceTaken(refs) ==
  \E i \in Invoice :
    /\ inv[i].status \notin {"NONE", "VOID"}
    /\ \/ refs.quote # None /\ inv[i].refs.quote = refs.quote
       \/ refs.reservation # None /\ inv[i].refs.reservation = refs.reservation

\* A quote with the reservation that may have been made of it.
QuoteSource(q) == [quote |-> q, reservation |-> IF q \in reserved THEN q ELSE None]

\* A reservation with the quote it was made of.
ReservationSources == {[quote |-> q, reservation |-> q] : q \in reserved}

LoadSource == {Manual} \cup {QuoteSource(q) : q \in Quote} \cup ReservationSources

-----------------------------------------------------------------------------
(* Invoices *)

\* The row a new invoice will get: gen_random_uuid never repeats itself.
Unused(i) == inv[i].status = "NONE" /\ \A t \in Txn : tx[t].op = "create" => tx[t].invoice # i

\* Service: settings, source and totals are read before the transaction.
BeginCreate(t) ==
  /\ settings.enabled
  /\ \E i \in Invoice, refs \in LoadSource, total \in Totals :
       /\ Unused(i)
       /\ ~SourceTaken(refs)
       /\ Begin(t, [Idle EXCEPT !.op = "create", !.pc = "commit", !.invoice = i,
                                !.refs = refs, !.total = total], {})
  /\ UNCHANGED <<money, fiscal>>

\* Mutant of CommitCreate: the check made before the transaction is trusted.
CommitCreateTrusting(t) ==
  /\ tx[t].op = "create"
  /\ Put(tx[t].invoice, [NoInvoice EXCEPT !.status = "DRAFT", !.refs = tx[t].refs,
                                          !.total = tx[t].total])
  /\ Finish(t)
  /\ UNCHANGED <<settings, next, reserved, pay, fiscal>>

\* INSERT: the partial unique indexes on quote and reservation decide.
CommitCreate(t) ==
  /\ tx[t].op = "create"
  /\ IF SourceTaken(tx[t].refs) THEN Rollback(t)
     ELSE /\ Put(tx[t].invoice, [NoInvoice EXCEPT !.status = "DRAFT", !.refs = tx[t].refs,
                                                  !.total = tx[t].total])
          /\ Finish(t)
          /\ UNCHANGED <<settings, next, reserved, pay, fiscal>>

\* A draft gets other lines and another total; its source stays.
UpdateInvoice(i, total) ==
  /\ Free(InvoiceRow(i))
  /\ inv[i].status = "DRAFT"
  /\ Put(i, [inv[i] EXCEPT !.total = total])
  /\ UNCHANGED <<settings, next, reserved, pay, fiscal, lock, tx>>

BeginIssue(t, i) ==
  /\ inv[i].status = "DRAFT"
  /\ Begin(t, [Idle EXCEPT !.op = "issue", !.pc = "commit", !.invoice = i], {InvoiceRow(i)})
  /\ UNCHANGED <<money, fiscal>>

\* billing_settings is locked, its number taken and advanced.
CommitIssue(t) ==
  /\ tx[t].op = "issue"
  /\ IF ~settings.enabled THEN Rollback(t)
     ELSE /\ Put(tx[t].invoice, [inv[tx[t].invoice] EXCEPT
                   !.status = "ISSUED", !.number = next,
                   !.fiscal = IF settings.profile THEN "READY_FOR_DTE" ELSE "NOT_READY"])
          /\ next' = next + 1
          /\ Finish(t)
          /\ UNCHANGED <<settings, reserved, pay, fiscal>>

\* The snapshot of the SELECT ... FOR UPDATE: a statement that waits for the
\* row gets its newest version, but a subquery sees what was committed before.
BeginVoid(t, i) ==
  /\ inv[i].status # "NONE"
  /\ Begin(t, [Idle EXCEPT !.op = "void", !.pc = "invoice", !.invoice = i,
                           !.seen = (Occupied(i) # {})], {})
  /\ UNCHANGED <<money, fiscal>>

\* Mutant of CommitVoid: the paid amount is not looked at.
CommitVoidPaid(t) ==
  LET i == tx[t].invoice IN
  /\ tx[t].op = "void" /\ Free(InvoiceRow(i))
  /\ inv[i].status \in {"DRAFT", "ISSUED", "PARTIALLY_PAID"}
  /\ Put(i, [inv[i] EXCEPT !.status = "VOID", !.fiscal = "VOIDED"])
  /\ Finish(t)
  /\ UNCHANGED <<settings, next, reserved, pay, fiscal>>

CommitVoid(t) ==
  LET i == tx[t].invoice IN
  /\ tx[t].op = "void" /\ Free(InvoiceRow(i))
  /\ IF \/ inv[i].status \notin {"DRAFT", "ISSUED"}
        \/ inv[i].paid # 0
        \/ inv[i].fiscal \in {"SUBMITTED", "ACCEPTED"}
        \/ tx[t].seen
     THEN Rollback(t)
     ELSE /\ Put(i, [inv[i] EXCEPT !.status = "VOID", !.fiscal = "VOIDED"])
          /\ Finish(t)
          /\ UNCHANGED <<settings, next, reserved, pay, fiscal>>

-----------------------------------------------------------------------------
(* Payments *)

\* The orders in which a request may sort its allocations: of one there is one.
Spellings(alloc) == IF Cardinality({i \in Invoice : alloc[i] > 0}) > 1 THEN Ranks ELSE {Stored}

\* The sum of the allocations is the amount of the payment, so the amount is
\* not kept apart; an invoice appears once, with an amount above zero (twice, in
\* two spellings, fails on a unique key at the end and leaves nothing behind).
BeginPayment(t, p, alloc, rank) ==
  /\ pay[p].status = "NONE"
  /\ \A u \in Txn : tx[u].op = "pay" => tx[u].payment # p
  /\ Begin(t, [Idle EXCEPT !.op = "pay", !.pc = "allocations", !.payment = p,
                           !.alloc = alloc, !.rank = rank], {})
  /\ UNCHANGED <<money, fiscal>>

BeginReverse(t, p) ==
  /\ pay[p].status = "CONFIRMED"
  /\ Begin(t, [Idle EXCEPT !.op = "reverse", !.pc = "allocations", !.payment = p,
                           !.alloc = pay[p].alloc], {PaymentRow(p)})
  /\ UNCHANGED <<money, fiscal>>

\* What CreatePayment and VoidPayment ask of each invoice they lock.
Allocatable(t, i) ==
  IF tx[t].op = "pay"
  THEN /\ inv[i].status \in {"ISSUED", "PARTIALLY_PAID"}
       /\ tx[t].alloc[i] + inv[i].paid <= inv[i].total
  ELSE inv[i].paid >= tx[t].alloc[i]

LockAllocation(t) ==
  /\ tx[t].pc = "allocations" /\ Unallocated(t) # {}
  /\ LET i == NextInvoice(t) IN
       /\ Free(InvoiceRow(i))
       /\ IF Allocatable(t, i)
          THEN lock' = [lock EXCEPT ![InvoiceRow(i)] = t] /\ UNCHANGED <<money, fiscal, tx>>
          ELSE Rollback(t)

\* The new paid amount of an invoice with the status it implies.
Settle(row, paid) ==
  [row EXCEPT !.paid = paid,
              !.status = IF paid >= row.total THEN "PAID"
                         ELSE IF paid > 0 THEN "PARTIALLY_PAID" ELSE "ISSUED"]

CommitPayment(t) ==
  /\ tx[t].op = "pay" /\ Unallocated(t) = {}
  /\ pay' = [pay EXCEPT ![tx[t].payment] = [status |-> "CONFIRMED", alloc |-> tx[t].alloc]]
  /\ inv' = [i \in Invoice |-> IF tx[t].alloc[i] = 0 THEN inv[i]
                               ELSE Settle(inv[i], inv[i].paid + tx[t].alloc[i])]
  /\ Finish(t)
  /\ UNCHANGED <<settings, next, reserved, fiscal>>

\* Mutant of CommitReverse: an invoice loses its payments with one of them.
CommitReverseAll(t) ==
  /\ tx[t].op = "reverse" /\ Unallocated(t) = {}
  /\ pay' = [pay EXCEPT ![tx[t].payment].status = "VOIDED"]
  /\ inv' = [i \in Invoice |-> IF tx[t].alloc[i] = 0 THEN inv[i] ELSE Settle(inv[i], 0)]
  /\ Finish(t)
  /\ UNCHANGED <<settings, next, reserved, fiscal>>

CommitReverse(t) ==
  /\ tx[t].op = "reverse" /\ Unallocated(t) = {}
  /\ pay' = [pay EXCEPT ![tx[t].payment].status = "VOIDED"]
  /\ inv' = [i \in Invoice |-> IF tx[t].alloc[i] = 0 THEN inv[i]
                               ELSE Settle(inv[i], inv[i].paid - tx[t].alloc[i])]
  /\ Finish(t)
  /\ UNCHANGED <<settings, next, reserved, fiscal>>

-----------------------------------------------------------------------------
BillingStep(t) ==
  \/ CommitCreate(t) \/ CommitIssue(t) \/ CommitVoid(t)
  \/ LockAllocation(t) \/ CommitPayment(t) \/ CommitReverse(t)

BeginBilling(t) ==
  \/ BeginCreate(t)
  \/ \E i \in Invoice : BeginIssue(t, i) \/ BeginVoid(t, i)
  \/ \E p \in Payment : \E alloc \in Allocations : \E rank \in Spellings(alloc) :
                       BeginPayment(t, p, alloc, rank)
  \/ \E p \in Payment : BeginReverse(t, p)

BillingNext ==
  \/ UpdateSettings
  \/ \E q \in Quote : Convert(q)
  \/ \E i \in Invoice, total \in Totals : UpdateInvoice(i, total)
=============================================================================
