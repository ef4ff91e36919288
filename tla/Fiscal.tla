-------------------------------- MODULE Fiscal --------------------------------
(***************************************************************************)
(* Billing and fiscal documents together, and what must hold of them.      *)
(***************************************************************************)
EXTENDS Billing, Dte, Sums, Sequences

Step(t) == BillingStep(t) \/ DteStep(t)

Next ==
  \/ BillingNext \/ UpdateStation
  \/ \E t \in Txn : BeginBilling(t) \/ BeginDte(t) \/ Step(t) \/ ProviderStep(t)
                    \/ GiveUp(t) \/ Victim(t)

Spec == Init /\ [][Next]_vars

\* A statement that waits for a row gets it in the end (PostgreSQL queues the
\* waiters of a row), the deadlock detector acts, and a request to the provider
\* is answered or times out after 30 seconds.
FairSpec ==
  /\ Spec
  /\ \A t \in Txn : SF_vars(Step(t)) /\ WF_vars(ProviderStep(t)) /\ WF_vars(Victim(t))

-----------------------------------------------------------------------------
(* Type invariant *)

InvoiceRecord ==
  [status : InvoiceStatus, refs : Refs, total : Totals \cup {0}, paid : Nat, number : Nat,
   fiscal : FiscalStatus]

Request ==
  [op : {"idle", "create", "issue", "void", "pay", "reverse", "prepare",
         "submit", "cancel", "invalidate", "applied", "revoked"},
   pc : {"idle", "commit", "invoice", "allocations", "settings", "insert", "send", "document"},
   invoice : Invoice \cup {None}, refs : Refs, total : Totals \cup {0}, seen : BOOLEAN,
   payment : Payment \cup {None}, alloc : [Invoice -> Nat], rank : Ranks \cup {Stored},
   doc : Document \cup {None}, config : Stations \cup {None}, answer : Verdict \cup {None}]

\* The tables and the locals of every request have the shape of their rows.
TypeOK ==
  /\ settings \in Profiles /\ station \in Stations
  /\ next \in Nat \ {0} /\ control \in Nat \ {0}
  /\ reserved \subseteq Quote /\ missed \subseteq Document
  /\ inv \in [Invoice -> InvoiceRecord]
  /\ pay \in [Payment -> [status : {"NONE", "CONFIRMED", "VOIDED"}, alloc : [Invoice -> Nat]]]
  /\ doc \in [Document -> [status : DocumentStatus, invoice : Invoice \cup {None},
                           attempts : 0 .. MaxAttempts, control : Nat]]
  /\ filed \in [Document -> Filed]
  /\ lock \in [Row -> Txn \cup {None}]
  /\ tx \in [Txn -> Request]

-----------------------------------------------------------------------------
(* Billing *)

\* What payment p adds to invoice i.
Allocated(i) == [p \in Payment |-> IF pay[p].status = "CONFIRMED" THEN pay[p].alloc[i] ELSE 0]
Received(i) == SumOver(Allocated(i), Payment)

\* The paid amount stored with an invoice is the sum of what confirmed payments
\* allocate to it, never more than its total, and the status agrees with it:
\* CreatePayment and VoidPayment keep it in step, VoidInvoice never leaves money
\* on a void invoice, and reversing a payment never revives one.
PaidIsSumOfPayments ==
  \A i \in Invoice :
    /\ inv[i].paid = Received(i) /\ inv[i].paid <= inv[i].total
    /\ inv[i].paid > 0 => inv[i].status = IF inv[i].paid = inv[i].total THEN "PAID"
                                          ELSE "PARTIALLY_PAID"
    /\ inv[i].status \in {"PAID", "PARTIALLY_PAID"} => inv[i].paid > 0

\* A quote and the reservation made of it are charged by one invoice at most
\* that is not void, whichever of the two it was created from and however two
\* creations and a conversion interleave.
OneActiveInvoicePerSource ==
  \A i, j \in Invoice :
    (i # j /\ {inv[i].status, inv[j].status} \cap {"NONE", "VOID"} = {}) =>
      /\ inv[i].refs.quote # None => inv[i].refs.quote # inv[j].refs.quote
      /\ inv[i].refs.reservation # None => inv[i].refs.reservation # inv[j].refs.reservation

\* The account book in these tables.
Phase == [i \in Invoice |-> CASE inv[i].status = "NONE" -> "none"
                              [] inv[i].status = "DRAFT" -> "draft"
                              [] inv[i].status = "VOID" -> "cancelled"
                              [] OTHER -> "open"]
Total == [i \in Invoice |-> inv[i].total]
Numbered(n) == CHOOSE i \in Invoice : inv[i].number = n
Book == [n \in 1 .. (next - 1) |-> Numbered(n)]
Stands == [p \in Payment |-> CASE pay[p].status = "NONE" -> "never"
                               [] pay[p].status = "CONFIRMED" -> "yes"
                               [] OTHER -> "reversed"]
Amounts == [p \in Payment |-> pay[p].alloc]

Ledger == INSTANCE Receivables WITH
  phase <- Phase, total <- Total, book <- Book, stands <- Stands, alloc <- Amounts

\* Invoices and payments, in all their statements, are an account book that
\* is changed one entry at a time.
ImplementsReceivables == Ledger!Spec

-----------------------------------------------------------------------------
(* Fiscal documents *)

\* An invoice has one active document at most, and no two documents bear the
\* same control number, whatever was withdrawn or refused before.
OneActiveDocument ==
  /\ \A d, e \in Document :
       d # e /\ {doc[d].status, doc[e].status} \subseteq Active => doc[d].invoice # doc[e].invoice
  /\ \A d, e \in Document :
       d # e /\ doc[d].status # "NONE" /\ doc[e].status # "NONE" => doc[d].control # doc[e].control

\* The fiscal status of an invoice, except a void one, follows its document
\* through submission, answer, withdrawal and invalidation.
FiscalFollowsDocument ==
  \A i \in Invoice : inv[i].status # "VOID" =>
    IF Occupied(i) = {}
    THEN inv[i].fiscal \in {"NOT_READY", "READY_FOR_DTE", "REJECTED", "VOIDED"}
    ELSE \A d \in Occupied(i) :
           inv[i].fiscal \in CASE doc[d].status = "READY_TO_SIGN" -> {"READY_FOR_DTE", "REJECTED"}
                               [] doc[d].status = "RETRY_REQUIRED" -> {"READY_FOR_DTE"}
                               [] doc[d].status = "SUBMITTING" -> {"SUBMITTED"}
                               [] OTHER -> {"ACCEPTED"}

\* Documents about which each answer arrived and was read for what it was.
Heard == Document \ missed

\* Among documents whose answers were heard, the provider holds one valid one at
\* most for an invoice, although a refused or withdrawn one may be prepared anew.
OneValidDocument ==
  \A d, e \in Heard :
    (d # e /\ filed[d] = "accepted" /\ filed[e] = "accepted") => doc[d].invoice # doc[e].invoice

\* Only what the provider has accepted is recorded as accepted, whatever answers
\* were lost or misread: an acceptance needs a seal.
SealedIsFiled ==
  \A d \in Document :
    doc[d].status \in {"ACCEPTED", "INVALIDATION_PENDING", "INVALIDATED"} =>
      filed[d] \in {"accepted", "invalidated"}

\* And while no request about it is under way, a document whose answers were heard
\* is recorded as accepted or invalidated exactly when the provider has it so.
AnswersKept ==
  /\ SealedIsFiled
  /\ \A d \in Heard : (\A t \in Txn : tx[t].doc # d) =>
       /\ doc[d].status = "ACCEPTED" <=> filed[d] = "accepted"
       /\ doc[d].status = "INVALIDATED" <=> filed[d] = "invalidated"

\* docs/ARCHITECTURE.md, Invalidation: "accepted -> INVALIDATED + invoice fiscal
\* VOIDED", of every answer that arrives.  The code violates it.
InvalidationsKept ==
  [][\A t \in Txn : ApplyInvalidationResult(t) /\ tx[t].answer = "refused" =>
       filed[tx[t].doc] # "invalidated"]_vars

\* Where the row of a document may go: one that is being sent is neither withdrawn
\* nor sent again, and refused, withdrawn and invalidated are final.
Passages ==
  ({"READY_TO_SIGN", "RETRY_REQUIRED"} \X {"SUBMITTING", "CANCELLED"})
  \cup ({"SUBMITTING"} \X {"ACCEPTED", "REJECTED", "RETRY_REQUIRED"})
  \cup {<<"ACCEPTED", "INVALIDATION_PENDING">>, <<"INVALIDATION_PENDING", "ACCEPTED">>,
        <<"INVALIDATION_PENDING", "INVALIDATED">>}

\* Whatever requests about a document run at once, and however late an answer
\* comes, the row is moved along its passages by one of them at a time; it keeps
\* its invoice and number through every retry, and each sending is counted.
DocumentsGoForward ==
  [][\A d \in Document : doc[d].status # "NONE" =>
       /\ doc'[d].invoice = doc[d].invoice /\ doc'[d].control = doc[d].control
       /\ doc'[d].status # doc[d].status => <<doc[d].status, doc'[d].status>> \in Passages
       /\ doc'[d].attempts = IF doc'[d].status = "SUBMITTING" /\ doc[d].status # "SUBMITTING"
                             THEN doc[d].attempts + 1 ELSE doc[d].attempts]_vars

\* CHANGELOG.md: "Invoice void is blocked while an active
\* prepared/submitted/accepted DTE exists".  The code violates it.
VoidBlockedByDte == \A i \in Invoice : inv[i].status = "VOID" => Occupied(i) = {}

-----------------------------------------------------------------------------
(* Waiting *)

\* A request whose ids sort as those of the database do.
Canonical(t) ==
  \A i, j \in Invoice :
    i < j /\ tx[t].alloc[i] > 0 /\ tx[t].alloc[j] > 0 => tx[t].rank[i] < tx[t].rank[j]

\* Payments lock their invoices in one order, unless a request spells ids so that
\* they sort otherwise, and a payment before them.  Only a preparation waits for
\* an index entry while it holds the invoice: requests that wait in a circle,
\* however many, include such a payment, or a preparation and another that it
\* waits for and that waits for it, so that PostgreSQL has a victim.
OnlyPrepareDeadlocks ==
  \A C \in (SUBSET Txn) \ {{}} :
    IsFiniteSet(C) /\ (\A t \in C : Canonical(t) /\ \E u \in C : WaitsFor(t, u)) =>
      \E t, u \in C : tx[t].op = "prepare" /\ WaitsFor(t, u) /\ WaitsFor(u, t)

\* docs/ARCHITECTURE.md, Payment transaction: "sort invoice UUIDs", "lock each open
\* invoice deterministically", so that of two payments one waits for the other at
\* most.  The code violates it: it sorts the ids as the requests spell them.
PaymentsInOrder ==
  \A t, u \in Txn :
    tx[t].op = "pay" /\ tx[u].op = "pay" => ~(WaitsFor(t, u) /\ WaitsFor(u, t))

\* Every request ends: rows are locked in turn, and one of two that wait for
\* each other is cancelled.
EveryRequestEnds == \A t \in Txn : tx[t] # Idle ~> tx[t] = Idle

\* A submission does not stay under way, unless its request was given up or an
\* answer about it was missed.
SubmissionSettles ==
  \A d \in Document : doc[d].status = "SUBMITTING" ~> (doc[d].status # "SUBMITTING" \/ d \in missed)

-----------------------------------------------------------------------------
(* The inductive invariant: what each request knows at each statement *)

\* The statements a request goes through.
Stages ==
  {<<"idle", "idle">>, <<"create", "commit">>, <<"issue", "commit">>, <<"void", "invoice">>,
   <<"pay", "allocations">>, <<"reverse", "allocations">>,
   <<"prepare", "invoice">>, <<"prepare", "settings">>, <<"prepare", "insert">>,
   <<"submit", "invoice">>, <<"submit", "send">>, <<"submit", "document">>,
   <<"cancel", "invoice">>, <<"invalidate", "send">>, <<"invalidate", "document">>,
   <<"applied", "invoice">>, <<"revoked", "invoice">>}

OwnsInvoice(t) == tx[t].op = "issue" \/ tx[t].pc \in {"settings", "insert"}
OwnsDocument(t) ==
  tx[t].pc = "invoice" /\ tx[t].op \in {"submit", "cancel", "applied", "revoked"}

\* From the claim of a document to the record of the provider's answer.
Exchanging(t) == tx[t].pc \in {"send", "document"} \/ tx[t].op \in {"applied", "revoked"}
Answering(t) == tx[t].pc = "document" \/ tx[t].op \in {"applied", "revoked"}
OfDocument == {"submit", "cancel", "invalidate", "applied", "revoked"}

\* A request has the locals its statements use.
Locals ==
  \A t \in Txn :
    /\ <<tx[t].op, tx[t].pc>> \in Stages
    /\ tx[t].op \notin {"idle", "pay", "reverse"} => tx[t].invoice \in Invoice
    /\ tx[t].op \in {"pay", "reverse"} => tx[t].payment \in Payment
    /\ tx[t].op = "create" => tx[t].total \in Totals
    /\ tx[t].op \in OfDocument \cup {"prepare"} => tx[t].doc \in Document
    /\ Answering(t) <=> tx[t].answer # None

\* A request holds the rows it has locked, and no others.
LocksMatch ==
  /\ \A t \in Txn, i \in Invoice :
       /\ lock[InvoiceRow(i)] = t =>
            \/ OwnsInvoice(t) /\ tx[t].invoice = i
            \/ tx[t].pc = "allocations" /\ tx[t].alloc[i] > 0
       /\ OwnsInvoice(t) /\ tx[t].invoice = i => lock[InvoiceRow(i)] = t
  /\ \A t \in Txn, p \in Payment :
       lock[PaymentRow(p)] = t <=> tx[t].op = "reverse" /\ tx[t].payment = p
  /\ \A t \in Txn, d \in Document :
       lock[DocumentRow(d)] = t <=> OwnsDocument(t) /\ tx[t].doc = d
  /\ \A t \in Txn : lock[StationRow] = t => tx[t].pc = "insert"

\* The invoices of a payment are locked as its request sorts them.
LocksInOrder ==
  \A t \in Txn, i, j \in Invoice :
    (/\ tx[t].pc = "allocations" /\ lock[InvoiceRow(j)] = t
     /\ tx[t].rank[i] < tx[t].rank[j] /\ tx[t].alloc[i] > 0) => lock[InvoiceRow(i)] = t

\* A row is inserted by one request, and a document exchanged by one.
OneActorEach ==
  \A t, u \in Txn : t # u =>
    /\ tx[t].op = "create" /\ tx[u].op = "create" => tx[t].invoice # tx[u].invoice
    /\ tx[t].op = "pay" /\ tx[u].op = "pay" => tx[t].payment # tx[u].payment
    /\ tx[t].op = "prepare" /\ tx[u].op = "prepare" => tx[t].doc # tx[u].doc
    /\ Exchanging(t) /\ Exchanging(u) => tx[t].doc # tx[u].doc

\* The rows that are about to be inserted are new.
RowsNew(t) ==
  /\ tx[t].op = "create" => inv[tx[t].invoice].status = "NONE"
  /\ tx[t].op = "pay" => pay[tx[t].payment].status = "NONE"
  /\ tx[t].op = "prepare" => doc[tx[t].doc].status = "NONE"

\* What was read of invoices and payments under their locks is still so.
MoneyRead(t) ==
  /\ tx[t].op = "issue" => inv[tx[t].invoice].status = "DRAFT"
  /\ tx[t].pc \in {"settings", "insert"} => Preparable(tx[t].invoice)
  /\ tx[t].op = "reverse" =>
       pay[tx[t].payment] = [status |-> "CONFIRMED", alloc |-> tx[t].alloc]
  /\ \A i \in Invoice :
       tx[t].pc = "allocations" /\ lock[InvoiceRow(i)] = t => Allocatable(t, i)

\* What was read of a document is still so: under its lock, or while the exchange
\* with the provider keeps everyone else away from it.
DocumentRead(t) ==
  LET d == tx[t].doc
  IN  /\ tx[t].pc = "invoice" /\ tx[t].op \in {"submit", "cancel"} => Sendable(d)
      /\ tx[t].pc = "invoice" /\ tx[t].op = "submit" => doc[d].attempts < MaxAttempts
      /\ Exchanging(t) => doc[d].status = IF tx[t].op \in {"submit", "applied"}
                                          THEN "SUBMITTING" ELSE "INVALIDATION_PENDING"
      /\ tx[t].op \in OfDocument => tx[t].invoice = doc[d].invoice

ReadsHold == \A t \in Txn : RowsNew(t) /\ MoneyRead(t) /\ DocumentRead(t)

\* Numbers are given out without gaps, each to one invoice.
NumbersWithoutGaps ==
  /\ \A i \in Invoice : inv[i].number < next
  /\ \A i \in Invoice : inv[i].status \in {"NONE", "DRAFT"} => inv[i].number = 0
  /\ \A i, j \in Invoice : i # j /\ inv[i].number # 0 => inv[i].number # inv[j].number
  /\ \A n \in 1 .. (next - 1) : \E i \in Invoice : inv[i].number = n

\* A document is of an invoice that was issued, and bears a number given out.
DocumentsOfIssued ==
  \A d \in Document : doc[d].status # "NONE" =>
    /\ doc[d].invoice \in Invoice /\ inv[doc[d].invoice].status \notin {"NONE", "DRAFT"}
    /\ doc[d].control < control

\* Where the answers of the provider are: in the table, or with the one request
\* that will record them.
AnswerWith(t, d) ==
  /\ Exchanging(t) /\ tx[t].doc = d
  /\ IF tx[t].op \in {"submit", "applied"}
     THEN IF Answering(t)
          THEN /\ filed[d] \in {"no", "accepted", "refused"}
               /\ tx[t].answer = "accepted" <=> filed[d] = "accepted"
               /\ tx[t].answer = "retry" => filed[d] = "no"
          ELSE filed[d] = "no"
     ELSE IF Answering(t)
          THEN /\ filed[d] \in {"accepted", "invalidated"}
               /\ tx[t].answer = "invalidated" <=> filed[d] = "invalidated"
          ELSE filed[d] = "accepted"

AnswerPlaced(d) ==
  CASE doc[d].status \in {"SUBMITTING", "INVALIDATION_PENDING"} -> \E t \in Txn : AnswerWith(t, d)
    [] doc[d].status = "ACCEPTED" -> filed[d] = "accepted"
    [] doc[d].status = "INVALIDATED" -> filed[d] = "invalidated"
    [] doc[d].status = "REJECTED" -> filed[d] \in {"no", "refused"}
    [] OTHER -> filed[d] = "no"

AnswersPlaced == \A d \in Heard : AnswerPlaced(d)

FiscalInv ==
  /\ TypeOK /\ Locals /\ LocksMatch /\ LocksInOrder
  /\ OneActorEach /\ ReadsHold
  /\ PaidIsSumOfPayments /\ OneActiveInvoicePerSource /\ NumbersWithoutGaps
  /\ DocumentsOfIssued /\ OneActiveDocument /\ FiscalFollowsDocument
  /\ AnswersPlaced

\* An acceptance that is recorded, or will be, came with a seal.
AnswersSealed ==
  /\ SealedIsFiled
  /\ \A t \in Txn :
       tx[t].op \in {"submit", "applied"} /\ tx[t].answer = "accepted" =>
         filed[tx[t].doc] \in {"accepted", "invalidated"}
=============================================================================
