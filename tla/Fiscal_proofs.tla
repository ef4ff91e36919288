----------------------------- MODULE Fiscal_proofs -----------------------------
(***************************************************************************)
(* Proofs about Fiscal for any sets of invoices, payments, documents and   *)
(* connections.  A row that is locked is written by nobody else, so what a *)
(* request has read of it stands; a document that is being exchanged with  *)
(* the provider has left every status from which another request starts.   *)
(***************************************************************************)
EXTENDS Fiscal, SumTheorems, SequenceTheorems

\* The invariant in parts: what the tables alone satisfy, of billing and of
\* fiscal documents, and how requests stand to their rows.
MoneyTables == PaidIsSumOfPayments /\ OneActiveInvoicePerSource /\ NumbersWithoutGaps
DocumentTables == DocumentsOfIssued /\ OneActiveDocument /\ FiscalFollowsDocument
Shape == Locals /\ LocksMatch /\ LocksInOrder /\ OneActorEach

\* The invariant has the parts the lemmas below name.
LEMMA InvParts ==
  FiscalInv <=> TypeOK /\ Shape /\ ReadsHold /\ MoneyTables /\ DocumentTables /\ AnswersPlaced
BY DEF FiscalInv, Shape, MoneyTables, DocumentTables

-----------------------------------------------------------------------------
(* Requests and locks *)

\* An idle connection has no locals.
LEMMA IdleFields ==
  /\ Idle \in Request
  /\ Idle.op = "idle" /\ Idle.pc = "idle" /\ Idle.doc = None /\ Idle.answer = None
BY BillingAssumption DEF Idle, Request, Refs, Manual, NoAllocation

\* A request sorts invoices by numbers.
LEMMA RankNumbers ==
  ASSUME TypeOK, NEW t \in Txn
  PROVE  tx[t].rank \in [Invoice -> Nat]
<1>1. tx[t].rank \in Ranks \cup {Stored}
  BY DEF TypeOK, Request
<1>2. Stored \in [Invoice -> Nat]
  BY BillingAssumption DEF Stored
<1> QED BY <1>1, <1>2, BillingAssumption

\* Different rows are different, and all of them are in Row.
LEMMA Rows ==
  /\ \A i \in Invoice : InvoiceRow(i) \in Row
  /\ \A p \in Payment : PaymentRow(p) \in Row
  /\ \A d \in Document : DocumentRow(d) \in Row
  /\ StationRow \in Row
  /\ \A i, j : InvoiceRow(i) = InvoiceRow(j) => i = j
  /\ \A p, q : PaymentRow(p) = PaymentRow(q) => p = q
  /\ \A d, e : DocumentRow(d) = DocumentRow(e) => d = e
  /\ \A i, p : InvoiceRow(i) # PaymentRow(p) /\ InvoiceRow(i) # DocumentRow(p)
               /\ PaymentRow(i) # DocumentRow(p)
  /\ \A i : InvoiceRow(i) # StationRow /\ PaymentRow(i) # StationRow /\ DocumentRow(i) # StationRow
BY DEF InvoiceRow, PaymentRow, DocumentRow, StationRow, Row

\* The amounts and numbers of an invoice.
LEMMA InvoiceFields ==
  ASSUME TypeOK, NEW i \in Invoice
  PROVE  /\ inv[i] \in InvoiceRecord /\ inv[i].status \in InvoiceStatus
         /\ inv[i].paid \in Nat /\ inv[i].total \in Nat /\ inv[i].number \in Nat
<1>1. inv[i] \in InvoiceRecord
  BY DEF TypeOK
<1>2. inv[i].total \in Totals \cup {0}
  BY <1>1 DEF InvoiceRecord
<1>3. inv[i].total \in Nat
  <2>1. CASE inv[i].total \in Totals
    BY <2>1, BillingAssumption
  <2>2. CASE inv[i].total = 0
    BY <2>2
  <2> QED BY <1>2, <2>1, <2>2
<1> QED BY <1>1, <1>3 DEF InvoiceRecord

\* The end of a request releases its rows and nobody else's.
LEMMA FinishFacts ==
  ASSUME TypeOK, NEW t \in Txn, Finish(t)
  PROVE  /\ tx'[t] = Idle /\ \A u \in Txn \ {t} : tx'[u] = tx[u]
         /\ tx' \in [Txn -> Request] /\ lock' \in [Row -> Txn \cup {None}]
         /\ \A row \in Row : lock'[row] # t
         /\ \A row \in Row, u \in Txn \ {t} : lock'[row] = u <=> lock[row] = u
BY IdleFields, BillingAssumption DEF Finish, Unlocked, TypeOK

\* A request that begins locks what is free.
LEMMA BeginFacts ==
  ASSUME TypeOK, NEW t \in Txn, NEW r \in Request, NEW rows \in SUBSET Row, Begin(t, r, rows)
  PROVE  /\ tx[t] = Idle /\ tx'[t] = r /\ \A u \in Txn \ {t} : tx'[u] = tx[u]
         /\ tx' \in [Txn -> Request] /\ lock' \in [Row -> Txn \cup {None}]
         /\ \A row \in rows : lock[row] = None /\ lock'[row] = t
         /\ \A row \in Row \ rows : lock'[row] = lock[row]
BY DEF Begin, Free, TypeOK

\* An idle connection holds no row.
LEMMA IdleHoldsNothing ==
  ASSUME FiscalInv, NEW t \in Txn, tx[t] = Idle
  PROVE  /\ \A i \in Invoice : lock[InvoiceRow(i)] # t
         /\ \A p \in Payment : lock[PaymentRow(p)] # t
         /\ \A d \in Document : lock[DocumentRow(d)] # t
BY IdleFields DEF FiscalInv, LocksMatch, OwnsInvoice, OwnsDocument

-----------------------------------------------------------------------------
(* Frames: what a step leaves alone *)

\* The end of a request disturbs no other request.
LEMMA EndShape ==
  ASSUME TypeOK, Shape, NEW t \in Txn, Finish(t)
  PROVE  Shape'
<1> USE FinishFacts, IdleFields DEF Shape
<1>1. Locals'
  BY DEF Locals, Stages, Answering, OfDocument
<1>2. LocksMatch'
  BY Rows DEF LocksMatch, OwnsInvoice, OwnsDocument
<1>3. LocksInOrder'
  BY Rows DEF LocksInOrder
<1>4. OneActorEach'
  BY DEF OneActorEach, Exchanging
<1> QED
  BY <1>1, <1>2, <1>3, <1>4

\* A row that u has locked, will insert or exchanges with the provider.
Holds(u, i) == lock[InvoiceRow(i)] = u \/ (tx[u].op = "create" /\ tx[u].invoice = i)
HoldsPayment(u, p) == lock[PaymentRow(p)] = u \/ (tx[u].op = "pay" /\ tx[u].payment = p)
HoldsDocument(u, d) ==
  \/ lock[DocumentRow(d)] = u
  \/ (Exchanging(u) \/ tx[u].op = "prepare") /\ tx[u].doc = d

\* What u has read stands unless one of the rows it holds is written.
LEMMA ReadsStand ==
  ASSUME TypeOK, Shape, NEW u \in Txn, RowsNew(u) /\ MoneyRead(u) /\ DocumentRead(u),
         tx'[u] = tx[u],
         \A i \in Invoice : lock'[InvoiceRow(i)] = u <=> lock[InvoiceRow(i)] = u,
         \A i \in Invoice : Holds(u, i) => inv'[i] = inv[i],
         \A p \in Payment : HoldsPayment(u, p) => pay'[p] = pay[p],
         \A d \in Document : HoldsDocument(u, d) => doc'[d] = doc[d]
  PROVE  (RowsNew(u) /\ MoneyRead(u) /\ DocumentRead(u))'
<1>1. RowsNew(u)'
  BY DEF RowsNew, Shape, Locals, OfDocument, Holds, HoldsPayment, HoldsDocument
<1>2. MoneyRead(u)'
  <2>1. ASSUME OwnsInvoice(u) PROVE inv'[tx[u].invoice] = inv[tx[u].invoice]
    BY <2>1 DEF Shape, Locals, LocksMatch, Holds, Stages, OwnsInvoice
  <2>2. ASSUME tx[u].op = "reverse" PROVE pay'[tx[u].payment] = pay[tx[u].payment]
    <3>1. tx[u].payment \in Payment BY <2>2 DEF Shape, Locals
    <3>2. lock[PaymentRow(tx[u].payment)] = u BY <2>2, <3>1 DEF Shape, LocksMatch
    <3> QED BY <3>1, <3>2 DEF HoldsPayment
  <2>3. ASSUME NEW i \in Invoice, tx[u].pc = "allocations", lock'[InvoiceRow(i)] = u
        PROVE  Allocatable(u, i)'
    BY <2>3 DEF MoneyRead, Allocatable, Holds
  <2>4. ASSUME tx[u].pc \in {"settings", "insert"} PROVE Preparable(tx[u].invoice)'
    BY <2>1, <2>4 DEF MoneyRead, Preparable, OwnsInvoice
  <2> QED BY <2>1, <2>2, <2>3, <2>4 DEF MoneyRead, OwnsInvoice
<1>3. DocumentRead(u)'
  <2>1. ASSUME tx[u].op \in OfDocument PROVE HoldsDocument(u, tx[u].doc) /\ tx[u].doc \in Document
    BY <2>1 DEF Shape, Locals, LocksMatch, HoldsDocument, Stages, OwnsDocument, Exchanging, OfDocument
  <2>2. Exchanging(u) => tx[u].op \in OfDocument
    BY DEF Shape, Locals, Stages, Exchanging, OfDocument
  <2>3. doc'[tx[u].doc] = doc[tx[u].doc] \/ tx[u].op \notin OfDocument
    BY <2>1
  <2> QED BY <2>2, <2>3 DEF DocumentRead, Sendable, Exchanging, OfDocument
<1> QED BY <1>1, <1>2, <1>3

\* An idle connection has read nothing.
LEMMA IdleReads ==
  ASSUME NEW t \in Txn, tx'[t] = Idle PROVE (RowsNew(t) /\ MoneyRead(t) /\ DocumentRead(t))'
BY IdleFields DEF RowsNew, MoneyRead, DocumentRead, Exchanging, OfDocument

\* The end of a request that writes rows nobody else holds.
LEMMA EndReads ==
  ASSUME TypeOK, Shape, ReadsHold, NEW t \in Txn, Finish(t),
         \A i \in Invoice, u \in Txn \ {t} : Holds(u, i) => inv'[i] = inv[i],
         \A p \in Payment, u \in Txn \ {t} : HoldsPayment(u, p) => pay'[p] = pay[p],
         \A d \in Document, u \in Txn \ {t} : HoldsDocument(u, d) => doc'[d] = doc[d]
  PROVE  ReadsHold'
<1>1. ASSUME NEW u \in Txn \ {t} PROVE (RowsNew(u) /\ MoneyRead(u) /\ DocumentRead(u))'
  BY ReadsStand, FinishFacts, Rows DEF ReadsHold
<1>2. (RowsNew(t) /\ MoneyRead(t) /\ DocumentRead(t))'
  BY FinishFacts, IdleReads
<1> QED BY <1>1, <1>2 DEF ReadsHold

\* Billing reads neither the fiscal status nor the documents.
LEMMA MoneyStands ==
  ASSUME MoneyTables, UNCHANGED <<next, pay>>,
         \A i \in Invoice : /\ inv'[i].status = inv[i].status /\ inv'[i].refs = inv[i].refs
                            /\ inv'[i].total = inv[i].total /\ inv'[i].paid = inv[i].paid
                            /\ inv'[i].number = inv[i].number
  PROVE  MoneyTables'
<1>1. PaidIsSumOfPayments'
  <2>1. ASSUME NEW i \in Invoice PROVE Received(i)' = Received(i)
    BY DEF Received, Allocated
  <2> QED BY <2>1 DEF MoneyTables, PaidIsSumOfPayments
<1>2. OneActiveInvoicePerSource'
  BY DEF MoneyTables, OneActiveInvoicePerSource
<1>3. NumbersWithoutGaps'
  BY DEF MoneyTables, NumbersWithoutGaps
<1> QED BY <1>1, <1>2, <1>3 DEF MoneyTables

\* Documents see of an invoice that it was issued, whether it is void, and its
\* fiscal status.
LEMMA DocumentsStand ==
  ASSUME DocumentTables, UNCHANGED <<doc, control>>,
         \A i \in Invoice :
           \/ inv'[i].status = inv[i].status /\ inv'[i].fiscal = inv[i].fiscal
           \/ inv'[i].status = "VOID"
           \/ /\ inv[i].status \in {"NONE", "DRAFT"}
              /\ inv'[i].fiscal \in {"NOT_READY", "READY_FOR_DTE"}
           \/ /\ {inv[i].status, inv'[i].status} \cap {"NONE", "DRAFT", "VOID"} = {}
              /\ inv'[i].fiscal = inv[i].fiscal
  PROVE  DocumentTables'
<1>1. ASSUME NEW i \in Invoice PROVE Occupied(i)' = Occupied(i)
  BY DEF Occupied
<1>2. ASSUME NEW i \in Invoice, inv[i].status \in {"NONE", "DRAFT"} PROVE Occupied(i) = {}
  BY <1>2 DEF Occupied, DocumentTables, DocumentsOfIssued, Active
<1>3. DocumentsOfIssued'
  BY DEF DocumentTables, DocumentsOfIssued
<1>4. OneActiveDocument'
  BY <1>1 DEF DocumentTables, OneActiveDocument
<1>5. FiscalFollowsDocument'
  <2> DEFINE Follows(f, i) ==
        IF Occupied(i) = {}
        THEN f \in {"NOT_READY", "READY_FOR_DTE", "REJECTED", "VOIDED"}
        ELSE \A d \in Occupied(i) :
               f \in CASE doc[d].status = "READY_TO_SIGN" -> {"READY_FOR_DTE", "REJECTED"}
                       [] doc[d].status = "RETRY_REQUIRED" -> {"READY_FOR_DTE"}
                       [] doc[d].status = "SUBMITTING" -> {"SUBMITTED"}
                       [] OTHER -> {"ACCEPTED"}
  <2>1. ASSUME NEW i \in Invoice, inv'[i].status # "VOID" PROVE Follows(inv'[i].fiscal, i)
    <3>1. inv[i].status # "VOID" => Follows(inv[i].fiscal, i)
      BY DEF DocumentTables, FiscalFollowsDocument
    <3>2. inv[i].status \in {"NONE", "DRAFT"} => Occupied(i) = {}
      BY <1>2
    <3>3. CASE inv[i].status # "VOID" /\ inv'[i].fiscal = inv[i].fiscal
      <4> HIDE DEF Follows
      <4> QED BY <3>1, <3>3
    <3>4. CASE inv[i].status \in {"NONE", "DRAFT"} /\ inv'[i].fiscal \in {"NOT_READY", "READY_FOR_DTE"}
      BY <3>2, <3>4
    <3> HIDE DEF Follows
    <3> QED BY <2>1, <3>3, <3>4
  <2>2. ASSUME NEW i \in Invoice, Follows(inv'[i].fiscal, i), Occupied(i)' = Occupied(i)
        PROVE  IF Occupied(i)' = {}
               THEN inv'[i].fiscal \in {"NOT_READY", "READY_FOR_DTE", "REJECTED", "VOIDED"}
               ELSE \A d \in Occupied(i)' :
                      inv'[i].fiscal \in
                        CASE doc'[d].status = "READY_TO_SIGN" -> {"READY_FOR_DTE", "REJECTED"}
                          [] doc'[d].status = "RETRY_REQUIRED" -> {"READY_FOR_DTE"}
                          [] doc'[d].status = "SUBMITTING" -> {"SUBMITTED"}
                          [] OTHER -> {"ACCEPTED"}
    BY <2>2
  <2> HIDE DEF Follows
  <2> QED BY <1>1, <2>1, <2>2 DEF FiscalFollowsDocument
<1> QED BY <1>3, <1>4, <1>5 DEF DocumentTables

\* Answers are where they were unless their request is gone, and then lost.
LEMMA AnswersStand ==
  ASSUME AnswersPlaced, UNCHANGED filed, missed \subseteq missed',
         \A d \in Document : doc'[d].status = doc[d].status,
         \A u \in Txn : Exchanging(u) =>
           \/ tx[u].doc \in missed'
           \/ /\ tx'[u].op = tx[u].op /\ tx'[u].pc = tx[u].pc
              /\ tx'[u].doc = tx[u].doc /\ tx'[u].answer = tx[u].answer
  PROVE  AnswersPlaced'
<1>1. ASSUME NEW u \in Txn, NEW d \in Heard', AnswerWith(u, d) PROVE AnswerWith(u, d)'
  BY <1>1 DEF AnswerWith, Exchanging, Answering, Heard
<1> QED BY <1>1 DEF Heard, AnswersPlaced, AnswerPlaced

-----------------------------------------------------------------------------
(* The end of a request that writes nothing *)

\* A request that ends without a write leaves the invariant; if it was exchanging
\* a document with the provider, the answer is lost.
LEMMA EndKeeps ==
  ASSUME FiscalInv, NEW t \in Txn, Finish(t), UNCHANGED <<money, station, control, doc, filed>>,
         missed \subseteq missed', missed' \subseteq Document,
         Exchanging(t) => tx[t].doc \in missed'
  PROVE  FiscalInv'
<1> USE InvParts
<1>1. TypeOK'
  BY FinishFacts DEF TypeOK, money
<1>2. Shape'
  BY EndShape
<1>3. ReadsHold'
  BY EndReads DEF money
<1>4. MoneyTables'
  BY MoneyStands DEF money
<1>5. DocumentTables'
  BY DocumentsStand DEF money
<1>6. AnswersPlaced'
  BY AnswersStand, FinishFacts
<1> QED
  BY <1>1, <1>2, <1>3, <1>4, <1>5, <1>6 DEF FiscalInv, Shape, MoneyTables, DocumentTables

\* Only between the claim of a document and its answer is there anything to lose.
LEMMA RollbackKeeps ==
  ASSUME FiscalInv, NEW t \in Txn, Rollback(t), ~ Exchanging(t) PROVE FiscalInv'
BY EndKeeps DEF Rollback, fiscal, FiscalInv, TypeOK

\* Whoever gives up loses the answer, and nothing else.
LEMMA GiveUpKeeps ==
  ASSUME FiscalInv, NEW t \in Txn, GiveUp(t) PROVE FiscalInv'
<1>1. Exchanging(t) => tx[t].doc \in missed'
  BY DEF GiveUp, Exchanging, FiscalInv, Locals, Answering
<1>2. tx[t].pc \in {"send", "document"} \/ tx[t].answer # None => tx[t].doc \in Document
  BY DEF FiscalInv, Locals, Answering, Stages, OfDocument
<1>3. missed \subseteq missed' /\ missed' \subseteq Document
  BY <1>2 DEF GiveUp, FiscalInv, TypeOK
<1> QED BY <1>1, <1>3, EndKeeps DEF GiveUp

-----------------------------------------------------------------------------
(* Waiting *)

\* The invoice a request locks next is the first it has not locked.
LEMMA NextIsFirst ==
  ASSUME TypeOK, NEW t \in Txn, Unallocated(t) # {}
  PROVE  /\ NextInvoice(t) \in Unallocated(t) /\ NextInvoice(t) \in Invoice
         /\ \A i \in Unallocated(t) : tx[t].rank[NextInvoice(t)] <= tx[t].rank[i]
<1> DEFINE ranks == {tx[t].rank[i] : i \in Unallocated(t)}
<1>1. Unallocated(t) \subseteq Invoice
  BY DEF Unallocated
<1>2. ranks \in SUBSET Nat /\ ranks # {}
  BY <1>1, RankNumbers
<1>3. PICK m \in ranks : \A y \in ranks : m <= y
  <2> HIDE DEF ranks
  <2> QED BY <1>2, LeastElement
<1>4. PICK i \in Unallocated(t) : \A j \in Unallocated(t) : tx[t].rank[i] <= tx[t].rank[j]
  BY <1>3
<1> QED BY <1>1, <1>4 DEF NextInvoice

\* Of two requests that wait for each other none awaits or records an answer:
\* before it waits for the invoice it holds the document only, and a preparation
\* that waits for a document in exchange would not have found the invoice preparable.
LEMMA ExchangesNotInCycle ==
  ASSUME FiscalInv, NEW t \in Txn, NEW u \in Txn, WaitsFor(t, u), WaitsFor(u, t)
  PROVE  ~ Exchanging(t)
<1> SUFFICES ASSUME Exchanging(t) PROVE FALSE
  OBVIOUS
<1>1. PICK row \in Wanted(t) : lock[row] = u
  BY DEF WaitsFor
<1>2. PICK r \in Wanted(u) : lock[r] = t
  BY DEF WaitsFor
<1>3. tx[t].op \in {"submit", "invalidate", "applied", "revoked"} /\ tx[t].pc # "allocations"
      /\ ~ OwnsInvoice(t)
  BY DEF Exchanging, FiscalInv, Locals, Stages, OwnsInvoice
<1>4. \A i \in Invoice : lock[InvoiceRow(i)] # t
  BY <1>3 DEF FiscalInv, LocksMatch
<1>5. lock[StationRow] # t
  BY <1>3 DEF FiscalInv, LocksMatch, OwnsInvoice
<1>6. PICK d \in Document : r = DocumentRow(d) /\ tx[u].pc \in {"document", "insert"}
                            /\ (tx[u].pc = "insert" => d \in Occupied(tx[u].invoice))
  <2>1. tx[u].pc = "invoice" => tx[u].invoice \in Invoice
    BY DEF FiscalInv, Locals, Stages
  <2>2. tx[u].pc = "allocations" /\ Unallocated(u) # {} => NextInvoice(u) \in Invoice
    BY NextIsFirst DEF FiscalInv
  <2>3. tx[u].pc = "document" => tx[u].doc \in Document
    BY DEF FiscalInv, Locals, Stages, OfDocument
  <2> QED BY <1>2, <1>4, <1>5, <2>1, <2>2, <2>3 DEF Wanted, Occupied
<1>7. OwnsDocument(t) /\ tx[t].doc = d
  BY <1>2, <1>6 DEF FiscalInv, LocksMatch
<1>8. tx[t].pc = "invoice" /\ tx[t].invoice \in Invoice /\ row = InvoiceRow(tx[t].invoice)
  BY <1>1, <1>3, <1>7 DEF OwnsDocument, Wanted, FiscalInv, Locals
<1>9. tx[u].pc = "insert"
  BY <1>1, <1>6, <1>8 DEF FiscalInv, LocksMatch, Locals, Stages, OwnsInvoice
<1>10. Preparable(tx[u].invoice) /\ tx[u].invoice \in Invoice
  BY <1>9 DEF FiscalInv, ReadsHold, MoneyRead, Locals, Stages
<1>11. doc[d].status \in {"SUBMITTING", "INVALIDATION_PENDING"}
  BY <1>7 DEF FiscalInv, ReadsHold, DocumentRead
<1>12. inv[tx[u].invoice].fiscal \in {"SUBMITTED", "ACCEPTED"}
  BY <1>6, <1>9, <1>10, <1>11 DEF FiscalInv, FiscalFollowsDocument, Preparable
<1> QED BY <1>10, <1>12 DEF Preparable

\* The request the deadlock detector cancels has no answer to lose.
LEMMA VictimKeeps ==
  ASSUME FiscalInv, NEW t \in Txn, Victim(t) PROVE FiscalInv'
BY ExchangesNotInCycle, RollbackKeeps DEF Victim

-----------------------------------------------------------------------------
(* The beginning of a request *)

\* What a request that writes nothing yet must bring: the locals of its first
\* statement, the rows it owns, and what it has read of them.
Sound(t, r, rows) ==
  /\ <<r.op, r.pc>> \in Stages
  /\ r.op \in {"create", "issue", "void", "pay", "reverse", "prepare", "submit", "cancel"}
  /\ r.pc \in {"commit", "invoice", "allocations"} /\ r.answer = None
  /\ r.op \notin {"pay", "reverse"} => r.invoice \in Invoice
  /\ r.op \in {"pay", "reverse"} => r.payment \in Payment
  /\ r.op = "create" => r.total \in Totals
  /\ r.op \in {"prepare", "submit", "cancel"} => r.doc \in Document
  /\ rows = CASE r.op = "issue" -> {InvoiceRow(r.invoice)}
              [] r.op = "reverse" -> {PaymentRow(r.payment)}
              [] r.op \in {"submit", "cancel"} -> {DocumentRow(r.doc)}
              [] OTHER -> {}
  /\ r.op = "create" => Unused(r.invoice)
  /\ r.op = "pay" => /\ pay[r.payment].status = "NONE"
                     /\ \A u \in Txn : tx[u].op = "pay" => tx[u].payment # r.payment
  /\ r.op = "prepare" => UnusedDocument(r.doc)
  /\ r.op = "issue" => inv[r.invoice].status = "DRAFT"
  /\ r.op = "reverse" => pay[r.payment] = [status |-> "CONFIRMED", alloc |-> r.alloc]
  /\ r.op \in {"submit", "cancel"} => Sendable(r.doc) /\ r.invoice = doc[r.doc].invoice
  /\ r.op = "submit" => doc[r.doc].attempts < MaxAttempts

\* The rows a transaction locks as it begins, by its kind.
LEMMA SoundRows ==
  ASSUME NEW t \in Txn, NEW r \in Request, NEW rows, Sound(t, r, rows)
  PROVE  /\ rows \subseteq Row
         /\ \A i \in Invoice : InvoiceRow(i) \in rows <=> r.op = "issue" /\ r.invoice = i
         /\ \A p \in Payment : PaymentRow(p) \in rows <=> r.op = "reverse" /\ r.payment = p
         /\ \A d \in Document : DocumentRow(d) \in rows <=>
              r.op \in {"submit", "cancel"} /\ r.doc = d
         /\ StationRow \notin rows
<1>1. CASE r.op = "issue"
  BY <1>1, Rows DEF Sound
<1>2. CASE r.op = "reverse"
  BY <1>2, Rows DEF Sound
<1>3. CASE r.op \in {"submit", "cancel"}
  BY <1>3, Rows DEF Sound
<1>4. CASE r.op \notin {"issue", "reverse", "submit", "cancel"}
  BY <1>4 DEF Sound
<1> QED BY <1>1, <1>2, <1>3, <1>4

\* A transaction begins in the shape of its kind.
LEMMA BeginShape ==
  ASSUME TypeOK, Shape, NEW t \in Txn, NEW r \in Request, NEW rows, Sound(t, r, rows),
         Begin(t, r, rows)
  PROVE  Shape'
<1>1. /\ tx[t] = Idle /\ tx'[t] = r /\ \A u \in Txn \ {t} : tx'[u] = tx[u]
      /\ \A row \in rows : lock[row] = None /\ lock'[row] = t
      /\ \A row \in Row \ rows : lock'[row] = lock[row]
  BY SoundRows, BeginFacts
<1>2. Locals'
  BY <1>1 DEF Sound, Shape, Locals, Stages, Answering, OfDocument
<1>3. LocksMatch'
  <2>1. r.pc \notin {"settings", "insert"} /\ (OwnsInvoice(t)' <=> r.op = "issue")
        /\ (OwnsDocument(t)' <=> r.op \in {"submit", "cancel"})
    BY <1>1 DEF Sound, OwnsInvoice, OwnsDocument, Stages
  <2>2. \A u \in Txn \ {t} : (OwnsInvoice(u)' <=> OwnsInvoice(u)) /\ (OwnsDocument(u)' <=> OwnsDocument(u))
    BY <1>1 DEF OwnsInvoice, OwnsDocument
  <2>3. /\ \A i \in Invoice : lock[InvoiceRow(i)] # t
        /\ \A p \in Payment : lock[PaymentRow(p)] # t
        /\ \A d \in Document : lock[DocumentRow(d)] # t
        /\ lock[StationRow] # t
    BY <1>1, IdleFields DEF Shape, LocksMatch, OwnsInvoice, OwnsDocument
  <2>4. ASSUME NEW u \in Txn, NEW i \in Invoice
        PROVE  /\ lock'[InvoiceRow(i)] = u =>
                    \/ OwnsInvoice(u)' /\ tx'[u].invoice = i
                    \/ tx'[u].pc = "allocations" /\ tx'[u].alloc[i] > 0
               /\ OwnsInvoice(u)' /\ tx'[u].invoice = i => lock'[InvoiceRow(i)] = u
    <3>1. CASE u = t BY <3>1, <1>1, <2>1, <2>3, SoundRows, Rows
    <3>2. CASE u # t BY <3>2, <1>1, <2>2, SoundRows, Rows, BillingAssumption DEF Shape, LocksMatch
    <3> QED BY <3>1, <3>2
  <2>5. ASSUME NEW u \in Txn, NEW p \in Payment
        PROVE  lock'[PaymentRow(p)] = u <=> tx'[u].op = "reverse" /\ tx'[u].payment = p
    <3>1. CASE u = t BY <3>1, <1>1, <2>3, SoundRows, Rows
    <3>2. CASE u # t BY <3>2, <1>1, SoundRows, Rows, BillingAssumption DEF Shape, LocksMatch
    <3> QED BY <3>1, <3>2
  <2>6. ASSUME NEW u \in Txn, NEW d \in Document
        PROVE  lock'[DocumentRow(d)] = u <=> OwnsDocument(u)' /\ tx'[u].doc = d
    <3>1. CASE u = t BY <3>1, <1>1, <2>1, <2>3, SoundRows, Rows
    <3>2. CASE u # t BY <3>2, <1>1, <2>2, SoundRows, Rows, BillingAssumption DEF Shape, LocksMatch
    <3> QED BY <3>1, <3>2
  <2>7. \A u \in Txn : lock'[StationRow] = u => tx'[u].pc = "insert"
    BY <1>1, <2>3, SoundRows, Rows DEF Shape, LocksMatch
  <2> QED BY <2>4, <2>5, <2>6, <2>7 DEF LocksMatch
<1>4. LocksInOrder'
  <2>1. ASSUME NEW j \in Invoice, r.pc = "allocations" PROVE lock'[InvoiceRow(j)] # t
    BY <2>1, <1>1, SoundRows, Rows, IdleFields DEF Sound, Stages, Shape, LocksMatch, OwnsInvoice
  <2>2. ASSUME NEW u \in Txn \ {t}, NEW j \in Invoice
        PROVE  lock'[InvoiceRow(j)] = u <=> lock[InvoiceRow(j)] = u
    BY <1>1, SoundRows, Rows, BillingAssumption
  <2> QED BY <2>1, <2>2, <1>1 DEF Shape, LocksInOrder
<1>5. OneActorEach'
  BY <1>1 DEF Shape, OneActorEach, Exchanging, Sound, Unused, UnusedDocument
<1> QED BY <1>2, <1>3, <1>4, <1>5 DEF Shape

\* Beginning a transaction that reads an invoice or the documents, with the row
\* locks it takes, keeps the invariant.
LEMMA BeginKeeps ==
  ASSUME FiscalInv, NEW t \in Txn, NEW r \in Request, NEW rows, Sound(t, r, rows),
         Begin(t, r, rows), UNCHANGED <<money, fiscal>>
  PROVE  FiscalInv'
<1> USE InvParts
<1>1. /\ tx[t] = Idle /\ tx'[t] = r /\ \A u \in Txn \ {t} : tx'[u] = tx[u]
      /\ tx' \in [Txn -> Request] /\ lock' \in [Row -> Txn \cup {None}]
      /\ \A row \in rows : lock[row] = None /\ lock'[row] = t
      /\ \A row \in Row \ rows : lock'[row] = lock[row]
  BY SoundRows, BeginFacts
<1>2. TypeOK'
  BY <1>1 DEF TypeOK, money, fiscal
<1>3. Shape'
  BY BeginShape
<1>4. ReadsHold'
  <2>1. ASSUME NEW u \in Txn \ {t} PROVE (RowsNew(u) /\ MoneyRead(u) /\ DocumentRead(u))'
    <3>1. \A i \in Invoice : lock'[InvoiceRow(i)] = u <=> lock[InvoiceRow(i)] = u
      BY <1>1, SoundRows, Rows, BillingAssumption
    <3> QED BY <1>1, <3>1, ReadsStand DEF ReadsHold, money, fiscal
  <2>2. RowsNew(t)'
    BY <1>1 DEF RowsNew, Sound, Unused, UnusedDocument, money, fiscal
  <2>3. MoneyRead(t)'
    <3>1. ASSUME NEW i \in Invoice, r.pc = "allocations" PROVE lock'[InvoiceRow(i)] # t
      BY <3>1, <1>1, SoundRows, Rows, IdleFields DEF Sound, Stages, Shape, LocksMatch, OwnsInvoice
    <3> QED BY <1>1, <3>1 DEF MoneyRead, Sound, money
  <2>4. DocumentRead(t)'
    BY <1>1 DEF DocumentRead, Sound, Sendable, Exchanging, OfDocument, money, fiscal
  <2> QED BY <2>1, <2>2, <2>3, <2>4 DEF ReadsHold
<1>5. MoneyTables'
  BY MoneyStands DEF money
<1>6. DocumentTables'
  BY DocumentsStand DEF money, fiscal
<1>7. AnswersPlaced'
  <2>1. ~ Exchanging(t)
    BY <1>1, IdleFields DEF Exchanging
  <2> QED BY <2>1, <1>1, AnswersStand DEF fiscal
<1> QED
  BY <1>2, <1>3, <1>4, <1>5, <1>6, <1>7 DEF FiscalInv, Shape, MoneyTables, DocumentTables

\* An allocation is at most the greatest total.
LEMMA GreatestTotal == Max(Totals \cup {0}) \in Nat
<1>1. Totals \cup {0} \in SUBSET Nat /\ Totals \cup {0} # {} /\ IsFiniteSet(Totals \cup {0})
  BY BillingAssumption, FS_AddElement
<1> QED BY <1>1, GreatestElement

\* A draft is created, issued or voided, a payment made or reversed.
LEMMA BeginBillingKeeps ==
  ASSUME FiscalInv, NEW t \in Txn, BeginBilling(t) PROVE FiscalInv'
<1> USE DEF Sound, Stages
<1>1. CASE BeginCreate(t)
  <2>1. PICK i \in Invoice, refs \in LoadSource, total \in Totals :
          Unused(i) /\ Begin(t, [Idle EXCEPT !.op = "create", !.pc = "commit", !.invoice = i,
                                             !.refs = refs, !.total = total], {})
    BY <1>1 DEF BeginCreate
  <2> DEFINE r == [Idle EXCEPT !.op = "create", !.pc = "commit", !.invoice = i,
                               !.refs = refs, !.total = total]
  <2>2. refs \in Refs
    BY DEF LoadSource, Manual, QuoteSource, ReservationSources, Refs, FiscalInv, TypeOK
  <2>3. r \in Request /\ Sound(t, r, {})
    BY <2>1, <2>2, BillingAssumption DEF Idle, Request, NoAllocation
  <2> QED BY <2>1, <2>3, <1>1, BeginKeeps DEF BeginCreate
<1>2. ASSUME NEW i \in Invoice, BeginIssue(t, i) PROVE FiscalInv'
  <2> DEFINE r == [Idle EXCEPT !.op = "issue", !.pc = "commit", !.invoice = i]
  <2>1. r \in Request /\ Sound(t, r, {InvoiceRow(i)})
    BY <1>2, BillingAssumption DEF Idle, Request, NoAllocation, Refs, Manual, BeginIssue
  <2> QED BY <2>1, <1>2, BeginKeeps DEF BeginIssue
<1>3. ASSUME NEW i \in Invoice, BeginVoid(t, i) PROVE FiscalInv'
  <2> DEFINE r == [Idle EXCEPT !.op = "void", !.pc = "invoice", !.invoice = i,
                               !.seen = (Occupied(i) # {})]
  <2>1. r \in Request /\ Sound(t, r, {})
    BY <1>3, BillingAssumption DEF Idle, Request, NoAllocation, Refs, Manual
  <2> QED BY <2>1, <1>3, BeginKeeps DEF BeginVoid
<1>4. ASSUME NEW p \in Payment, NEW alloc \in Allocations,
             NEW rank \in Ranks \cup {Stored}, BeginPayment(t, p, alloc, rank)
      PROVE  FiscalInv'
  <2> DEFINE r == [Idle EXCEPT !.op = "pay", !.pc = "allocations", !.payment = p, !.alloc = alloc,
                               !.rank = rank]
  <2>1. alloc \in [Invoice -> Nat]
    BY BillingAssumption
  <2>2. r \in Request /\ Sound(t, r, {})
    BY <1>4, <2>1, BillingAssumption DEF Idle, Request, Refs, Manual, BeginPayment
  <2> QED BY <2>2, <1>4, BeginKeeps DEF BeginPayment
<1>5. ASSUME NEW p \in Payment, BeginReverse(t, p) PROVE FiscalInv'
  <2> DEFINE r == [Idle EXCEPT !.op = "reverse", !.pc = "allocations", !.payment = p,
                               !.alloc = pay[p].alloc]
  <2>1. pay[p] = [status |-> "CONFIRMED", alloc |-> pay[p].alloc] /\ pay[p].alloc \in [Invoice -> Nat]
    BY <1>5 DEF BeginReverse, FiscalInv, TypeOK
  <2>2. r \in Request /\ Sound(t, r, {PaymentRow(p)})
    BY <1>5, <2>1, BillingAssumption DEF Idle, Request, Refs, Manual
  <2> QED BY <2>2, <1>5, BeginKeeps DEF BeginReverse
<1>6. \A alloc \in Allocations : Spellings(alloc) \subseteq Ranks \cup {Stored}
  BY DEF Spellings
<1> QED BY <1>1, <1>2, <1>3, <1>4, <1>5, <1>6 DEF BeginBilling

\* A document is prepared, submitted or withdrawn.
LEMMA BeginDocumentKeeps ==
  ASSUME FiscalInv, NEW t \in Txn, NEW d \in Document,
         \/ \E i \in Invoice : BeginPrepare(t, i, d)
         \/ BeginSubmit(t, d) \/ BeginCancel(t, d)
  PROVE  FiscalInv'
<1> USE DEF Sound, Stages
<1>1. ASSUME NEW i \in Invoice, BeginPrepare(t, i, d) PROVE FiscalInv'
  <2> DEFINE r == [Idle EXCEPT !.op = "prepare", !.pc = "invoice", !.invoice = i, !.doc = d,
                               !.config = station]
  <2>1. station \in Stations
    BY DEF FiscalInv, TypeOK
  <2>2. r \in Request
    BY <2>1, BillingAssumption DEF Idle, Request, NoAllocation, Refs, Manual
  <2>3. Sound(t, r, {})
    BY <1>1 DEF Idle, BeginPrepare
  <2> QED BY <2>2, <2>3, <1>1, BeginKeeps DEF BeginPrepare
<1>2. Sendable(d) => doc[d].invoice \in Invoice
  BY DEF Sendable, FiscalInv, DocumentsOfIssued
<1>3. CASE BeginSubmit(t, d)
  <2> DEFINE r == [[Idle EXCEPT !.op = "submit"] EXCEPT !.pc = "invoice", !.doc = d,
                                                        !.invoice = doc[d].invoice]
  <2>1. r \in Request /\ Sound(t, r, {DocumentRow(d)})
    BY <1>2, <1>3, BillingAssumption DEF Idle, Request, NoAllocation, Refs, Manual, BeginSubmit
  <2> QED BY <2>1, <1>3, BeginKeeps DEF BeginSubmit, LockDocument
<1>4. CASE BeginCancel(t, d)
  <2> DEFINE r == [[Idle EXCEPT !.op = "cancel"] EXCEPT !.pc = "invoice", !.doc = d,
                                                        !.invoice = doc[d].invoice]
  <2>1. r \in Request /\ Sound(t, r, {DocumentRow(d)})
    BY <1>2, <1>4, BillingAssumption DEF Idle, Request, NoAllocation, Refs, Manual, BeginCancel
  <2> QED BY <2>1, <1>4, BeginKeeps DEF BeginCancel, LockDocument
<1> QED BY <1>1, <1>3, <1>4

-----------------------------------------------------------------------------
(* A document that moves on *)

\* The fiscal status an invoice may have while a document of it has this status.
FiscalOf(status) ==
  CASE status \notin Active -> {"NOT_READY", "READY_FOR_DTE", "REJECTED", "VOIDED"}
    [] status = "READY_TO_SIGN" -> {"READY_FOR_DTE", "REJECTED"}
    [] status = "RETRY_REQUIRED" -> {"READY_FOR_DTE"}
    [] status = "SUBMITTING" -> {"SUBMITTED"}
    [] OTHER -> {"ACCEPTED"}

\* An active document gets another status, and its invoice the one that fits it.
LEMMA DocumentMoves ==
  ASSUME TypeOK, DocumentTables, control' = control,
         NEW d \in Document, doc[d].status \in Active,
         doc'[d].status \in DocumentStatus \ {"NONE"},
         doc'[d].invoice = doc[d].invoice, doc'[d].control = doc[d].control,
         \A e \in Document \ {d} : doc'[e] = doc[e],
         \A i \in Invoice : /\ inv'[i].status = inv[i].status
                            /\ i # doc[d].invoice => inv'[i].fiscal = inv[i].fiscal,
         inv[doc[d].invoice].status # "VOID" =>
           inv'[doc[d].invoice].fiscal \in FiscalOf(doc'[d].status)
  PROVE  DocumentTables'
<1>1. DocumentsOfIssued'
  BY DEF DocumentTables, DocumentsOfIssued, Active
<1>2. OneActiveDocument'
  BY DEF DocumentTables, OneActiveDocument, Active
<1>3. FiscalFollowsDocument'
  <2> SUFFICES ASSUME NEW i \in Invoice, inv[i].status # "VOID"
      PROVE  IF Occupied(i)' = {}
             THEN inv'[i].fiscal \in FiscalOf("NONE")
             ELSE \A e \in Occupied(i)' : inv'[i].fiscal \in FiscalOf(doc'[e].status)
    BY DEF FiscalFollowsDocument, FiscalOf, Active, Occupied
  <2>1. CASE i = doc[d].invoice
    <3>1. Occupied(i)' \subseteq {d}
      BY <2>1 DEF Occupied, DocumentTables, OneActiveDocument
    <3>2. d \in Occupied(i)' <=> doc'[d].status \in Active
      BY <2>1 DEF Occupied
    <3>3. inv'[i].fiscal \in FiscalOf(doc'[d].status)
      BY <2>1
    <3>4. doc'[d].status \notin Active => FiscalOf(doc'[d].status) = FiscalOf("NONE")
      BY DEF FiscalOf, Active
    <3> QED BY <3>1, <3>2, <3>3, <3>4
  <2>2. CASE i # doc[d].invoice
    <3>1. Occupied(i)' = Occupied(i) /\ d \notin Occupied(i)
      BY <2>2 DEF Occupied
    <3>2. inv'[i].fiscal = inv[i].fiscal
      BY <2>2
    <3>3. \A e \in Occupied(i) : doc'[e].status = doc[e].status
      BY <3>1 DEF Occupied
    <3>4. IF Occupied(i) = {}
          THEN inv[i].fiscal \in FiscalOf("NONE")
          ELSE \A e \in Occupied(i) : inv[i].fiscal \in FiscalOf(doc[e].status)
      BY DEF DocumentTables, FiscalFollowsDocument, FiscalOf, Active, Occupied
    <3> QED BY <3>1, <3>2, <3>3, <3>4
  <2> QED BY <2>1, <2>2
<1> QED BY <1>1, <1>2, <1>3 DEF DocumentTables

\* Nobody exchanges a document whose status is not that of an exchange.
LEMMA NotExchanged ==
  ASSUME ReadsHold, NEW u \in Txn, NEW d \in Document,
         doc[d].status \notin {"SUBMITTING", "INVALIDATION_PENDING"}
  PROVE  ~ (Exchanging(u) /\ tx[u].doc = d)
BY DEF ReadsHold, DocumentRead

\* Of a document that was inserted, nobody holds more than its lock.
LEMMA HoldsByLock ==
  ASSUME ReadsHold, NEW u \in Txn, NEW d \in Document, doc[d].status # "NONE",
         doc[d].status \notin {"SUBMITTING", "INVALIDATION_PENDING"}, HoldsDocument(u, d)
  PROVE  lock[DocumentRow(d)] = u
BY NotExchanged DEF HoldsDocument, ReadsHold, RowsNew

\* BeginInvalidation keeps the invariant: the document it marks was ACCEPTED.
LEMMA BeginInvalidationKeeps ==
  ASSUME FiscalInv, NEW t \in Txn, NEW d \in Document, BeginInvalidation(t, d)
  PROVE  FiscalInv'
<1> USE InvParts
<1> DEFINE r == [Idle EXCEPT !.op = "invalidate", !.pc = "send", !.doc = d,
                             !.invoice = doc[d].invoice]
<1>1. /\ tx[t] = Idle /\ tx'[t] = r /\ \A u \in Txn \ {t} : tx'[u] = tx[u]
      /\ lock' = lock /\ lock[DocumentRow(d)] = None /\ UNCHANGED <<inv, pay, next, control, filed, missed>>
      /\ doc[d].status = "ACCEPTED" /\ doc'[d] = [doc[d] EXCEPT !.status = "INVALIDATION_PENDING"]
      /\ \A e \in Document \ {d} : doc'[e] = doc[e]
  BY DEF BeginInvalidation, TypeOK, Mark, Free, money
<1>2. doc[d].invoice \in Invoice
  BY <1>1 DEF DocumentTables, DocumentsOfIssued
<1>3. r \in Request /\ r.op = "invalidate" /\ r.pc = "send" /\ r.doc = d /\ r.answer = None
      /\ r.invoice = doc[d].invoice
  BY <1>2, BillingAssumption DEF Idle, Request, Refs, Manual, NoAllocation
<1> HIDE DEF r
<1>4. TypeOK'
  BY <1>1, <1>3 DEF TypeOK, BeginInvalidation, Mark, money, DocumentStatus, Active
<1>5. \A u \in Txn : ~ (Exchanging(u) /\ tx[u].doc = d)
  BY <1>1, NotExchanged
<1>6. Shape'
  <2>1. Locals'
    BY <1>1, <1>2, <1>3 DEF Shape, Locals, Stages, Answering, OfDocument
  <2>2. LocksMatch'
    BY <1>1, <1>3, IdleFields DEF Shape, LocksMatch, OwnsInvoice, OwnsDocument
  <2>3. LocksInOrder'
    BY <1>1, <1>3 DEF Shape, LocksInOrder
  <2>4. OneActorEach'
    BY <1>1, <1>3, <1>5 DEF Shape, OneActorEach, Exchanging
  <2> QED BY <2>1, <2>2, <2>3, <2>4 DEF Shape
<1>7. ReadsHold'
  <2>1. ASSUME NEW u \in Txn \ {t} PROVE (RowsNew(u) /\ MoneyRead(u) /\ DocumentRead(u))'
    <3>1. ~ HoldsDocument(u, d)
      BY <1>1, HoldsByLock, BillingAssumption
    <3> QED BY <1>1, <3>1, ReadsStand DEF ReadsHold
  <2>2. RowsNew(t)' /\ MoneyRead(t)'
    BY <1>1, <1>3 DEF RowsNew, MoneyRead
  <2>3. DocumentRead(t)'
    BY <1>1, <1>3, doc'[d].status = "INVALIDATION_PENDING", doc'[d].invoice = doc[d].invoice
    DEF DocumentRead, TypeOK
  <2> QED BY <2>1, <2>2, <2>3 DEF ReadsHold
<1>8. MoneyTables'
  BY <1>1, MoneyStands
<1>9. DocumentTables'
  <2>1. inv[doc[d].invoice].status # "VOID" => inv[doc[d].invoice].fiscal = "ACCEPTED"
    BY <1>1, <1>2 DEF DocumentTables, FiscalFollowsDocument, Occupied, Active
  <2>2. /\ doc[d].status \in Active /\ doc'[d].status \in DocumentStatus \ {"NONE"}
        /\ doc'[d].invoice = doc[d].invoice /\ doc'[d].control = doc[d].control
        /\ FiscalOf(doc'[d].status) = {"ACCEPTED"}
    BY <1>1 DEF TypeOK, Active, DocumentStatus, FiscalOf
  <2> QED BY <1>1, <2>1, <2>2, DocumentMoves
<1>10. AnswersPlaced'
  <2>1. ASSUME NEW e \in Heard, NEW u \in Txn, AnswerWith(u, e) PROVE AnswerWith(u, e)'
    BY <2>1, <1>1, IdleFields DEF AnswerWith, Exchanging, Answering
  <2>2. d \notin missed => AnswerWith(t, d)'
    BY <1>1, <1>3 DEF AnswerWith, Exchanging, Answering, AnswersPlaced, AnswerPlaced, Heard
  <2> QED BY <1>1, <2>1, <2>2 DEF AnswersPlaced, AnswerPlaced, TypeOK, Heard
<1> QED
  BY <1>4, <1>6, <1>7, <1>8, <1>9, <1>10 DEF FiscalInv, Shape, MoneyTables, DocumentTables

-----------------------------------------------------------------------------
(* A request that goes on: it locks a row, or hears from the provider *)

\* A row that is granted to t was free, and nothing changes for the others.
LEMMA GrantFacts ==
  ASSUME TypeOK, NEW t \in Txn, NEW row \in Row, Free(row), lock' = [lock EXCEPT ![row] = t]
  PROVE  /\ lock' \in [Row -> Txn \cup {None}] /\ lock[row] = None /\ lock'[row] = t
         /\ \A r \in Row \ {row} : lock'[r] = lock[r]
         /\ \A u \in Txn \ {t}, r \in Row : lock'[r] = u <=> lock[r] = u
BY BillingAssumption DEF TypeOK, Free

\* A step of t without a write: the others know what they knew.
LEMMA OthersRead ==
  ASSUME TypeOK, Shape, ReadsHold, NEW t \in Txn, UNCHANGED <<inv, pay, doc>>,
         \A u \in Txn \ {t} : tx'[u] = tx[u],
         \A u \in Txn \ {t}, r \in Row : lock'[r] = u <=> lock[r] = u
  PROVE  \A u \in Txn \ {t} : (RowsNew(u) /\ MoneyRead(u) /\ DocumentRead(u))'
<1> SUFFICES ASSUME NEW u \in Txn \ {t} PROVE (RowsNew(u) /\ MoneyRead(u) /\ DocumentRead(u))'
  OBVIOUS
<1>1. \A i \in Invoice : lock'[InvoiceRow(i)] = u <=> lock[InvoiceRow(i)] = u
  BY Rows
<1> QED BY <1>1, ReadsStand DEF ReadsHold

\* RegisterPayment keeps the invariant while it locks the invoices it allocates to.
LEMMA LockAllocationKeeps ==
  ASSUME FiscalInv, NEW t \in Txn, LockAllocation(t) PROVE FiscalInv'
<1> USE InvParts
<1> DEFINE i == NextInvoice(t)
<1>1. i \in Unallocated(t) /\ i \in Invoice
      /\ \A j \in Unallocated(t) : tx[t].rank[i] <= tx[t].rank[j]
  BY NextIsFirst DEF LockAllocation
<1>2. tx[t].pc = "allocations" /\ tx[t].op \in {"pay", "reverse"} /\ Free(InvoiceRow(i))
  BY DEF LockAllocation, Shape, Locals, Stages
<1>3. CASE ~ Allocatable(t, i)
  BY <1>2, <1>3, RollbackKeeps DEF LockAllocation, Exchanging
<1>4. CASE Allocatable(t, i)
  <2>1. lock' = [lock EXCEPT ![InvoiceRow(i)] = t] /\ UNCHANGED <<money, fiscal, tx>>
    BY <1>4 DEF LockAllocation
  <2> HIDE DEF i
  <2>2. /\ lock' \in [Row -> Txn \cup {None}] /\ lock[InvoiceRow(i)] = None /\ lock'[InvoiceRow(i)] = t
        /\ \A r \in Row \ {InvoiceRow(i)} : lock'[r] = lock[r]
        /\ \A u \in Txn \ {t}, r \in Row : lock'[r] = u <=> lock[r] = u
    BY <2>1, <1>1, <1>2, Rows, GrantFacts
  <2>3. TypeOK'
    BY <2>1, <2>2 DEF TypeOK, money, fiscal
  <2>4. Shape'
    <3>1. Locals' /\ OneActorEach'
      BY <2>1 DEF Shape, Locals, OneActorEach, Answering, Exchanging
    <3>2. LocksMatch'
      <4>1. \A u \in Txn : (OwnsInvoice(u)' <=> OwnsInvoice(u)) /\ (OwnsDocument(u)' <=> OwnsDocument(u))
        BY <2>1 DEF OwnsInvoice, OwnsDocument
      <4>2. tx[t].alloc[i] > 0
        BY <1>1 DEF Unallocated
      <4> QED BY <1>1, <1>2, <2>1, <2>2, <4>1, <4>2, Rows, BillingAssumption DEF Shape, LocksMatch
    <3>3. LocksInOrder'
      <4> SUFFICES ASSUME NEW u \in Txn, NEW h \in Invoice, NEW j \in Invoice,
                          tx[u].pc = "allocations", lock'[InvoiceRow(j)] = u,
                          tx[u].rank[h] < tx[u].rank[j], tx[u].alloc[h] > 0
          PROVE  lock'[InvoiceRow(h)] = u
        BY <2>1 DEF LocksInOrder
      <4>1. CASE u # t
        BY <4>1, <2>2, Rows DEF Shape, LocksInOrder
      <4>2. CASE u = t /\ j = i
        <5>1. ~ (tx[t].rank[i] <= tx[t].rank[h])
          BY <4>2, <1>1, RankNumbers
        <5>2. lock[InvoiceRow(h)] = t
          BY <4>2, <5>1, <1>1 DEF Unallocated
        <5> QED BY <4>2, <5>2, <2>2, Rows
      <4>3. CASE u = t /\ j # i
        <5>1. lock[InvoiceRow(j)] = t
          BY <4>3, <2>2, Rows, <1>1
        <5>2. lock[InvoiceRow(h)] = t
          BY <4>3, <5>1 DEF Shape, LocksInOrder
        <5> QED BY <4>3, <5>2, <2>2, Rows
      <4> QED BY <4>1, <4>2, <4>3
    <3> QED BY <3>1, <3>2, <3>3 DEF Shape
  <2>5. ReadsHold'
    <3>1. RowsNew(t)' /\ DocumentRead(t)'
      BY <2>1 DEF ReadsHold, RowsNew, DocumentRead, Sendable, Exchanging, money, fiscal
    <3>2. MoneyRead(t)'
      <4>1. ASSUME NEW j \in Invoice, lock'[InvoiceRow(j)] = t PROVE Allocatable(t, j)'
        <5>1. CASE j = i
          BY <5>1, <1>4, <2>1 DEF Allocatable, money
        <5>2. CASE j # i
          <6>1. lock[InvoiceRow(j)] = t
            BY <5>2, <4>1, <2>2, Rows, <1>1
          <6>2. Allocatable(t, j)
            BY <6>1, <1>2 DEF ReadsHold, MoneyRead
          <6> QED BY <6>2, <2>1 DEF Allocatable, money
        <5> QED BY <5>1, <5>2
      <4> QED BY <4>1, <1>2, <2>1 DEF ReadsHold, MoneyRead, Preparable, money
    <3> QED BY <3>1, <3>2, <2>1, <2>2, OthersRead DEF ReadsHold, money, fiscal
  <2>6. MoneyTables' /\ DocumentTables'
    BY <2>1, MoneyStands, DocumentsStand DEF money, fiscal
  <2>7. AnswersPlaced'
    BY <2>1, AnswersStand DEF fiscal
  <2> QED
    BY <2>3, <2>4, <2>5, <2>6, <2>7 DEF FiscalInv, Shape, MoneyTables, DocumentTables
<1> QED BY <1>3, <1>4

\* A preparation locks its invoice, which it finds preparable, then the settings.
LEMMA PreparationGoesOn ==
  ASSUME FiscalInv, NEW t \in Txn, NEW row \in Row, NEW pc, tx[t].op = "prepare",
         \/ tx[t].pc = "invoice" /\ pc = "settings" /\ row = InvoiceRow(tx[t].invoice)
            /\ Preparable(tx[t].invoice)
         \/ tx[t].pc = "settings" /\ pc = "insert" /\ row = StationRow,
         Free(row), lock' = [lock EXCEPT ![row] = t], tx' = [tx EXCEPT ![t].pc = pc],
         UNCHANGED <<money, fiscal>>
  PROVE  FiscalInv'
<1> USE InvParts
<1> DEFINE i == tx[t].invoice
<1>1. i \in Invoice /\ tx[t].pc \in {"invoice", "settings"} /\ pc \in {"settings", "insert"}
  BY DEF Shape, Locals
<1>2. /\ lock' \in [Row -> Txn \cup {None}] /\ lock[row] = None /\ lock'[row] = t
      /\ \A r \in Row \ {row} : lock'[r] = lock[r]
      /\ \A u \in Txn \ {t}, r \in Row : lock'[r] = u <=> lock[r] = u
  BY GrantFacts
<1>3. tx' \in [Txn -> Request] /\ \A u \in Txn \ {t} : tx'[u] = tx[u]
  <2>1. tx[t] \in Request
    BY DEF TypeOK
  <2>2. [tx[t] EXCEPT !.pc = pc] \in Request
    BY <1>1, <2>1 DEF Request
  <2> QED BY <2>2 DEF TypeOK
<1>4. tx'[t].op = "prepare" /\ tx'[t].pc = pc /\ tx'[t].invoice = i /\ tx'[t].doc = tx[t].doc
      /\ tx'[t].answer = tx[t].answer
  BY <1>1 DEF TypeOK, Request
<1>5. /\ \A p \in Payment : PaymentRow(p) # row
      /\ \A d \in Document : DocumentRow(d) # row
      /\ row = StationRow <=> pc = "insert"
  BY Rows
<1>6. \A j \in Invoice : lock'[InvoiceRow(j)] = t <=> j = i
  BY <1>1, <1>2, Rows DEF Shape, LocksMatch, OwnsInvoice
<1>7. TypeOK'
  BY <1>2, <1>3 DEF TypeOK, money, fiscal
<1>8. Shape'
  <2>1. Locals'
    BY <1>1, <1>3, <1>4 DEF Shape, Locals, Stages, Answering, OfDocument
  <2>2. OneActorEach'
    BY <1>1, <1>3, <1>4 DEF Shape, OneActorEach, Exchanging
  <2>3. LocksMatch'
    <3>1. \A u \in Txn \ {t} : (OwnsInvoice(u)' <=> OwnsInvoice(u)) /\ (OwnsDocument(u)' <=> OwnsDocument(u))
      BY <1>3 DEF OwnsInvoice, OwnsDocument
    <3>2. OwnsInvoice(t)' /\ ~ OwnsDocument(t)' /\ ~ OwnsDocument(t)
      BY <1>1, <1>4 DEF OwnsInvoice, OwnsDocument
    <3>3. ASSUME NEW u \in Txn, NEW j \in Invoice
          PROVE  /\ lock'[InvoiceRow(j)] = u =>
                      \/ OwnsInvoice(u)' /\ tx'[u].invoice = j
                      \/ tx'[u].pc = "allocations" /\ tx'[u].alloc[j] > 0
                 /\ OwnsInvoice(u)' /\ tx'[u].invoice = j => lock'[InvoiceRow(j)] = u
      <4>1. CASE u = t
        BY <4>1, <1>4, <1>6, <3>2
      <4>2. CASE u # t
        BY <4>2, <1>2, <1>3, <3>1, Rows DEF Shape, LocksMatch
      <4> QED BY <4>1, <4>2
    <3>4. ASSUME NEW u \in Txn, NEW p \in Payment
          PROVE  lock'[PaymentRow(p)] = u <=> tx'[u].op = "reverse" /\ tx'[u].payment = p
      <4>1. lock'[PaymentRow(p)] = lock[PaymentRow(p)]
        BY <1>2, <1>5, Rows
      <4>2. CASE u = t
        BY <4>1, <4>2, <1>4 DEF Shape, LocksMatch
      <4>3. CASE u # t
        BY <4>1, <4>3, <1>3 DEF Shape, LocksMatch
      <4> QED BY <4>2, <4>3
    <3>5. \A u \in Txn, d \in Document :
            lock'[DocumentRow(d)] = u <=> OwnsDocument(u)' /\ tx'[u].doc = d
      BY <1>2, <1>3, <1>5, <3>1, <3>2, Rows DEF Shape, LocksMatch
    <3>6. ASSUME NEW u \in Txn, lock'[StationRow] = u PROVE tx'[u].pc = "insert"
      <4>1. CASE row = StationRow
        BY <4>1, <3>6, <1>2, <1>4, <1>5
      <4>2. CASE row # StationRow
        BY <4>2, <3>6, <1>1, <1>2, <1>3, <1>4, Rows DEF Shape, LocksMatch
      <4> QED BY <4>1, <4>2
    <3> QED BY <3>3, <3>4, <3>5, <3>6 DEF LocksMatch
  <2>4. LocksInOrder'
    <3>1. ASSUME NEW u \in Txn \ {t}, NEW j \in Invoice
          PROVE  lock'[InvoiceRow(j)] = u <=> lock[InvoiceRow(j)] = u
      BY <1>2, Rows
    <3> QED BY <3>1, <1>1, <1>3, <1>4 DEF Shape, LocksInOrder
  <2> QED BY <2>1, <2>2, <2>3, <2>4 DEF Shape
<1>9. ReadsHold'
  <2>1. RowsNew(t)'
    BY <1>4 DEF ReadsHold, RowsNew, money, fiscal
  <2>2. Preparable(i)
    BY <1>1 DEF ReadsHold, MoneyRead
  <2>3. inv' = inv
    BY DEF money
  <2>4. Preparable(i)'
    BY <2>2, <2>3, <1>4 DEF Preparable
  <2>5. MoneyRead(t)' /\ DocumentRead(t)'
    BY <1>1, <1>4, <2>4 DEF MoneyRead, DocumentRead, Exchanging, OfDocument
  <2> QED BY <2>1, <2>5, <1>2, <1>3, OthersRead DEF ReadsHold, money, fiscal
<1>10. MoneyTables' /\ DocumentTables'
  BY MoneyStands, DocumentsStand DEF money, fiscal
<1>11. AnswersPlaced'
  <2>1. ~ Exchanging(t)
    BY <1>1 DEF Exchanging
  <2> QED BY <1>3, <2>1, AnswersStand DEF fiscal
<1> QED
  BY <1>7, <1>8, <1>9, <1>10, <1>11 DEF FiscalInv, Shape, MoneyTables, DocumentTables

\* PrepareDocument keeps the invariant when it locks what it will number.
LEMMA LockToPrepareKeeps ==
  ASSUME FiscalInv, NEW t \in Txn, LockInvoiceToPrepare(t) \/ LockStation(t) PROVE FiscalInv'
<1>1. tx[t].op = "prepare" /\ tx[t].pc \in {"invoice", "settings"} /\ tx[t].invoice \in Invoice
  BY DEF LockInvoiceToPrepare, LockStation, FiscalInv, Locals
<1>2. CASE Rollback(t)
  BY <1>1, <1>2, RollbackKeeps DEF Exchanging
<1>3. CASE LockInvoiceToPrepare(t) /\ ~ Rollback(t)
  BY <1>1, <1>3, Rows, PreparationGoesOn DEF LockInvoiceToPrepare
<1>4. CASE LockStation(t) /\ ~ Rollback(t)
  BY <1>1, <1>4, Rows, PreparationGoesOn DEF LockStation
<1> QED BY <1>2, <1>3, <1>4

\* The document is locked again to record the answer; it is as the request left it.
LEMMA LockToApplyKeeps ==
  ASSUME FiscalInv, NEW t \in Txn, LockToApply(t) PROVE FiscalInv'
<1> USE InvParts
<1> DEFINE d == tx[t].doc
           op == IF tx[t].op = "submit" THEN "applied" ELSE "revoked"
           row == DocumentRow(d)
<1>1. tx[t].pc = "document" /\ tx[t].op \in {"submit", "invalidate"} /\ d \in Document
      /\ tx[t].invoice \in Invoice /\ Free(row)
  BY DEF LockToApply, Shape, Locals, Stages, OfDocument
<1>2. doc[d].status = IF tx[t].op = "submit" THEN "SUBMITTING" ELSE "INVALIDATION_PENDING"
  BY <1>1 DEF ReadsHold, DocumentRead, Exchanging
<1>3. /\ lock' = [lock EXCEPT ![row] = t] /\ tx' = [tx EXCEPT ![t].pc = "invoice", ![t].op = op]
      /\ UNCHANGED <<money, fiscal>>
  BY <1>2 DEF LockToApply
<1>4. op \in {"applied", "revoked"} /\ row \in Row
      /\ (op = "applied" <=> tx[t].op = "submit")
  BY <1>1, Rows
<1> HIDE DEF op
<1>5. tx' \in [Txn -> Request] /\ \A u \in Txn \ {t} : tx'[u] = tx[u]
  <2>1. tx[t] \in Request
    BY DEF TypeOK
  <2>2. [tx[t] EXCEPT !.pc = "invoice", !.op = op] \in Request
    BY <1>4, <2>1 DEF Request
  <2> QED BY <1>3, <2>2 DEF TypeOK
<1>6. tx'[t].op = op /\ tx'[t].pc = "invoice" /\ tx'[t].invoice = tx[t].invoice /\ tx'[t].doc = d
      /\ tx'[t].answer = tx[t].answer
  BY <1>3 DEF TypeOK, Request
<1>7. /\ lock' \in [Row -> Txn \cup {None}] /\ lock[row] = None /\ lock'[row] = t
      /\ \A r \in Row \ {row} : lock'[r] = lock[r]
      /\ \A u \in Txn \ {t}, r \in Row : lock'[r] = u <=> lock[r] = u
  BY <1>1, <1>3, <1>4, GrantFacts
<1>8. TypeOK'
  BY <1>3, <1>5, <1>7 DEF TypeOK, money, fiscal
<1>9. Shape'
  <2>1. Locals'
    BY <1>1, <1>4, <1>5, <1>6 DEF Shape, Locals, Stages, Answering, OfDocument
  <2>2. OneActorEach'
    BY <1>1, <1>4, <1>5, <1>6 DEF Shape, OneActorEach, Exchanging
  <2>3. LocksMatch'
    <3>1. \A u \in Txn \ {t} : (OwnsInvoice(u)' <=> OwnsInvoice(u)) /\ (OwnsDocument(u)' <=> OwnsDocument(u))
      BY <1>5 DEF OwnsInvoice, OwnsDocument
    <3>2. ~ OwnsInvoice(t) /\ ~ OwnsInvoice(t)' /\ ~ OwnsDocument(t) /\ OwnsDocument(t)'
      BY <1>1, <1>4, <1>6 DEF OwnsInvoice, OwnsDocument
    <3>3. /\ \A i \in Invoice : lock'[InvoiceRow(i)] = lock[InvoiceRow(i)] /\ lock[InvoiceRow(i)] # t
          /\ \A p \in Payment : lock'[PaymentRow(p)] = lock[PaymentRow(p)] /\ lock[PaymentRow(p)] # t
          /\ lock'[StationRow] = lock[StationRow] /\ lock[StationRow] # t
          /\ \A e \in Document : lock[DocumentRow(e)] # t
      BY <1>1, <1>7, <3>2, Rows DEF Shape, LocksMatch
    <3>4. ASSUME NEW u \in Txn, NEW j \in Invoice
          PROVE  /\ lock'[InvoiceRow(j)] = u =>
                      \/ OwnsInvoice(u)' /\ tx'[u].invoice = j
                      \/ tx'[u].pc = "allocations" /\ tx'[u].alloc[j] > 0
                 /\ OwnsInvoice(u)' /\ tx'[u].invoice = j => lock'[InvoiceRow(j)] = u
      <4>1. CASE u = t
        BY <4>1, <3>2, <3>3
      <4>2. CASE u # t
        BY <4>2, <1>5, <3>1, <3>3 DEF Shape, LocksMatch
      <4> QED BY <4>1, <4>2
    <3>5. \A u \in Txn, p \in Payment :
            lock'[PaymentRow(p)] = u <=> tx'[u].op = "reverse" /\ tx'[u].payment = p
      BY <1>4, <1>5, <1>6, <3>3 DEF Shape, LocksMatch
    <3>6. ASSUME NEW u \in Txn, NEW e \in Document
          PROVE  lock'[DocumentRow(e)] = u <=> OwnsDocument(u)' /\ tx'[u].doc = e
      <4>1. CASE u = t
        BY <4>1, <1>6, <1>7, <3>2, <3>3, Rows
      <4>2. CASE u # t
        BY <4>2, <1>5, <1>7, <3>1, Rows DEF Shape, LocksMatch
      <4> QED BY <4>1, <4>2
    <3>7. \A u \in Txn : lock'[StationRow] = u => tx'[u].pc = "insert"
      BY <1>5, <3>3 DEF Shape, LocksMatch
    <3> QED BY <3>4, <3>5, <3>6, <3>7 DEF LocksMatch
  <2>4. LocksInOrder'
    <3>1. \A u \in Txn \ {t}, j \in Invoice : lock'[InvoiceRow(j)] = u <=> lock[InvoiceRow(j)] = u
      BY <1>7, Rows
    <3> QED BY <3>1, <1>5, <1>6 DEF Shape, LocksInOrder
  <2> QED BY <2>1, <2>2, <2>3, <2>4 DEF Shape
<1>10. ReadsHold'
  <2>1. RowsNew(t)' /\ MoneyRead(t)'
    BY <1>4, <1>6 DEF RowsNew, MoneyRead
  <2>2. DocumentRead(t)'
    BY <1>1, <1>2, <1>3, <1>4, <1>6 DEF ReadsHold, DocumentRead, OfDocument, Exchanging, fiscal
  <2> QED BY <2>1, <2>2, <1>3, <1>5, <1>7, OthersRead DEF ReadsHold, money, fiscal
<1>11. MoneyTables' /\ DocumentTables'
  BY <1>3, MoneyStands, DocumentsStand DEF money, fiscal
<1>12. AnswersPlaced'
  <2>1. ASSUME NEW u \in Txn, NEW e \in Heard, AnswerWith(u, e) PROVE AnswerWith(u, e)'
    <3>1. CASE u = t
      BY <3>1, <2>1, <1>1, <1>3, <1>4, <1>6 DEF AnswerWith, Exchanging, Answering, fiscal
    <3>2. CASE u # t
      BY <3>2, <2>1, <1>3, <1>5 DEF AnswerWith, Exchanging, Answering, fiscal
    <3> QED BY <3>1, <3>2
  <2> QED BY <2>1, <1>3 DEF AnswersPlaced, AnswerPlaced, fiscal, Heard
<1> QED
  BY <1>8, <1>9, <1>10, <1>11, <1>12 DEF FiscalInv, Shape, MoneyTables, DocumentTables

\* An answer, or the end of waiting for one, changes what the provider has on
\* file for the document and what the request knows, and nothing else.
LEMMA HeardKeeps ==
  ASSUME FiscalInv, NEW t \in Txn, NEW d \in Document, tx[t].pc = "send", tx[t].doc = d,
         NEW f \in Filed, NEW v \in Verdict, filed' = [filed EXCEPT ![d] = f],
         tx' = [tx EXCEPT ![t].pc = "document", ![t].answer = v],
         missed \subseteq missed', missed' \subseteq Document,
         UNCHANGED <<money, station, control, doc, lock>>,
         d \in missed'
         \/ IF tx[t].op = "submit"
            THEN /\ f \in {"no", "accepted", "refused"}
                 /\ v = "accepted" <=> f = "accepted"
                 /\ v = "retry" => f = "no"
            ELSE /\ f \in {"accepted", "invalidated"}
                 /\ v = "invalidated" <=> f = "invalidated"
  PROVE  FiscalInv'
<1> USE InvParts
<1>1. tx[t].op \in {"submit", "invalidate"} /\ tx[t].invoice \in Invoice
  BY DEF Shape, Locals, Stages, OfDocument
<1>2. v # None
  BY BillingAssumption
<1>3. tx' \in [Txn -> Request] /\ \A u \in Txn \ {t} : tx'[u] = tx[u]
  <2>1. tx[t] \in Request
    BY DEF TypeOK
  <2>2. [tx[t] EXCEPT !.pc = "document", !.answer = v] \in Request
    BY <2>1 DEF Request
  <2> QED BY <2>2 DEF TypeOK
<1>4. tx'[t].op = tx[t].op /\ tx'[t].pc = "document" /\ tx'[t].invoice = tx[t].invoice
      /\ tx'[t].doc = d /\ tx'[t].answer = v
  BY DEF TypeOK, Request
<1>5. TypeOK'
  BY <1>1, <1>3 DEF TypeOK, money
<1>6. Shape'
  <2>1. Locals'
    BY <1>1, <1>2, <1>3, <1>4 DEF Shape, Locals, Stages, Answering, OfDocument
  <2>2. OneActorEach'
    BY <1>1, <1>3, <1>4 DEF Shape, OneActorEach, Exchanging
  <2>3. LocksMatch'
    <3>1. \A u \in Txn : (OwnsInvoice(u)' <=> OwnsInvoice(u)) /\ (OwnsDocument(u)' <=> OwnsDocument(u))
      BY <1>1, <1>3, <1>4 DEF OwnsInvoice, OwnsDocument
    <3>2. ~ OwnsInvoice(t) /\ ~ OwnsDocument(t)
      BY <1>1 DEF OwnsInvoice, OwnsDocument
    <3> QED BY <1>1, <1>3, <1>4, <3>1, <3>2 DEF Shape, LocksMatch
  <2>4. LocksInOrder'
    BY <1>3, <1>4 DEF Shape, LocksInOrder
  <2> QED BY <2>1, <2>2, <2>3, <2>4 DEF Shape
<1>7. ReadsHold'
  <2>1. RowsNew(t)' /\ MoneyRead(t)'
    BY <1>1, <1>4 DEF RowsNew, MoneyRead
  <2>2. DocumentRead(t)'
    BY <1>1, <1>4 DEF ReadsHold, DocumentRead, OfDocument, Exchanging
  <2> QED BY <2>1, <2>2, <1>3, OthersRead DEF ReadsHold, money
<1>8. MoneyTables' /\ DocumentTables'
  BY MoneyStands, DocumentsStand DEF money
<1>9. AnswersPlaced'
  <2>1. doc[d].status \in {"SUBMITTING", "INVALIDATION_PENDING"}
    BY <1>1 DEF ReadsHold, DocumentRead, Exchanging
  <2>2. ASSUME d \notin missed' PROVE AnswerWith(t, d)'
    BY <2>2, <1>1, <1>4 DEF AnswerWith, Exchanging, Answering, TypeOK
  <2>3. ASSUME NEW e \in Heard', e # d, NEW u \in Txn, AnswerWith(u, e)
        PROVE  AnswerWith(u, e)'
    <3>1. u # t /\ filed'[e] = filed[e]
      BY <2>3, <1>1 DEF AnswerWith, TypeOK, Heard
    <3> QED BY <3>1, <2>3, <1>3 DEF AnswerWith, Exchanging, Answering
  <2>4. ASSUME NEW e \in Heard' PROVE AnswerPlaced(e)'
    <3>1. CASE e = d
      BY <2>1, <2>2, <2>4, <3>1 DEF AnswerPlaced, Heard
    <3>2. CASE e # d
      <4>1. filed'[e] = filed[e] /\ doc' = doc
        BY <1>1, <3>2 DEF TypeOK
      <4>2. AnswerPlaced(e)
        BY <2>4 DEF AnswersPlaced, Heard
      <4> QED BY <2>3, <2>4, <3>2, <4>1, <4>2 DEF AnswerPlaced
    <3> QED BY <3>1, <3>2
  <2> QED BY <2>4 DEF AnswersPlaced
<1> QED
  BY <1>5, <1>6, <1>7, <1>8, <1>9 DEF FiscalInv, Shape, MoneyTables, DocumentTables

\* The verdict a request reads in a reply.
ReadAs(t, reply) == IF tx[t].op = "submit" THEN Transmit(reply) ELSE Invalidate(reply)

\* A call of the provider, answered or not, keeps the invariant: no row changes.
LEMMA ProviderKeeps ==
  ASSUME FiscalInv, NEW t \in Txn, ProviderStep(t) PROVE FiscalInv'
<1> DEFINE d == tx[t].doc
<1>1. tx[t].pc = "send" /\ tx[t].op \in {"submit", "invalidate"} /\ d \in Document
  BY DEF ProviderStep, Answered, Unanswered, FiscalInv, Locals, Stages, OfDocument
<1>2. doc[d].status = IF tx[t].op = "submit" THEN "SUBMITTING" ELSE "INVALIDATION_PENDING"
  BY <1>1 DEF FiscalInv, ReadsHold, DocumentRead, Exchanging
<1>3. filed[d] \in Filed
  BY <1>1 DEF FiscalInv, TypeOK
<1>4. d \in missed \/ filed[d] = IF tx[t].op = "submit" THEN "no" ELSE "accepted"
  <2> SUFFICES ASSUME d \notin missed PROVE filed[d] = IF tx[t].op = "submit" THEN "no" ELSE "accepted"
    OBVIOUS
  <2>1. PICK u \in Txn : AnswerWith(u, d)
    BY <1>1, <1>2 DEF FiscalInv, AnswersPlaced, AnswerPlaced, Heard
  <2>2. u = t
    BY <1>1, <2>1 DEF FiscalInv, OneActorEach, AnswerWith, Exchanging
  <2> QED BY <1>1, <2>1, <2>2 DEF AnswerWith, Answering
<1>5. CASE Answered(t)
  <2>1. PICK reply \in Replies,
             f \in IF tx[t].op = "submit" THEN FiledBySubmit(d) ELSE FiledByInvalidation(d) :
          /\ filed' = [filed EXCEPT ![d] = f]
          /\ tx' = [tx EXCEPT ![t].pc = "document", ![t].answer = ReadAs(t, reply)]
          /\ missed' = IF (ReadAs(t, reply) = Sought(tx[t].op)) = (f = Sought(tx[t].op))
                       THEN missed ELSE missed \cup {d}
    BY <1>5 DEF Answered, ReadAs
  <2> DEFINE v == ReadAs(t, reply)
  <2>2. f \in Filed
    BY <1>3, <2>1 DEF FiledBySubmit, FiledByInvalidation, Filed
  <2>3. v \in {"accepted", "invalidated", "refused"} /\ v \in Verdict
        /\ v \in {Sought(tx[t].op), "refused"}
    BY DEF ReadAs, Transmit, Invalidate, Sought, Verdict, Filed
  <2> HIDE DEF v
  <2>4. missed \subseteq missed' /\ missed' \subseteq Document
    BY <1>1, <1>5, <2>1 DEF Answered, FiscalInv, TypeOK
  <2>6. d \in missed \/ f \in IF tx[t].op = "submit" THEN {"accepted", "refused"}
                                                     ELSE {"accepted", "invalidated"}
    BY <1>4, <2>1 DEF FiledBySubmit, FiledByInvalidation
  <2>7. d \in missed' \/ (v = Sought(tx[t].op) <=> f = Sought(tx[t].op))
    BY <2>1 DEF v
  <2>8. d \in missed'
        \/ IF tx[t].op = "submit"
           THEN /\ f \in {"no", "accepted", "refused"}
                /\ v = "accepted" <=> f = "accepted"
                /\ v = "retry" => f = "no"
           ELSE /\ f \in {"accepted", "invalidated"}
                /\ v = "invalidated" <=> f = "invalidated"
    BY <1>1, <2>3, <2>4, <2>6, <2>7 DEF Sought
  <2>9. tx' = [tx EXCEPT ![t].pc = "document", ![t].answer = v]
    BY <2>1 DEF v
  <2> QED BY <1>1, <1>5, <2>1, <2>2, <2>3, <2>4, <2>8, <2>9, HeardKeeps DEF Answered
<1>6. CASE Unanswered(t)
  <2>1. PICK f \in {filed[d]} \cup IF tx[t].op = "submit" THEN FiledBySubmit(d)
                                                         ELSE FiledByInvalidation(d) :
          /\ filed' = [filed EXCEPT ![d] = f]
          /\ missed' = IF f = filed[d] THEN missed ELSE missed \cup {d}
    BY <1>6 DEF Unanswered
  <2>2. f \in Filed
    BY <1>3, <2>1 DEF FiledBySubmit, FiledByInvalidation, Filed
  <2>3. Reported(d, "retry") \in {"retry", "refused"} /\ Reported(d, "retry") \in Verdict
    BY DEF Reported, Verdict, Filed
  <2>4. missed \subseteq missed' /\ missed' \subseteq Document
    BY <1>1, <1>6, <2>1 DEF FiscalInv, TypeOK, Unanswered
  <2>5. d \in missed' \/ f = IF tx[t].op = "submit" THEN "no" ELSE "accepted"
    BY <1>4, <2>1, <2>4
  <2> QED BY <1>1, <1>6, <2>1, <2>2, <2>3, <2>4, <2>5, HeardKeeps DEF Unanswered
<1> QED BY <1>5, <1>6 DEF ProviderStep

-----------------------------------------------------------------------------
(* Settings, stations and sources; a draft that is edited *)

\* What no request depends on after it began.
LEMMA AsideKeeps ==
  ASSUME FiscalInv, UNCHANGED <<next, inv, pay, control, doc, filed, missed, lock, tx>>,
         settings' \in Profiles, station' \in Stations, reserved' \subseteq Quote
  PROVE  FiscalInv'
<1> USE InvParts
<1>1. TypeOK'
  BY DEF TypeOK
<1>2. Shape'
  BY DEF Shape, Locals, LocksMatch, LocksInOrder, OneActorEach, OwnsInvoice, OwnsDocument,
         Answering, Exchanging
<1>3. ReadsHold'
  BY ReadsStand DEF ReadsHold
<1>4. MoneyTables' /\ DocumentTables' /\ AnswersPlaced'
  BY MoneyStands, DocumentsStand, AnswersStand
<1> QED BY <1>1, <1>2, <1>3, <1>4 DEF FiscalInv, Shape, MoneyTables, DocumentTables

\* An invoice that is not paid has received nothing, whatever its status was.
LEMMA UnpaidReceivedNothing ==
  ASSUME PaidIsSumOfPayments, NEW i \in Invoice, inv[i].paid \in Nat,
         inv[i].status \notin {"PAID", "PARTIALLY_PAID"}
  PROVE  inv[i].paid = 0 /\ Received(i) = 0
BY DEF PaidIsSumOfPayments

\* UpdateInvoice keeps the invariant.
LEMMA UpdateInvoiceKeeps ==
  ASSUME FiscalInv, NEW i \in Invoice, NEW total \in Totals, UpdateInvoice(i, total)
  PROVE  FiscalInv'
<1> USE InvParts
<1>1. /\ inv[i].status = "DRAFT" /\ Free(InvoiceRow(i))
      /\ inv' = [inv EXCEPT ![i] = [inv[i] EXCEPT !.total = total]]
      /\ UNCHANGED <<settings, next, reserved, pay, fiscal, lock, tx>>
  BY DEF UpdateInvoice, Put
<1>2. /\ \A j \in Invoice \ {i} : inv'[j] = inv[j]
      /\ inv'[i] = [inv[i] EXCEPT !.total = total]
      /\ inv[i].paid \in Nat /\ total \in Nat
      /\ [inv[i] EXCEPT !.total = total] \in InvoiceRecord
  <2>1. Totals \subseteq Nat
    BY BillingAssumption
  <2> QED BY <1>1, <2>1, InvoiceFields DEF TypeOK, InvoiceRecord
<1>3. /\ inv'[i].status = "DRAFT" /\ inv'[i].refs = inv[i].refs /\ inv'[i].total = total
      /\ inv'[i].paid = inv[i].paid /\ inv'[i].number = inv[i].number
      /\ inv'[i].fiscal = inv[i].fiscal
  BY <1>1, <1>2 DEF TypeOK, InvoiceRecord
<1>4. TypeOK'
  BY <1>1, <1>2 DEF TypeOK, fiscal
<1>5. Shape'
  BY <1>1 DEF Shape, Locals, LocksMatch, LocksInOrder, OneActorEach, OwnsInvoice, OwnsDocument,
              Answering, Exchanging
<1>6. ReadsHold'
  <2>1. ASSUME NEW u \in Txn PROVE ~ Holds(u, i)
    BY <1>1, BillingAssumption DEF Holds, Free, ReadsHold, RowsNew
  <2> QED BY <2>1, <1>1, <1>2, ReadsStand DEF ReadsHold, fiscal
<1>7. MoneyTables'
  <2>1. PaidIsSumOfPayments'
    <3>1. ASSUME NEW j \in Invoice PROVE Received(j)' = Received(j)
      BY <1>1 DEF Received, Allocated
    <3>2. inv[i].paid = 0
      BY <1>1, <1>2, UnpaidReceivedNothing DEF MoneyTables
    <3>3. Received(i) = 0
      BY <3>2 DEF MoneyTables, PaidIsSumOfPayments
    <3>4. ASSUME NEW j \in Invoice
          PROVE  /\ inv'[j].paid = Received(j) /\ inv'[j].paid <= inv'[j].total
                 /\ inv'[j].paid > 0 => inv'[j].status = IF inv'[j].paid = inv'[j].total THEN "PAID"
                                                        ELSE "PARTIALLY_PAID"
                 /\ inv'[j].status \in {"PAID", "PARTIALLY_PAID"} => inv'[j].paid > 0
      <4>1. CASE j = i
        BY <4>1, <1>2, <1>3, <3>2, <3>3
      <4>2. CASE j # i
        BY <4>2, <1>2 DEF MoneyTables, PaidIsSumOfPayments
      <4> QED BY <4>1, <4>2
    <3> QED BY <3>1, <3>4 DEF PaidIsSumOfPayments
  <2>2. OneActiveInvoicePerSource'
    BY <1>1, <1>2, <1>3 DEF MoneyTables, OneActiveInvoicePerSource
  <2>3. NumbersWithoutGaps'
    BY <1>1, <1>2, <1>3 DEF MoneyTables, NumbersWithoutGaps
  <2> QED BY <2>1, <2>2, <2>3 DEF MoneyTables
<1>8. DocumentTables'
  BY <1>1, <1>2, <1>3, DocumentsStand DEF fiscal
<1>9. AnswersPlaced'
  BY <1>1, AnswersStand DEF fiscal
<1> QED
  BY <1>4, <1>5, <1>6, <1>7, <1>8, <1>9 DEF FiscalInv, Shape, MoneyTables, DocumentTables

-----------------------------------------------------------------------------
(* Writes of billing *)

\* A request that ends with a write to rows nobody else holds.
LEMMA WriteKeeps ==
  ASSUME FiscalInv, NEW t \in Txn, Finish(t), TypeOK', MoneyTables', DocumentTables', AnswersPlaced',
         \A i \in Invoice, u \in Txn \ {t} : Holds(u, i) => inv'[i] = inv[i],
         \A p \in Payment, u \in Txn \ {t} : HoldsPayment(u, p) => pay'[p] = pay[p],
         \A d \in Document, u \in Txn \ {t} : HoldsDocument(u, d) => doc'[d] = doc[d]
  PROVE  FiscalInv'
<1>1. Shape' /\ ReadsHold'
  BY InvParts, EndShape, EndReads
<1> QED BY <1>1 DEF FiscalInv, Shape, MoneyTables, DocumentTables

\* Billing leaves documents and answers alone.
LEMMA BillingWriteKeeps ==
  ASSUME FiscalInv, NEW t \in Txn, ~ Exchanging(t), Finish(t), UNCHANGED fiscal,
         TypeOK', MoneyTables', DocumentTables',
         \A i \in Invoice, u \in Txn \ {t} : Holds(u, i) => inv'[i] = inv[i],
         \A p \in Payment, u \in Txn \ {t} : HoldsPayment(u, p) => pay'[p] = pay[p]
  PROVE  FiscalInv'
<1>1. AnswersPlaced'
  BY InvParts, FinishFacts, AnswersStand DEF fiscal
<1> QED BY <1>1, WriteKeeps DEF fiscal

\* A row that is locked is there.
LEMMA LockedExists ==
  ASSUME FiscalInv, NEW u \in Txn, NEW i \in Invoice, lock[InvoiceRow(i)] = u
  PROVE  inv[i].status # "NONE"
<1>1. CASE OwnsInvoice(u) /\ tx[u].invoice = i
  BY <1>1 DEF FiscalInv, ReadsHold, MoneyRead, OwnsInvoice, Preparable
<1>2. CASE tx[u].pc = "allocations" /\ tx[u].alloc[i] > 0
  <2>1. Allocatable(u, i)
    BY <1>2 DEF FiscalInv, ReadsHold, MoneyRead
  <2>2. tx[u].alloc[i] \in Nat /\ inv[i].paid \in Nat
    <3>1. tx[u] \in Request
      BY DEF FiscalInv, TypeOK
    <3> QED BY <3>1, InvoiceFields DEF FiscalInv, Request
  <2>3. inv[i].paid > 0 => inv[i].status \in {"PAID", "PARTIALLY_PAID"}
    BY DEF FiscalInv, PaidIsSumOfPayments
  <2> QED BY <1>2, <2>1, <2>2, <2>3 DEF Allocatable
<1> QED BY <1>1, <1>2 DEF FiscalInv, LocksMatch

\* Only t holds the row that t locked.
LEMMA HoldsAlone ==
  ASSUME FiscalInv, NEW t \in Txn, NEW u \in Txn \ {t}, NEW i \in Invoice, lock[InvoiceRow(i)] = t
  PROVE  ~ Holds(u, i)
BY LockedExists DEF Holds, FiscalInv, ReadsHold, RowsNew

\* CreateInvoice keeps the invariant: the new row is the only active one of its
\* source, or it is not inserted.
LEMMA CommitCreateKeeps ==
  ASSUME FiscalInv, NEW t \in Txn, CommitCreate(t) PROVE FiscalInv'
<1> USE InvParts
<1>1. PICK i \in Invoice : tx[t].invoice = i /\ tx[t].op = "create" /\ ~ Exchanging(t)
                           /\ inv[i].status = "NONE"
  BY DEF CommitCreate, Shape, Locals, Stages, Exchanging, ReadsHold, RowsNew
<1>2. CASE SourceTaken(tx[t].refs)
  BY <1>1, <1>2, RollbackKeeps DEF CommitCreate
<1>3. CASE ~ SourceTaken(tx[t].refs)
  <2> DEFINE row == [NoInvoice EXCEPT !.status = "DRAFT", !.refs = tx[t].refs,
                                      !.total = tx[t].total]
  <2>1. /\ inv' = [inv EXCEPT ![i] = row] /\ Finish(t)
        /\ UNCHANGED <<settings, next, reserved, pay, fiscal>>
    BY <1>1, <1>3 DEF CommitCreate, Put
  <2>2. tx[t].refs \in Refs /\ tx[t].total \in Totals \cup {0}
    BY DEF TypeOK, Request
  <2>3. /\ row \in InvoiceRecord
        /\ row.status = "DRAFT" /\ row.refs = tx[t].refs /\ row.paid = 0 /\ row.number = 0
        /\ row.fiscal = "NOT_READY" /\ row.total \in Nat
    <3>1. tx[t].total \in Nat
      <4>1. Totals \subseteq Nat
        BY BillingAssumption
      <4>2. CASE tx[t].total \in Totals
        BY <4>1, <4>2
      <4>3. CASE tx[t].total = 0
        BY <4>3
      <4> QED BY <2>2, <4>2, <4>3
    <3>2. row \in InvoiceRecord
      BY <2>2 DEF NoInvoice, InvoiceRecord, InvoiceStatus, FiscalStatus
    <3> QED BY <3>1, <3>2 DEF NoInvoice
  <2> HIDE DEF row
  <2>4. inv'[i] = row /\ \A j \in Invoice \ {i} : inv'[j] = inv[j]
    BY <2>1 DEF TypeOK
  <2>5. TypeOK'
    BY <2>1, <2>3, FinishFacts DEF TypeOK, fiscal
  <2>6. ASSUME NEW u \in Txn \ {t} PROVE ~ Holds(u, i)
    BY <1>1, LockedExists DEF Holds, Shape, OneActorEach
  <2>7. PaidIsSumOfPayments'
    <3>1. ASSUME NEW j \in Invoice PROVE Received(j)' = Received(j)
      BY <2>1 DEF Received, Allocated
    <3>2. Received(i) = 0
      BY <1>1, InvoiceFields, UnpaidReceivedNothing DEF MoneyTables
    <3> QED BY <2>3, <2>4, <3>1, <3>2 DEF MoneyTables, PaidIsSumOfPayments
  <2>8. OneActiveInvoicePerSource'
    <3>1. ASSUME NEW j \in Invoice, inv[j].status \notin {"NONE", "VOID"}
          PROVE  /\ row.refs.quote # None => inv[j].refs.quote # row.refs.quote
                 /\ row.refs.reservation # None => inv[j].refs.reservation # row.refs.reservation
      BY <3>1, <1>3, <2>3 DEF SourceTaken
    <3> SUFFICES ASSUME NEW j \in Invoice, NEW k \in Invoice, j # k,
                        inv'[j].status \notin {"NONE", "VOID"}, inv'[k].status \notin {"NONE", "VOID"}
        PROVE  /\ inv'[j].refs.quote # None => inv'[j].refs.quote # inv'[k].refs.quote
               /\ inv'[j].refs.reservation # None => inv'[j].refs.reservation # inv'[k].refs.reservation
      BY DEF OneActiveInvoicePerSource
    <3>2. CASE j = i
      BY <3>1, <3>2, <2>4
    <3>3. CASE k = i
      BY <3>1, <3>3, <2>4
    <3>4. CASE j # i /\ k # i
      BY <3>4, <2>4 DEF MoneyTables, OneActiveInvoicePerSource
    <3> QED BY <3>2, <3>3, <3>4
  <2>9. NumbersWithoutGaps'
    BY <1>1, <2>1, <2>3, <2>4 DEF MoneyTables, NumbersWithoutGaps
  <2>10. DocumentTables'
    BY <1>1, <2>1, <2>3, <2>4, DocumentsStand DEF fiscal
  <2> QED BY <1>1, <2>1, <2>4, <2>5, <2>6, <2>7, <2>8, <2>9, <2>10, BillingWriteKeeps DEF MoneyTables
<1> QED BY <1>2, <1>3

\* IssueInvoice keeps the invariant.
LEMMA CommitIssueKeeps ==
  ASSUME FiscalInv, NEW t \in Txn, CommitIssue(t) PROVE FiscalInv'
<1> USE InvParts
<1>1. PICK i \in Invoice : tx[t].invoice = i /\ tx[t].op = "issue" /\ ~ Exchanging(t)
                           /\ inv[i].status = "DRAFT" /\ lock[InvoiceRow(i)] = t
  <2>1. tx[t].op = "issue" /\ tx[t].pc = "commit" /\ tx[t].invoice \in Invoice
    BY DEF CommitIssue, Shape, Locals, Stages
  <2>2. inv[tx[t].invoice].status = "DRAFT"
    BY <2>1 DEF ReadsHold, MoneyRead
  <2>3. lock[InvoiceRow(tx[t].invoice)] = t
    BY <2>1 DEF Shape, LocksMatch, OwnsInvoice
  <2> QED BY <2>1, <2>2, <2>3 DEF Exchanging
<1>2. CASE ~ settings.enabled
  BY <1>1, <1>2, RollbackKeeps DEF CommitIssue
<1>3. CASE settings.enabled
  <2> DEFINE f == IF settings.profile THEN "READY_FOR_DTE" ELSE "NOT_READY"
             row == [inv[i] EXCEPT !.status = "ISSUED", !.number = next, !.fiscal = f]
  <2>1. /\ inv' = [inv EXCEPT ![i] = row] /\ next' = next + 1 /\ Finish(t)
        /\ UNCHANGED <<settings, reserved, pay, fiscal>>
    BY <1>1, <1>3 DEF CommitIssue, Put
  <2>2. f \in {"NOT_READY", "READY_FOR_DTE"} /\ next \in Nat \ {0}
    BY DEF TypeOK
  <2> HIDE DEF f
  <2>3. /\ row \in InvoiceRecord
        /\ row.status = "ISSUED" /\ row.refs = inv[i].refs /\ row.paid = inv[i].paid
        /\ row.number = next /\ row.fiscal = f /\ row.total = inv[i].total
    <3>1. inv[i] \in InvoiceRecord
      BY DEF TypeOK
    <3>2. row \in InvoiceRecord
      BY <2>2, <3>1 DEF InvoiceRecord, InvoiceStatus, FiscalStatus
    <3> QED BY <3>1, <3>2 DEF InvoiceRecord
  <2> HIDE DEF row
  <2>4. inv'[i] = row /\ \A j \in Invoice \ {i} : inv'[j] = inv[j]
    BY <2>1 DEF TypeOK
  <2>5. TypeOK'
    BY <2>1, <2>2, <2>3, FinishFacts DEF TypeOK, fiscal
  <2>6. ASSUME NEW u \in Txn \ {t} PROVE ~ Holds(u, i)
    BY <1>1, HoldsAlone
  <2>7. PaidIsSumOfPayments'
    <3>1. ASSUME NEW j \in Invoice PROVE Received(j)' = Received(j)
      BY <2>1 DEF Received, Allocated
    <3>2. inv[i].paid = 0
      BY <1>1, InvoiceFields, UnpaidReceivedNothing DEF MoneyTables
    <3> QED BY <2>3, <2>4, <3>1, <3>2 DEF MoneyTables, PaidIsSumOfPayments
  <2>8. OneActiveInvoicePerSource'
    BY <1>1, <2>3, <2>4 DEF MoneyTables, OneActiveInvoicePerSource
  <2>9. NumbersWithoutGaps'
    <3>1. \A j \in Invoice : inv[j].number \in Nat /\ inv[j].number < next
      BY InvoiceFields DEF MoneyTables, NumbersWithoutGaps
    <3>2. inv[i].number = 0
      BY <1>1 DEF MoneyTables, NumbersWithoutGaps
    <3>3. ASSUME NEW n \in 1 .. (next' - 1) PROVE \E j \in Invoice : inv'[j].number = n
      <4>1. CASE n = next
        BY <4>1, <2>3, <2>4
      <4>2. CASE n # next
        <5>1. PICK j \in Invoice : inv[j].number = n
          BY <4>2, <2>1, <2>2 DEF MoneyTables, NumbersWithoutGaps
        <5>2. j # i
          BY <3>2, <5>1
        <5> QED BY <5>1, <5>2, <2>4
      <4> QED BY <4>1, <4>2
    <3>4. \A j \in Invoice : inv'[j].number < next'
      BY <2>1, <2>2, <2>3, <2>4, <3>1
    <3>5. \A j, k \in Invoice : j # k /\ inv'[j].number # 0 => inv'[j].number # inv'[k].number
      BY <2>3, <2>4, <3>1 DEF MoneyTables, NumbersWithoutGaps
    <3>6. \A j \in Invoice : inv'[j].status \in {"NONE", "DRAFT"} => inv'[j].number = 0
      BY <2>3, <2>4 DEF MoneyTables, NumbersWithoutGaps
    <3> QED BY <3>3, <3>4, <3>5, <3>6 DEF NumbersWithoutGaps
  <2>10. DocumentTables'
    BY <1>1, <2>1, <2>2, <2>3, <2>4, DocumentsStand DEF fiscal
  <2> QED BY <1>1, <2>1, <2>4, <2>5, <2>6, <2>7, <2>8, <2>9, <2>10, BillingWriteKeeps DEF MoneyTables
<1> QED BY <1>2, <1>3

\* VoidInvoice keeps the invariant: nothing is paid and no document is active.
LEMMA CommitVoidKeeps ==
  ASSUME FiscalInv, NEW t \in Txn, CommitVoid(t) PROVE FiscalInv'
<1> USE InvParts
<1>1. PICK i \in Invoice : tx[t].invoice = i /\ tx[t].op = "void" /\ ~ Exchanging(t)
                           /\ lock[InvoiceRow(i)] = None
  BY DEF CommitVoid, Shape, Locals, Stages, Exchanging, Free
<1>2. CASE Rollback(t)
  BY <1>1, <1>2, RollbackKeeps
<1>3. CASE ~ Rollback(t)
  <2> DEFINE row == [inv[i] EXCEPT !.status = "VOID", !.fiscal = "VOIDED"]
  <2>1. /\ inv' = [inv EXCEPT ![i] = row] /\ Finish(t)
        /\ UNCHANGED <<settings, next, reserved, pay, fiscal>>
        /\ inv[i].status \in {"DRAFT", "ISSUED"} /\ inv[i].paid = 0
    BY <1>1, <1>3 DEF CommitVoid, Put
  <2>2. /\ row \in InvoiceRecord
        /\ row.status = "VOID" /\ row.refs = inv[i].refs /\ row.paid = inv[i].paid
        /\ row.number = inv[i].number /\ row.total = inv[i].total
    <3>1. inv[i] \in InvoiceRecord
      BY DEF TypeOK
    <3>2. row \in InvoiceRecord
      BY <3>1 DEF InvoiceRecord, InvoiceStatus, FiscalStatus
    <3> QED BY <3>1, <3>2 DEF InvoiceRecord
  <2> HIDE DEF row
  <2>3. inv'[i] = row /\ \A j \in Invoice \ {i} : inv'[j] = inv[j]
    BY <2>1 DEF TypeOK
  <2>4. TypeOK'
    BY <2>1, <2>2, FinishFacts DEF TypeOK, fiscal
  <2>5. ASSUME NEW u \in Txn PROVE ~ Holds(u, i)
    BY <1>1, <2>1, BillingAssumption DEF Holds, ReadsHold, RowsNew
  <2>6. PaidIsSumOfPayments'
    <3>1. ASSUME NEW j \in Invoice PROVE Received(j)' = Received(j)
      BY <2>1 DEF Received, Allocated
    <3> QED BY <2>1, <2>2, <2>3, <3>1 DEF MoneyTables, PaidIsSumOfPayments
  <2>7. OneActiveInvoicePerSource'
    BY <2>2, <2>3 DEF MoneyTables, OneActiveInvoicePerSource
  <2>8. NumbersWithoutGaps'
    BY <2>1, <2>2, <2>3 DEF MoneyTables, NumbersWithoutGaps
  <2>9. DocumentTables'
    BY <2>1, <2>2, <2>3, DocumentsStand DEF fiscal
  <2> QED BY <1>1, <2>1, <2>3, <2>4, <2>5, <2>6, <2>7, <2>8, <2>9, BillingWriteKeeps DEF MoneyTables
<1> QED BY <1>2, <1>3

\* What a payment adds is a natural number.
LEMMA AllocatedNat ==
  ASSUME TypeOK, NEW i \in Invoice
  PROVE  \A p \in Payment : Allocated(i)[p] \in Nat
BY DEF Allocated, TypeOK

\* A payment counts, or no longer counts, for what it allocates.
LEMMA ReceivedChanges ==
  ASSUME TypeOK, NEW p \in Payment, NEW i \in Invoice,
         pay' \in [Payment -> [status : {"NONE", "CONFIRMED", "VOIDED"}, alloc : [Invoice -> Nat]]],
         \A q \in Payment \ {p} : pay'[q] = pay[q]
  PROVE  /\ Received(i)' = (Received(i) - Allocated(i)[p]) + Allocated(i)'[p]
         /\ Received(i) \in Nat
<1> DEFINE f == Allocated(i)
           g == Allocated(i)'
<1>1. \A q \in Payment : f[q] \in Nat /\ g[q] \in Nat
  <2>1. \A q \in Payment : g[q] \in Nat
    BY DEF Allocated, TypeOK
  <2> QED BY <2>1, AllocatedNat
<1>2. \A q \in Payment \ {p} : f[q] = g[q]
  BY DEF Allocated
<1>3. IsFiniteSet(Payment)
  BY BillingAssumption
<1>4. Received(i) = SumOver(f, Payment) /\ Received(i)' = SumOver(g, Payment)
  BY DEF Received
<1>5. Allocated(i)'[p] = g[p]
  OBVIOUS
<1> HIDE DEF f, g
<1>6. SumOver(g, Payment) = (SumOver(f, Payment) - f[p]) + g[p]
  BY <1>1, <1>2, <1>3, SumChange
<1>7. SumOver(f, Payment) \in Nat
  BY <1>1, <1>3, SumType
<1> QED BY <1>4, <1>5, <1>6, <1>7 DEF f

\* The row of an invoice that was settled.
LEMMA SettleFields ==
  ASSUME NEW row \in InvoiceRecord, NEW paid \in Nat
  PROVE  /\ Settle(row, paid) \in InvoiceRecord
         /\ Settle(row, paid).refs = row.refs /\ Settle(row, paid).total = row.total
         /\ Settle(row, paid).paid = paid /\ Settle(row, paid).number = row.number
         /\ Settle(row, paid).fiscal = row.fiscal
         /\ Settle(row, paid).status = IF paid >= row.total THEN "PAID"
                                       ELSE IF paid > 0 THEN "PARTIALLY_PAID" ELSE "ISSUED"
<1> DEFINE s == IF paid >= row.total THEN "PAID"
                ELSE IF paid > 0 THEN "PARTIALLY_PAID" ELSE "ISSUED"
<1>1. s \in InvoiceStatus
  BY DEF InvoiceStatus
<1>2. Settle(row, paid) = [row EXCEPT !.paid = paid, !.status = s]
  BY DEF Settle
<1> HIDE DEF s
<1>3. Settle(row, paid) \in InvoiceRecord
  BY <1>1, <1>2 DEF InvoiceRecord
<1>4. /\ Settle(row, paid).refs = row.refs /\ Settle(row, paid).total = row.total
      /\ Settle(row, paid).paid = paid /\ Settle(row, paid).number = row.number
      /\ Settle(row, paid).fiscal = row.fiscal /\ Settle(row, paid).status = s
  BY <1>2 DEF InvoiceRecord
<1> QED BY <1>3, <1>4 DEF s

\* What both ends of a payment have in common: the invoices it allocates to are
\* t's alone, and each gets a paid amount within its total.
LEMMA SettlementKeeps ==
  ASSUME FiscalInv, NEW t \in Txn, NEW p \in Payment, NEW paid, NEW row,
         tx[t].pc = "allocations", tx[t].payment = p, Unallocated(t) = {}, Finish(t),
         UNCHANGED <<settings, next, reserved, fiscal>>,
         \A i \in Invoice : tx[t].alloc[i] > 0 =>
           /\ inv[i].status \in {"ISSUED", "PARTIALLY_PAID", "PAID"}
           /\ paid[i] \in Nat /\ paid[i] <= inv[i].total
           /\ paid[i] = inv[i].total => paid[i] > 0,
         inv' = [i \in Invoice |-> IF tx[t].alloc[i] = 0 THEN inv[i] ELSE Settle(inv[i], paid[i])],
         row \in [status : {"NONE", "CONFIRMED", "VOIDED"}, alloc : [Invoice -> Nat]],
         pay' = [pay EXCEPT ![p] = row],
         \A i \in Invoice : Received(i)' = IF tx[t].alloc[i] = 0 THEN Received(i) ELSE paid[i],
         \A u \in Txn \ {t} : ~ HoldsPayment(u, p)
  PROVE  FiscalInv'
<1> USE InvParts
<1>1. \A i \in Invoice : tx[t].alloc[i] \in Nat
  <2>1. tx[t] \in Request
    BY DEF TypeOK
  <2> QED BY <2>1 DEF Request
<1>2. ASSUME NEW i \in Invoice, tx[t].alloc[i] = 0 PROVE inv'[i] = inv[i]
  BY <1>2
<1>3. ASSUME NEW i \in Invoice, tx[t].alloc[i] # 0
      PROVE  /\ inv'[i] \in InvoiceRecord
             /\ inv'[i].refs = inv[i].refs /\ inv'[i].total = inv[i].total
             /\ inv'[i].paid = paid[i] /\ inv'[i].number = inv[i].number
             /\ inv'[i].fiscal = inv[i].fiscal
             /\ inv'[i].status = IF paid[i] >= inv[i].total THEN "PAID"
                                 ELSE IF paid[i] > 0 THEN "PARTIALLY_PAID" ELSE "ISSUED"
             /\ inv[i].status \in {"ISSUED", "PARTIALLY_PAID", "PAID"}
             /\ paid[i] \in Nat /\ paid[i] <= inv[i].total /\ inv[i].total \in Nat
             /\ paid[i] = inv[i].total => paid[i] > 0
             /\ lock[InvoiceRow(i)] = t
  <2>1. tx[t].alloc[i] > 0
    BY <1>1, <1>3
  <2>2. lock[InvoiceRow(i)] = t
    BY <2>1 DEF Unallocated
  <2>3. inv'[i] = Settle(inv[i], paid[i]) /\ inv[i] \in InvoiceRecord /\ inv[i].total \in Nat
    BY <1>3, InvoiceFields
  <2>4. /\ inv[i].status \in {"ISSUED", "PARTIALLY_PAID", "PAID"}
        /\ paid[i] \in Nat /\ paid[i] <= inv[i].total
        /\ paid[i] = inv[i].total => paid[i] > 0
    BY <2>1
  <2> DEFINE r == inv[i]
             n == paid[i]
  <2>5. /\ Settle(r, n) \in InvoiceRecord
        /\ Settle(r, n).refs = r.refs /\ Settle(r, n).total = r.total
        /\ Settle(r, n).paid = n /\ Settle(r, n).number = r.number
        /\ Settle(r, n).fiscal = r.fiscal
        /\ Settle(r, n).status = IF n >= r.total THEN "PAID"
                                 ELSE IF n > 0 THEN "PARTIALLY_PAID" ELSE "ISSUED"
    <3>1. r \in InvoiceRecord /\ n \in Nat
      BY <2>3, <2>4
    <3> HIDE DEF r, n
    <3> QED BY <3>1, SettleFields
  <2> QED BY <2>2, <2>3, <2>4, <2>5
<1>4. TypeOK'
  <2>1. inv' \in [Invoice -> InvoiceRecord]
    BY <1>2, <1>3, InvoiceFields
  <2>2. pay' \in [Payment -> [status : {"NONE", "CONFIRMED", "VOIDED"}, alloc : [Invoice -> Nat]]]
    BY DEF TypeOK
  <2> QED BY <2>1, <2>2, FinishFacts DEF TypeOK, fiscal
<1>5. MoneyTables'
  <2>1. PaidIsSumOfPayments'
    <3> SUFFICES ASSUME NEW i \in Invoice
        PROVE  /\ inv'[i].paid = Received(i)' /\ inv'[i].paid <= inv'[i].total
               /\ inv'[i].paid > 0 => inv'[i].status = IF inv'[i].paid = inv'[i].total THEN "PAID"
                                                      ELSE "PARTIALLY_PAID"
               /\ inv'[i].status \in {"PAID", "PARTIALLY_PAID"} => inv'[i].paid > 0
      BY DEF PaidIsSumOfPayments
    <3>1. CASE tx[t].alloc[i] = 0
      BY <1>2, <3>1 DEF MoneyTables, PaidIsSumOfPayments
    <3>2. CASE tx[t].alloc[i] # 0
      BY <1>3, <3>2
    <3> QED BY <3>1, <3>2
  <2>2. OneActiveInvoicePerSource'
    BY <1>2, <1>3 DEF MoneyTables, OneActiveInvoicePerSource
  <2>3. NumbersWithoutGaps'
    BY <1>2, <1>3 DEF MoneyTables, NumbersWithoutGaps
  <2> QED BY <2>1, <2>2, <2>3 DEF MoneyTables
<1>6. DocumentTables'
  <2>1. \A i \in Invoice :
           \/ inv'[i].status = inv[i].status /\ inv'[i].fiscal = inv[i].fiscal
           \/ /\ {inv[i].status, inv'[i].status} \cap {"NONE", "DRAFT", "VOID"} = {}
              /\ inv'[i].fiscal = inv[i].fiscal
    BY <1>2, <1>3
  <2> QED BY <2>1, DocumentsStand DEF fiscal
<1>7. ASSUME NEW i \in Invoice, NEW u \in Txn \ {t}, Holds(u, i) PROVE inv'[i] = inv[i]
  BY <1>2, <1>3, <1>7, HoldsAlone
<1>8. \A q \in Payment, u \in Txn \ {t} : HoldsPayment(u, q) => pay'[q] = pay[q]
  BY DEF TypeOK
<1>9. ~ Exchanging(t)
  BY DEF Exchanging, Shape, Locals, Stages
<1> QED BY <1>4, <1>5, <1>6, <1>7, <1>8, <1>9, BillingWriteKeeps

\* RegisterPayment keeps the sums of every invoice it pays.
LEMMA CommitPaymentKeeps ==
  ASSUME FiscalInv, NEW t \in Txn, CommitPayment(t) PROVE FiscalInv'
<1> USE InvParts
<1>1. PICK p \in Payment : tx[t].payment = p /\ tx[t].op = "pay" /\ tx[t].pc = "allocations"
                           /\ pay[p].status = "NONE"
  BY DEF CommitPayment, Shape, Locals, Stages, ReadsHold, RowsNew
<1> DEFINE paid == [i \in Invoice |-> inv[i].paid + tx[t].alloc[i]]
           row == [status |-> "CONFIRMED", alloc |-> tx[t].alloc]
<1>2. tx[t].alloc \in [Invoice -> Nat]
  <2>1. tx[t] \in Request
    BY DEF TypeOK
  <2> QED BY <2>1 DEF Request
<1>3. ASSUME NEW i \in Invoice, tx[t].alloc[i] > 0
      PROVE  /\ inv[i].status \in {"ISSUED", "PARTIALLY_PAID", "PAID"}
             /\ paid[i] \in Nat /\ paid[i] <= inv[i].total
             /\ paid[i] = inv[i].total => paid[i] > 0
  <2>1. lock[InvoiceRow(i)] = t
    BY <1>3 DEF CommitPayment, Unallocated
  <2>2. Allocatable(t, i)
    BY <1>1, <2>1 DEF ReadsHold, MoneyRead
  <2>3. inv[i].paid \in Nat /\ inv[i].total \in Nat /\ tx[t].alloc[i] \in Nat
    BY <1>2, InvoiceFields
  <2> QED BY <1>1, <1>3, <2>2, <2>3 DEF Allocatable
<1>4. /\ row \in [status : {"NONE", "CONFIRMED", "VOIDED"}, alloc : [Invoice -> Nat]]
      /\ row.status = "CONFIRMED" /\ row.alloc = tx[t].alloc
  BY <1>2
<1>5. /\ pay' = [pay EXCEPT ![p] = row] /\ Finish(t) /\ Unallocated(t) = {}
      /\ UNCHANGED <<settings, next, reserved, fiscal>>
      /\ inv' = [i \in Invoice |-> IF tx[t].alloc[i] = 0 THEN inv[i] ELSE Settle(inv[i], paid[i])]
  <2>1. /\ pay' = [pay EXCEPT ![p] = row] /\ Finish(t) /\ Unallocated(t) = {}
        /\ UNCHANGED <<settings, next, reserved, fiscal>>
    BY <1>1 DEF CommitPayment
  <2>2. inv' = [i \in Invoice |-> IF tx[t].alloc[i] = 0 THEN inv[i]
                                  ELSE Settle(inv[i], inv[i].paid + tx[t].alloc[i])]
    BY DEF CommitPayment
  <2> QED BY <2>1, <2>2
<1>6. ASSUME NEW i \in Invoice
      PROVE  Received(i)' = IF tx[t].alloc[i] = 0 THEN Received(i) ELSE paid[i]
  <2>1. pay'[p] = row /\ \A q \in Payment \ {p} : pay'[q] = pay[q]
    BY <1>5 DEF TypeOK
  <2>2. \A j \in Invoice : \A q \in Payment :
          /\ Allocated(j)[q] = IF pay[q].status = "CONFIRMED" THEN pay[q].alloc[j] ELSE 0
          /\ Allocated(j)'[q] = IF pay'[q].status = "CONFIRMED" THEN pay'[q].alloc[j] ELSE 0
    BY DEF Allocated
  <2>3. Allocated(i)[p] = 0 /\ Allocated(i)'[p] = tx[t].alloc[i]
    BY <1>1, <1>4, <2>1, <2>2
  <2>4. inv[i].paid = Received(i)
    BY DEF MoneyTables, PaidIsSumOfPayments
  <2>5. Received(i)' = (Received(i) - 0) + tx[t].alloc[i] /\ Received(i) \in Nat
    <3>1. pay' \in [Payment -> [status : {"NONE", "CONFIRMED", "VOIDED"}, alloc : [Invoice -> Nat]]]
      BY <1>4, <1>5 DEF TypeOK
    <3> QED BY <2>1, <2>3, <3>1, ReceivedChanges
  <2> QED BY <1>2, <2>4, <2>5
<1>7. ASSUME NEW u \in Txn \ {t}, HoldsPayment(u, p) PROVE FALSE
  <2>1. CASE lock[PaymentRow(p)] = u
    <3>1. tx[u].op = "reverse" /\ tx[u].payment = p
      BY <2>1 DEF Shape, LocksMatch
    <3>2. MoneyRead(u)
      BY DEF ReadsHold
    <3>3. pay[p] = [status |-> "CONFIRMED", alloc |-> tx[u].alloc]
      BY <3>1, <3>2 DEF MoneyRead
    <3>4. pay[p].status = "CONFIRMED"
      BY <3>3
    <3> QED BY <1>1, <3>4
  <2>2. CASE tx[u].op = "pay" /\ tx[u].payment = p
    BY <1>1, <2>2 DEF Shape, OneActorEach
  <2> QED BY <1>7, <2>1, <2>2 DEF HoldsPayment
<1> HIDE DEF paid, row
<1> QED BY <1>1, <1>3, <1>4, <1>5, <1>6, <1>7, SettlementKeeps

\* ReversePayment takes from each invoice what the payment gave it.
LEMMA CommitReverseKeeps ==
  ASSUME FiscalInv, NEW t \in Txn, CommitReverse(t) PROVE FiscalInv'
<1> USE InvParts
<1>1. PICK p \in Payment : tx[t].payment = p /\ tx[t].op = "reverse" /\ tx[t].pc = "allocations"
                           /\ pay[p] = [status |-> "CONFIRMED", alloc |-> tx[t].alloc]
                           /\ lock[PaymentRow(p)] = t
  BY DEF CommitReverse, Shape, Locals, Stages, ReadsHold, MoneyRead, LocksMatch
<1> DEFINE paid == [i \in Invoice |-> inv[i].paid - tx[t].alloc[i]]
           row == [status |-> "VOIDED", alloc |-> tx[t].alloc]
<1>2. tx[t].alloc \in [Invoice -> Nat]
  <2>1. tx[t] \in Request
    BY DEF TypeOK
  <2> QED BY <2>1 DEF Request
<1>3. ASSUME NEW i \in Invoice, tx[t].alloc[i] > 0
      PROVE  /\ inv[i].status \in {"ISSUED", "PARTIALLY_PAID", "PAID"}
             /\ paid[i] \in Nat /\ paid[i] <= inv[i].total
             /\ paid[i] = inv[i].total => paid[i] > 0
  <2>1. lock[InvoiceRow(i)] = t
    BY <1>3 DEF CommitReverse, Unallocated
  <2>2. Allocatable(t, i)
    BY <1>1, <2>1 DEF ReadsHold, MoneyRead
  <2>3. inv[i].paid \in Nat /\ inv[i].total \in Nat /\ tx[t].alloc[i] \in Nat
    BY <1>2, InvoiceFields
  <2>4. inv[i].paid >= tx[t].alloc[i]
    BY <1>1, <2>2 DEF Allocatable
  <2>5. inv[i].paid <= inv[i].total /\ (inv[i].paid > 0 => inv[i].status \in {"PAID", "PARTIALLY_PAID"})
    BY DEF MoneyTables, PaidIsSumOfPayments
  <2> QED BY <1>3, <2>3, <2>4, <2>5
<1>4. /\ row \in [status : {"NONE", "CONFIRMED", "VOIDED"}, alloc : [Invoice -> Nat]]
      /\ row.status = "VOIDED"
  BY <1>2
<1>5. /\ pay' = [pay EXCEPT ![p] = row] /\ Finish(t) /\ Unallocated(t) = {}
      /\ UNCHANGED <<settings, next, reserved, fiscal>>
      /\ inv' = [i \in Invoice |-> IF tx[t].alloc[i] = 0 THEN inv[i] ELSE Settle(inv[i], paid[i])]
  <2>1. /\ pay' = [pay EXCEPT ![p].status = "VOIDED"] /\ Finish(t) /\ Unallocated(t) = {}
        /\ UNCHANGED <<settings, next, reserved, fiscal>>
    BY <1>1 DEF CommitReverse
  <2>2. inv' = [i \in Invoice |-> IF tx[t].alloc[i] = 0 THEN inv[i]
                                  ELSE Settle(inv[i], inv[i].paid - tx[t].alloc[i])]
    BY DEF CommitReverse
  <2>3. [pay[p] EXCEPT !.status = "VOIDED"] = row
    BY <1>1
  <2> QED BY <2>1, <2>2, <2>3
<1>6. ASSUME NEW i \in Invoice
      PROVE  Received(i)' = IF tx[t].alloc[i] = 0 THEN Received(i) ELSE paid[i]
  <2>1. pay'[p] = row /\ \A q \in Payment \ {p} : pay'[q] = pay[q]
    BY <1>5 DEF TypeOK
  <2>2. \A j \in Invoice : \A q \in Payment :
          /\ Allocated(j)[q] = IF pay[q].status = "CONFIRMED" THEN pay[q].alloc[j] ELSE 0
          /\ Allocated(j)'[q] = IF pay'[q].status = "CONFIRMED" THEN pay'[q].alloc[j] ELSE 0
    BY DEF Allocated
  <2>3. Allocated(i)[p] = tx[t].alloc[i] /\ Allocated(i)'[p] = 0
    BY <1>1, <1>4, <2>1, <2>2
  <2>4. inv[i].paid = Received(i)
    BY DEF MoneyTables, PaidIsSumOfPayments
  <2>5. Received(i)' = (Received(i) - tx[t].alloc[i]) + 0 /\ Received(i) \in Nat
    <3>1. pay' \in [Payment -> [status : {"NONE", "CONFIRMED", "VOIDED"}, alloc : [Invoice -> Nat]]]
      BY <1>4, <1>5 DEF TypeOK
    <3> QED BY <2>1, <2>3, <3>1, ReceivedChanges
  <2> QED BY <1>2, <2>4, <2>5
<1>7. \A u \in Txn \ {t} : ~ HoldsPayment(u, p)
  BY <1>1 DEF HoldsPayment, ReadsHold, RowsNew
<1> HIDE DEF paid, row
<1> QED BY <1>1, <1>3, <1>4, <1>5, <1>6, <1>7, SettlementKeeps

-----------------------------------------------------------------------------
(* Writes of fiscal documents *)

\* PrepareDocument inserts the only active document of its invoice.
LEMMA InsertDocumentKeeps ==
  ASSUME FiscalInv, NEW t \in Txn, InsertDocument(t) PROVE FiscalInv'
<1> USE InvParts
<1>1. PICK e \in Document, i \in Invoice :
        /\ tx[t].doc = e /\ tx[t].invoice = i /\ tx[t].op = "prepare" /\ tx[t].pc = "insert"
        /\ doc[e].status = "NONE" /\ Preparable(i)
  BY DEF InsertDocument, Shape, Locals, ReadsHold, RowsNew, MoneyRead
<1>2. ~ Exchanging(t)
  BY <1>1 DEF Exchanging
<1>3. CASE Occupied(i) # {}
  BY <1>1, <1>2, <1>3, RollbackKeeps DEF InsertDocument
<1>4. CASE Occupied(i) = {}
  <2> DEFINE row == [status |-> "READY_TO_SIGN", invoice |-> i, attempts |-> 0, control |-> control]
  <2>1. /\ doc' = [doc EXCEPT ![e] = row] /\ control' = control + 1 /\ Finish(t)
        /\ UNCHANGED <<money, station, filed, missed>>
    BY <1>1, <1>4 DEF InsertDocument
  <2>2. /\ row.status = "READY_TO_SIGN" /\ row.invoice = i /\ row.control = control
        /\ row \in [status : DocumentStatus, invoice : Invoice \cup {None},
                    attempts : 0 .. MaxAttempts, control : Nat]
    BY BillingAssumption DEF TypeOK, DocumentStatus, Active
  <2> HIDE DEF row
  <2>3. doc'[e] = row /\ (\A d \in Document \ {e} : doc'[d] = doc[d]) /\ UNCHANGED <<inv, pay, next>>
        /\ control \in Nat \ {0}
    BY <2>1 DEF TypeOK, money
  <2>4. TypeOK'
    BY <2>1, <2>2, FinishFacts DEF TypeOK, money
  <2>5. ASSUME NEW u \in Txn \ {t} PROVE ~ HoldsDocument(u, e)
    <3>1. CASE lock[DocumentRow(e)] = u
      <4>1. OwnsDocument(u) /\ tx[u].doc = e
        BY <3>1 DEF Shape, LocksMatch
      <4> QED BY <1>1, <4>1 DEF OwnsDocument, ReadsHold, DocumentRead, Sendable, Exchanging
    <3>2. CASE Exchanging(u) /\ tx[u].doc = e
      BY <1>1, <3>2, NotExchanged
    <3>3. CASE tx[u].op = "prepare" /\ tx[u].doc = e
      BY <1>1, <3>3 DEF Shape, OneActorEach
    <3> QED BY <3>1, <3>2, <3>3 DEF HoldsDocument
  <2>6. DocumentTables'
    <3>1. ASSUME NEW d \in Document, d # e PROVE doc'[d] = doc[d]
      BY <2>3, <3>1
    <3>2. DocumentsOfIssued'
      <4>1. inv[i].status \notin {"NONE", "DRAFT"}
        BY <1>1 DEF Preparable
      <4>2. \A d \in Document : doc[d].status # "NONE" => doc[d].control \in Nat
        BY DEF TypeOK
      <4> QED BY <2>1, <2>2, <2>3, <4>1, <4>2 DEF DocumentTables, DocumentsOfIssued
    <3>3. OneActiveDocument'
      <4>1. \A d \in Document : doc[d].status \in Active => doc[d].invoice # i
        BY <1>4 DEF Occupied
      <4>2. \A d \in Document : doc[d].status # "NONE" => doc[d].control # control
        BY <2>3 DEF DocumentTables, DocumentsOfIssued
      <4> QED BY <2>2, <2>3, <4>1, <4>2 DEF DocumentTables, OneActiveDocument
    <3>4. FiscalFollowsDocument'
      <4>1. Occupied(i)' = {e}
        BY <1>4, <2>2, <2>3 DEF Occupied, Active
      <4>2. ASSUME NEW j \in Invoice, j # i PROVE Occupied(j)' = Occupied(j) /\ e \notin Occupied(j)
        BY <4>2, <1>1, <2>2, <2>3 DEF Occupied, Active
      <4>3. inv'[i].fiscal \in {"READY_FOR_DTE", "REJECTED"}
        BY <1>1, <2>3 DEF Preparable
      <4> SUFFICES ASSUME NEW j \in Invoice, inv[j].status # "VOID"
          PROVE  IF Occupied(j)' = {}
                 THEN inv'[j].fiscal \in FiscalOf("NONE")
                 ELSE \A d \in Occupied(j)' : inv'[j].fiscal \in FiscalOf(doc'[d].status)
        BY <2>3 DEF FiscalFollowsDocument, FiscalOf, Active, Occupied
      <4>4. CASE j = i
        BY <4>1, <4>3, <4>4, <2>2, <2>3 DEF FiscalOf, Active
      <4>5. CASE j # i
        <5>1. IF Occupied(j) = {}
              THEN inv[j].fiscal \in FiscalOf("NONE")
              ELSE \A d \in Occupied(j) : inv[j].fiscal \in FiscalOf(doc[d].status)
          BY DEF DocumentTables, FiscalFollowsDocument, FiscalOf, Active, Occupied
        <5>2. \A d \in Occupied(j) : doc'[d] = doc[d]
          BY <4>2, <4>5, <2>3 DEF Occupied
        <5> QED BY <4>2, <4>5, <5>1, <5>2, <2>3
      <4> QED BY <4>4, <4>5
    <3> QED BY <3>2, <3>3, <3>4 DEF DocumentTables
  <2>7. AnswersPlaced'
    <3> SUFFICES ASSUME NEW d \in Heard PROVE AnswerPlaced(d)'
      BY <2>1 DEF AnswersPlaced, Heard
    <3>1. AnswerPlaced(d)
      BY DEF AnswersPlaced
    <3>2. CASE d = e
      <4>1. filed[d] = "no"
        BY <1>1, <3>1, <3>2 DEF AnswerPlaced
      <4> QED BY <2>1, <2>2, <2>3, <3>2, <4>1 DEF AnswerPlaced
    <3>3. CASE d # e
      <4>1. ASSUME NEW u \in Txn, AnswerWith(u, d) PROVE AnswerWith(u, d)'
        <5>1. u # t
          BY <1>2, <4>1 DEF AnswerWith
        <5>2. tx'[u] = tx[u] /\ filed' = filed
          BY <5>1, <2>1, FinishFacts
        <5> QED BY <4>1, <5>2 DEF AnswerWith, Exchanging, Answering
      <4>2. doc'[d] = doc[d] /\ filed' = filed
        BY <2>1, <2>3, <3>3
      <4> QED BY <3>1, <4>1, <4>2 DEF AnswerPlaced
    <3> QED BY <3>2, <3>3
  <2>8. MoneyTables'
    BY <2>3, MoneyStands
  <2>9. \A d \in Document, u \in Txn \ {t} : HoldsDocument(u, d) => doc'[d] = doc[d]
    BY <2>3, <2>5
  <2> QED BY <2>1, <2>3, <2>4, <2>6, <2>7, <2>8, <2>9, WriteKeeps
<1> QED BY <1>3, <1>4

\* A document and the fiscal status of its invoice, written together.
LEMMA BothTables ==
  ASSUME FiscalInv, NEW d \in Document, NEW i \in Invoice, doc[d].invoice = i,
         doc[d].status \in Active, NEW row, NEW f,
         row \in [status : DocumentStatus \ {"NONE"}, invoice : Invoice \cup {None},
                  attempts : 0 .. MaxAttempts, control : Nat],
         row.invoice = i, row.control = doc[d].control, f \in FiscalStatus, f \in FiscalOf(row.status),
         Free(InvoiceRow(i)),
         UNCHANGED <<settings, next, reserved, pay, station, control, filed, missed>>,
         doc' = [doc EXCEPT ![d] = row], inv' = [inv EXCEPT ![i].fiscal = f]
  PROVE  /\ MoneyTables' /\ DocumentTables'
         /\ inv' \in [Invoice -> InvoiceRecord]
         /\ doc' \in [Document -> [status : DocumentStatus, invoice : Invoice \cup {None},
                                   attempts : 0 .. MaxAttempts, control : Nat]]
         /\ \A j \in Invoice, u \in Txn : Holds(u, j) => inv'[j] = inv[j]
         /\ doc'[d] = row /\ \A e \in Document \ {d} : doc'[e] = doc[e]
<1> USE InvParts
<1>1. inv[i] \in InvoiceRecord /\ inv[i].status # "NONE"
  BY InvoiceFields DEF DocumentTables, DocumentsOfIssued, Active
<1>2. /\ inv'[i] = [inv[i] EXCEPT !.fiscal = f] /\ \A j \in Invoice \ {i} : inv'[j] = inv[j]
      /\ doc'[d] = row /\ \A e \in Document \ {d} : doc'[e] = doc[e]
  BY DEF TypeOK
<1>3. /\ inv'[i] \in InvoiceRecord /\ inv'[i].fiscal = f
      /\ inv'[i].status = inv[i].status /\ inv'[i].refs = inv[i].refs
      /\ inv'[i].total = inv[i].total /\ inv'[i].paid = inv[i].paid
      /\ inv'[i].number = inv[i].number
  BY <1>1, <1>2 DEF InvoiceRecord
<1>4. inv' \in [Invoice -> InvoiceRecord]
  BY <1>3 DEF TypeOK
<1>5. doc' \in [Document -> [status : DocumentStatus, invoice : Invoice \cup {None},
                             attempts : 0 .. MaxAttempts, control : Nat]]
  BY DEF TypeOK
<1>6. ASSUME NEW u \in Txn PROVE ~ Holds(u, i)
  BY <1>1, BillingAssumption DEF Holds, Free, ReadsHold, RowsNew
<1>7. MoneyTables'
  BY <1>2, <1>3, MoneyStands
<1>8. DocumentTables'
  <2>1. row.status \in DocumentStatus \ {"NONE"}
    OBVIOUS
  <2> QED BY <1>2, <1>3, <2>1, DocumentMoves
<1> QED BY <1>2, <1>4, <1>5, <1>6, <1>7, <1>8

\* The status a document may be given once the provider has it so.
Fits(status, f) ==
  CASE status = "ACCEPTED" -> f = "accepted"
    [] status = "INVALIDATED" -> f = "invalidated"
    [] status = "REJECTED" -> f \in {"no", "refused"}
    [] OTHER -> f = "no"

\* The request that had a document leaves it with a status that fits.
LEMMA AnswerRecorded ==
  ASSUME FiscalInv, NEW t \in Txn, NEW d \in Document, tx[t].doc = d, Finish(t),
         UNCHANGED <<filed, missed>>, NEW s,
         s \notin {"SUBMITTING", "INVALIDATION_PENDING"}, doc'[d].status = s,
         \A e \in Document \ {d} : doc'[e] = doc[e],
         d \notin missed => Fits(s, filed[d])
  PROVE  AnswersPlaced'
<1> SUFFICES ASSUME NEW e \in Heard PROVE AnswerPlaced(e)'
  BY DEF AnswersPlaced, Heard
<1>1. AnswerPlaced(e)
  BY DEF FiscalInv, AnswersPlaced
<1>2. CASE e = d
  BY <1>2 DEF AnswerPlaced, Fits, Heard
<1>3. CASE e # d
  <2>1. ASSUME NEW u \in Txn, AnswerWith(u, e) PROVE AnswerWith(u, e)'
    <3>1. u # t
      BY <1>3, <2>1 DEF AnswerWith
    <3>2. tx'[u] = tx[u]
      BY <3>1, FinishFacts DEF FiscalInv
    <3> QED BY <2>1, <3>2 DEF AnswerWith, Exchanging, Answering
  <2>2. doc'[e] = doc[e]
    BY <1>3 DEF Heard
  <2> QED BY <1>1, <2>1, <2>2 DEF AnswerPlaced
<1> QED BY <1>2, <1>3

\* A document and its invoice get their last status of a request.
LEMMA DocumentEnds ==
  ASSUME FiscalInv, NEW t \in Txn, NEW d \in Document, NEW i \in Invoice,
         tx[t].doc = d, tx[t].invoice = i, tx[t].pc = "invoice",
         tx[t].op \in {"cancel", "applied", "revoked"},
         NEW s \in DocumentStatus \ {"NONE", "SUBMITTING", "INVALIDATION_PENDING"},
         NEW f \in FiscalStatus, f \in FiscalOf(s), d \notin missed => Fits(s, filed[d]),
         CommitBoth(t, f, [doc[d] EXCEPT !.status = s]), tx' = [tx EXCEPT ![t] = Idle], UNCHANGED missed
  PROVE  FiscalInv'
<1> DEFINE row == [doc[d] EXCEPT !.status = s]
<1>1. doc[d].status \in Active /\ doc[d].invoice = i /\ lock[DocumentRow(d)] = t
  <2>1. lock[DocumentRow(d)] = t
    BY DEF FiscalInv, LocksMatch, OwnsDocument
  <2> QED BY <2>1 DEF FiscalInv, ReadsHold, DocumentRead, Exchanging, OfDocument, Sendable, Active
<1>2. /\ Finish(t) /\ Free(InvoiceRow(i)) /\ UNCHANGED <<settings, next, reserved, pay, station, control, filed, missed>>
      /\ doc' = [doc EXCEPT ![d] = row] /\ inv' = [inv EXCEPT ![i].fiscal = f]
  BY DEF CommitBoth, Finish
<1>3. /\ row.status = s /\ row.invoice = i /\ row.control = doc[d].control
      /\ row \in [status : DocumentStatus \ {"NONE"}, invoice : Invoice \cup {None},
                  attempts : 0 .. MaxAttempts, control : Nat]
  BY <1>1 DEF FiscalInv, TypeOK
<1> HIDE DEF row
<1>4. /\ MoneyTables' /\ DocumentTables'
      /\ inv' \in [Invoice -> InvoiceRecord]
      /\ doc' \in [Document -> [status : DocumentStatus, invoice : Invoice \cup {None},
                                attempts : 0 .. MaxAttempts, control : Nat]]
      /\ \A j \in Invoice, u \in Txn : Holds(u, j) => inv'[j] = inv[j]
      /\ doc'[d] = row /\ \A e \in Document \ {d} : doc'[e] = doc[e]
  BY <1>1, <1>2, <1>3, BothTables
<1>5. TypeOK'
  BY <1>2, <1>4, FinishFacts DEF TypeOK, FiscalInv
<1>6. AnswersPlaced'
  BY <1>2, <1>3, <1>4, AnswerRecorded
<1>7. ASSUME NEW u \in Txn \ {t} PROVE ~ HoldsDocument(u, d)
  <2>1. ~ (Exchanging(u) /\ tx[u].doc = d)
    <3>1. CASE Exchanging(t)
      BY <3>1 DEF FiscalInv, OneActorEach
    <3>2. CASE ~ Exchanging(t)
      <4>1. Sendable(d)
        BY <3>2 DEF FiscalInv, ReadsHold, DocumentRead, Exchanging
      <4> QED BY <4>1, NotExchanged DEF FiscalInv, Sendable
    <3> QED BY <3>1, <3>2
  <2>2. ~ (tx[u].op = "prepare" /\ tx[u].doc = d)
    BY <1>1 DEF FiscalInv, ReadsHold, RowsNew, Active
  <2> QED BY <1>1, <2>1, <2>2 DEF HoldsDocument
<1> QED BY <1>2, <1>4, <1>5, <1>6, <1>7, WriteKeeps

\* Cancelling a prepared document keeps the invariant.
LEMMA CommitCancelKeeps ==
  ASSUME FiscalInv, NEW t \in Txn, CommitCancel(t) PROVE FiscalInv'
<1>1. PICK d \in Document, i \in Invoice :
        tx[t].doc = d /\ tx[t].invoice = i /\ tx[t].op = "cancel" /\ tx[t].pc = "invoice"
  BY DEF CommitCancel, CommitBoth, FiscalInv, Locals, OfDocument
<1>2. Sendable(d)
  BY <1>1 DEF FiscalInv, ReadsHold, DocumentRead
<1>3. d \notin missed => Fits("CANCELLED", filed[d])
  BY <1>2 DEF FiscalInv, AnswersPlaced, AnswerPlaced, Sendable, Fits, Heard
<1>4. /\ "CANCELLED" \in DocumentStatus \ {"NONE", "SUBMITTING", "INVALIDATION_PENDING"}
      /\ "READY_FOR_DTE" \in FiscalStatus /\ "READY_FOR_DTE" \in FiscalOf("CANCELLED")
  BY DEF DocumentStatus, FiscalStatus, FiscalOf, Active
<1>5. CommitBoth(t, "READY_FOR_DTE", [doc[d] EXCEPT !.status = "CANCELLED"])
      /\ tx' = [tx EXCEPT ![t] = Idle] /\ UNCHANGED missed
  BY <1>1 DEF CommitCancel
<1> QED BY <1>1, <1>3, <1>4, <1>5, DocumentEnds

\* The request that exchanges a document has the answer, unless it was lost.
LEMMA AnswerIsHere ==
  ASSUME FiscalInv, NEW t \in Txn, Exchanging(t), tx[t].doc \notin missed
  PROVE  AnswerWith(t, tx[t].doc)
<1>1. tx[t].doc \in Document
  BY DEF FiscalInv, Locals, Exchanging, Stages, OfDocument
<1>2. doc[tx[t].doc].status \in {"SUBMITTING", "INVALIDATION_PENDING"}
  BY DEF FiscalInv, ReadsHold, DocumentRead
<1>3. PICK u \in Txn : AnswerWith(u, tx[t].doc)
  BY <1>1, <1>2 DEF FiscalInv, AnswersPlaced, AnswerPlaced, Heard
<1>4. u = t
  BY <1>3 DEF FiscalInv, OneActorEach, AnswerWith
<1> QED BY <1>3, <1>4

\* Recording the answer to a submission keeps the invariant.
LEMMA ApplySubmissionKeeps ==
  ASSUME FiscalInv, NEW t \in Txn, ApplySubmissionResult(t) PROVE FiscalInv'
<1>1. PICK d \in Document, i \in Invoice :
        tx[t].doc = d /\ tx[t].invoice = i /\ tx[t].op = "applied" /\ tx[t].pc = "invoice"
  BY DEF ApplySubmissionResult, CommitBoth, FiscalInv, Locals, OfDocument
<1> DEFINE answer == tx[t].answer
           s == CASE answer = "accepted" -> "ACCEPTED"
                  [] answer = "retry" -> "RETRY_REQUIRED"
                  [] OTHER -> "REJECTED"
           f == CASE answer = "accepted" -> "ACCEPTED"
                  [] answer = "retry" -> "READY_FOR_DTE"
                  [] OTHER -> "REJECTED"
<1>2. d \notin missed => Fits(s, filed[d])
  <2>1. d \notin missed => AnswerWith(t, d)
    BY <1>1, AnswerIsHere DEF Exchanging
  <2>2. d \notin missed => /\ filed[d] \in {"no", "accepted", "refused"}
                           /\ answer = "accepted" <=> filed[d] = "accepted"
                           /\ answer = "retry" => filed[d] = "no"
    BY <1>1, <2>1 DEF AnswerWith, Answering
  <2> QED BY <2>2 DEF Fits
<1>3. /\ s \in DocumentStatus \ {"NONE", "SUBMITTING", "INVALIDATION_PENDING"}
      /\ f \in FiscalStatus /\ f \in FiscalOf(s)
  BY DEF DocumentStatus, FiscalStatus, FiscalOf, Active
<1>4. CommitBoth(t, f, [doc[d] EXCEPT !.status = s]) /\ tx' = [tx EXCEPT ![t] = Idle] /\ UNCHANGED missed
  BY <1>1 DEF ApplySubmissionResult
<1> HIDE DEF s, f
<1> QED BY <1>1, <1>2, <1>3, <1>4, DocumentEnds

\* Recording the answer to an invalidation keeps the invariant.
LEMMA ApplyInvalidationKeeps ==
  ASSUME FiscalInv, NEW t \in Txn, ApplyInvalidationResult(t) PROVE FiscalInv'
<1>1. PICK d \in Document, i \in Invoice :
        /\ tx[t].doc = d /\ tx[t].invoice = i /\ tx[t].op = "revoked" /\ tx[t].pc = "invoice"
        /\ doc[d].status = "INVALIDATION_PENDING" /\ doc[d].invoice = i
        /\ lock[DocumentRow(d)] = t
  <2>1. tx[t].op = "revoked" /\ tx[t].pc = "invoice" /\ tx[t].doc \in Document /\ tx[t].invoice \in Invoice
    BY DEF ApplyInvalidationResult, FiscalInv, Locals, Stages, OfDocument
  <2>2. doc[tx[t].doc].status = "INVALIDATION_PENDING" /\ doc[tx[t].doc].invoice = tx[t].invoice
    BY <2>1 DEF FiscalInv, ReadsHold, DocumentRead, Exchanging, OfDocument
  <2>3. lock[DocumentRow(tx[t].doc)] = t
    BY <2>1 DEF FiscalInv, LocksMatch, OwnsDocument
  <2> QED BY <2>1, <2>2, <2>3
<1>2. d \notin missed => /\ filed[d] \in {"accepted", "invalidated"}
                         /\ tx[t].answer = "invalidated" <=> filed[d] = "invalidated"
  BY <1>1, AnswerIsHere DEF Exchanging, AnswerWith, Answering
<1>3. CASE tx[t].answer = "invalidated"
  <2>1. d \notin missed => Fits("INVALIDATED", filed[d])
    BY <1>2, <1>3 DEF Fits
  <2>2. /\ "INVALIDATED" \in DocumentStatus \ {"NONE", "SUBMITTING", "INVALIDATION_PENDING"}
        /\ "VOIDED" \in FiscalStatus /\ "VOIDED" \in FiscalOf("INVALIDATED")
    BY DEF DocumentStatus, FiscalStatus, FiscalOf, Active
  <2>3. CommitBoth(t, "VOIDED", [doc[d] EXCEPT !.status = "INVALIDATED"])
        /\ tx' = [tx EXCEPT ![t] = Idle] /\ UNCHANGED missed
    BY <1>1, <1>3 DEF ApplyInvalidationResult
  <2> QED BY <1>1, <2>1, <2>2, <2>3, DocumentEnds
<1>4. CASE tx[t].answer # "invalidated"
  <2> USE InvParts
  <2>1. /\ doc' = [doc EXCEPT ![d].status = "ACCEPTED"] /\ Finish(t)
        /\ UNCHANGED <<money, station, control, filed, missed>>
    BY <1>1, <1>4 DEF ApplyInvalidationResult, Mark
  <2>2. /\ doc'[d].status = "ACCEPTED" /\ doc'[d].invoice = doc[d].invoice
        /\ doc'[d].control = doc[d].control
        /\ \A e \in Document \ {d} : doc'[e] = doc[e]
    BY <2>1 DEF TypeOK
  <2>3. TypeOK'
    <3>1. doc' \in [Document -> [status : DocumentStatus, invoice : Invoice \cup {None},
                                 attempts : 0 .. MaxAttempts, control : Nat]]
      BY <2>1 DEF TypeOK, DocumentStatus, Active
    <3> QED BY <2>1, <3>1, FinishFacts DEF TypeOK, money
  <2>4. DocumentTables'
    <3>1. inv[i].status # "VOID" => inv[i].fiscal = "ACCEPTED"
      BY <1>1 DEF DocumentTables, FiscalFollowsDocument, Occupied, Active
    <3>2. /\ doc[d].status \in Active /\ doc'[d].status \in DocumentStatus \ {"NONE"}
          /\ FiscalOf(doc'[d].status) = {"ACCEPTED"} /\ inv' = inv /\ control' = control
      BY <1>1, <2>1, <2>2 DEF Active, DocumentStatus, FiscalOf, money
    <3> QED BY <1>1, <2>2, <3>1, <3>2, DocumentMoves
  <2>5. MoneyTables'
    BY <2>1, MoneyStands DEF money
  <2>6. AnswersPlaced'
    <3>1. d \notin missed => Fits("ACCEPTED", filed[d])
      BY <1>2, <1>4 DEF Fits
    <3> QED BY <1>1, <2>1, <2>2, <3>1, AnswerRecorded
  <2>7. ASSUME NEW u \in Txn \ {t} PROVE ~ HoldsDocument(u, d)
    BY <1>1 DEF HoldsDocument, Shape, OneActorEach, Exchanging, ReadsHold, RowsNew
  <2> QED BY <2>1, <2>2, <2>3, <2>4, <2>5, <2>6, <2>7, WriteKeeps DEF money
<1> QED BY <1>3, <1>4

\* MarkSubmitting: the document is claimed before it is sent, so that nobody else
\* sends, withdraws or invalidates it.
LEMMA CommitSubmittingKeeps ==
  ASSUME FiscalInv, NEW t \in Txn, CommitSubmitting(t) PROVE FiscalInv'
<1> USE InvParts
<1>1. PICK d \in Document, i \in Invoice :
        tx[t].doc = d /\ tx[t].invoice = i /\ tx[t].op = "submit" /\ tx[t].pc = "invoice"
  BY DEF CommitSubmitting, CommitBoth, Shape, Locals, OfDocument
<1>2. Sendable(d) /\ doc[d].attempts < MaxAttempts /\ doc[d].invoice = i
  BY <1>1 DEF ReadsHold, DocumentRead, OfDocument
<1> DEFINE row == [doc[d] EXCEPT !.status = "SUBMITTING", !.attempts = @ + 1]
           r == [tx[t] EXCEPT !.pc = "send"]
<1>3. /\ Free(InvoiceRow(i)) /\ lock' = Unlocked(t) /\ missed' = missed
      /\ UNCHANGED <<settings, next, reserved, pay, station, control, filed>>
      /\ doc' = [doc EXCEPT ![d] = row] /\ inv' = [inv EXCEPT ![i].fiscal = "SUBMITTED"]
  BY <1>1 DEF CommitSubmitting, CommitBoth
<1>4. /\ row.status = "SUBMITTING" /\ row.invoice = i /\ row.control = doc[d].control
      /\ row \in [status : DocumentStatus \ {"NONE"}, invoice : Invoice \cup {None},
                  attempts : 0 .. MaxAttempts, control : Nat]
  <2>1. doc[d] \in [status : DocumentStatus, invoice : Invoice \cup {None},
                    attempts : 0 .. MaxAttempts, control : Nat]
    BY DEF TypeOK
  <2>2. doc[d].attempts + 1 \in 0 .. MaxAttempts
    BY <1>2, <2>1, BillingAssumption
  <2> QED BY <1>2, <2>1, <2>2 DEF DocumentStatus, Active
<1>5. /\ tx' = [tx EXCEPT ![t] = r] /\ r \in Request /\ r.op = "submit" /\ r.pc = "send"
      /\ r.doc = d /\ r.invoice = i /\ r.answer = None
  <2>1. tx[t] \in Request
    BY DEF TypeOK
  <2>2. tx[t].answer = None
    BY <1>1 DEF Shape, Locals, Answering
  <2>3. r \in Request
    BY <2>1 DEF Request
  <2>4. tx' = [tx EXCEPT ![t] = r]
    BY <2>1 DEF TypeOK, CommitSubmitting
  <2>5. r.op = "submit" /\ r.pc = "send" /\ r.doc = d /\ r.invoice = i /\ r.answer = None
    BY <1>1, <2>1, <2>2 DEF Request
  <2> QED BY <2>3, <2>4, <2>5
<1> HIDE DEF row, r
<1>6. doc[d].status \in Active /\ "SUBMITTED" \in FiscalStatus /\ "SUBMITTED" \in FiscalOf("SUBMITTING")
  BY <1>2 DEF Sendable, Active, FiscalStatus, FiscalOf
<1>7. /\ MoneyTables' /\ DocumentTables'
      /\ inv' \in [Invoice -> InvoiceRecord]
      /\ doc' \in [Document -> [status : DocumentStatus, invoice : Invoice \cup {None},
                                attempts : 0 .. MaxAttempts, control : Nat]]
      /\ \A j \in Invoice, u \in Txn : Holds(u, j) => inv'[j] = inv[j]
      /\ doc'[d] = row /\ \A e \in Document \ {d} : doc'[e] = doc[e]
  BY <1>2, <1>3, <1>4, <1>6, BothTables
<1>8. /\ tx'[t] = r /\ \A u \in Txn \ {t} : tx'[u] = tx[u]
      /\ lock' \in [Row -> Txn \cup {None}] /\ \A k \in Row : lock'[k] # t
      /\ \A k \in Row, u \in Txn \ {t} : lock'[k] = u <=> lock[k] = u
  BY <1>3, <1>5, BillingAssumption DEF TypeOK, Unlocked
<1>9. TypeOK'
  BY <1>3, <1>5, <1>7, <1>8 DEF TypeOK
<1>10. \A u \in Txn : ~ (Exchanging(u) /\ tx[u].doc = d)
  BY <1>2, NotExchanged DEF Sendable
<1>11. Shape'
  <2>1. Locals'
    BY <1>5, <1>8, <1>1 DEF Shape, Locals, Stages, Answering, OfDocument
  <2>2. LocksMatch'
    BY <1>5, <1>8, Rows DEF Shape, LocksMatch, OwnsInvoice, OwnsDocument
  <2>3. LocksInOrder'
    BY <1>5, <1>8, Rows DEF Shape, LocksInOrder
  <2>4. OneActorEach'
    BY <1>5, <1>8, <1>10 DEF Shape, OneActorEach, Exchanging
  <2> QED BY <2>1, <2>2, <2>3, <2>4 DEF Shape
<1>12. ReadsHold'
  <2>1. ASSUME NEW u \in Txn \ {t} PROVE (RowsNew(u) /\ MoneyRead(u) /\ DocumentRead(u))'
    <3>1. lock[DocumentRow(d)] = t
      BY <1>1 DEF Shape, LocksMatch, OwnsDocument
    <3>2. ~ HoldsDocument(u, d)
      BY <1>2, <3>1, HoldsByLock DEF Sendable
    <3> QED BY <1>3, <1>7, <1>8, <3>2, Rows, ReadsStand DEF ReadsHold
  <2>2. RowsNew(t)' /\ MoneyRead(t)'
    BY <1>5, <1>8 DEF RowsNew, MoneyRead
  <2>3. DocumentRead(t)'
    BY <1>4, <1>5, <1>7, <1>8 DEF DocumentRead
  <2> QED BY <2>1, <2>2, <2>3 DEF ReadsHold
<1>13. AnswersPlaced'
  <2> SUFFICES ASSUME NEW e \in Heard PROVE AnswerPlaced(e)'
    BY <1>3 DEF AnswersPlaced, Heard
  <2>1. AnswerPlaced(e)
    BY DEF AnswersPlaced
  <2>2. CASE e = d
    <3>1. filed[d] = "no"
      BY <1>2, <2>1, <2>2 DEF AnswerPlaced, Sendable
    <3>2. AnswerWith(t, d)'
      BY <1>3, <1>5, <1>8, <3>1 DEF AnswerWith, Exchanging, Answering
    <3> QED BY <1>4, <1>7, <2>2, <3>2 DEF AnswerPlaced
  <2>3. CASE e # d
    <3>1. ASSUME NEW u \in Txn, AnswerWith(u, e) PROVE AnswerWith(u, e)'
      <4>1. u # t
        BY <1>1, <2>3, <3>1 DEF AnswerWith
      <4> QED BY <1>3, <1>8, <3>1, <4>1 DEF AnswerWith, Exchanging, Answering
    <3> QED BY <1>3, <1>7, <2>1, <2>3, <3>1 DEF AnswerPlaced
  <2> QED BY <2>2, <2>3
<1> QED
  BY <1>7, <1>9, <1>11, <1>12, <1>13
  DEF FiscalInv, Shape, MoneyTables, DocumentTables

-----------------------------------------------------------------------------
(* The invariant *)

\* The tables start empty and every connection idle.
LEMMA InitInv == Init => FiscalInv
<1> SUFFICES ASSUME Init PROVE FiscalInv
  OBVIOUS
<1>1. \A i \in Invoice : inv[i] = NoInvoice /\ NoInvoice.status = "NONE" /\ NoInvoice.paid = 0
                         /\ NoInvoice.number = 0 /\ NoInvoice.total = 0 /\ NoInvoice.fiscal = "NOT_READY"
  BY DEF Init, NoInvoice
<1>2. \A d \in Document : doc[d].status = "NONE"
  BY DEF Init, NoDocument
<1>3. \A t \in Txn : tx[t] = Idle
  BY DEF Init
<1>4. \A row \in Row, t \in Txn : lock[row] # t
  BY BillingAssumption DEF Init
<1>5. TypeOK
  <2>1. NoInvoice \in InvoiceRecord
    BY DEF NoInvoice, InvoiceRecord, InvoiceStatus, Refs, Manual, FiscalStatus
  <2>2. NoPayment \in [status : {"NONE", "CONFIRMED", "VOIDED"}, alloc : [Invoice -> Nat]]
    BY DEF NoPayment, NoAllocation
  <2>3. NoDocument \in [status : DocumentStatus, invoice : Invoice \cup {None},
                        attempts : 0 .. MaxAttempts, control : Nat]
    BY BillingAssumption DEF NoDocument, DocumentStatus
  <2> QED BY <2>1, <2>2, <2>3, IdleFields DEF Init, TypeOK, Filed
<1>6. Locals
  BY <1>3, IdleFields DEF Locals, Stages, Answering, OfDocument
<1>7. LocksMatch /\ LocksInOrder
  BY <1>3, <1>4, IdleFields, Rows DEF LocksMatch, LocksInOrder, OwnsInvoice, OwnsDocument
<1>8. OneActorEach /\ ReadsHold
  BY <1>3, IdleFields
  DEF OneActorEach, Exchanging, ReadsHold, RowsNew, MoneyRead, DocumentRead, OfDocument
<1>9. PaidIsSumOfPayments
  <2>1. ASSUME NEW i \in Invoice PROVE Received(i) = 0
    <3>1. \A p \in Payment : Allocated(i)[p] = 0
      BY DEF Allocated, Init, NoPayment
    <3> QED BY <3>1, SumZero, BillingAssumption DEF Received
  <2> QED BY <1>1, <2>1 DEF PaidIsSumOfPayments
<1>10. OneActiveInvoicePerSource
  BY <1>1 DEF OneActiveInvoicePerSource
<1>11. NumbersWithoutGaps
  BY <1>1 DEF NumbersWithoutGaps, Init
<1>12. DocumentsOfIssued /\ OneActiveDocument
  BY <1>2 DEF DocumentsOfIssued, OneActiveDocument, Active
<1>13. FiscalFollowsDocument
  BY <1>1, <1>2 DEF FiscalFollowsDocument, Occupied, Active
<1>14. AnswersPlaced
  BY <1>2 DEF AnswersPlaced, AnswerPlaced, Init, Heard
<1> QED
  BY <1>5, <1>6, <1>7, <1>8, <1>9, <1>10, <1>11, <1>12, <1>13, <1>14 DEF FiscalInv

\* Every step of every request, and every change of the settings, keeps it.
LEMMA NextKeeps == FiscalInv /\ [Next]_vars => FiscalInv'
<1> SUFFICES ASSUME FiscalInv, [Next]_vars PROVE FiscalInv'
  OBVIOUS
<1>0. settings \in Profiles /\ station \in Stations /\ reserved \subseteq Quote
  BY DEF FiscalInv, TypeOK
<1>1. CASE UpdateSettings
  BY <1>0, <1>1, AsideKeeps DEF UpdateSettings, fiscal
<1>2. ASSUME NEW q \in Quote, Convert(q) PROVE FiscalInv'
  BY <1>0, <1>2, AsideKeeps DEF Convert, fiscal
<1>3. CASE UpdateStation
  BY <1>0, <1>3, AsideKeeps DEF UpdateStation, money
<1>4. CASE UNCHANGED vars
  BY <1>0, <1>4, AsideKeeps DEF vars, money, fiscal
<1>5. ASSUME NEW t \in Txn, BillingStep(t) PROVE FiscalInv'
  BY <1>5, CommitCreateKeeps, CommitIssueKeeps, CommitVoidKeeps, LockAllocationKeeps,
     CommitPaymentKeeps, CommitReverseKeeps DEF BillingStep
<1>6. ASSUME NEW t \in Txn, DteStep(t) PROVE FiscalInv'
  BY <1>6, LockToPrepareKeeps, InsertDocumentKeeps, CommitSubmittingKeeps, CommitCancelKeeps,
     LockToApplyKeeps, ApplySubmissionKeeps, ApplyInvalidationKeeps DEF DteStep
<1>7. ASSUME NEW t \in Txn, BeginDte(t) PROVE FiscalInv'
  BY <1>7, BeginDocumentKeeps, BeginInvalidationKeeps DEF BeginDte
<1>8. ASSUME NEW i \in Invoice, NEW total \in Totals, UpdateInvoice(i, total) PROVE FiscalInv'
  BY <1>8, UpdateInvoiceKeeps
<1> QED
  BY <1>1, <1>2, <1>3, <1>4, <1>5, <1>6, <1>7, <1>8, BeginBillingKeeps, ProviderKeeps,
     GiveUpKeeps, VictimKeeps DEF Next, BillingNext, Step

\* The tables, the locks and what every request knows stay as FiscalInv says.
THEOREM FiscalInductive == Spec => []FiscalInv
BY InitInv, NextKeeps, PTL DEF Spec

-----------------------------------------------------------------------------
(* What follows at once *)

\* Tables and locals keep the shape of their rows.
THEOREM FiscalTypes == Spec => []TypeOK
<1>1. FiscalInv => TypeOK
  BY DEF FiscalInv
<1> QED BY <1>1, FiscalInductive, PTL

\* The paid amount of an invoice is the sum of its confirmed payments, within its
\* total and in agreement with its status.
THEOREM PaidAmountsAddUp == Spec => []PaidIsSumOfPayments
<1>1. FiscalInv => PaidIsSumOfPayments
  BY DEF FiscalInv
<1> QED BY <1>1, FiscalInductive, PTL

\* A quote and the reservation made of it are never charged twice.
THEOREM SourcesChargedOnce == Spec => []OneActiveInvoicePerSource
<1>1. FiscalInv => OneActiveInvoicePerSource
  BY DEF FiscalInv
<1> QED BY <1>1, FiscalInductive, PTL

\* An invoice has one active document at most, and control numbers are not reused.
THEOREM DocumentsAreSingle == Spec => []OneActiveDocument
<1>1. FiscalInv => OneActiveDocument
  BY DEF FiscalInv
<1> QED BY <1>1, FiscalInductive, PTL

\* The fiscal status of an invoice agrees with its document.
THEOREM FiscalStatusFollows == Spec => []FiscalFollowsDocument
<1>1. FiscalInv => FiscalFollowsDocument
  BY DEF FiscalInv
<1> QED BY <1>1, FiscalInductive, PTL

\* The provider never has two valid documents of an invoice: what it accepted is
\* active in the table, and one document of an invoice is.
THEOREM ValidDocumentsAreSingle == Spec => []OneValidDocument
<1>1. FiscalInv => OneValidDocument
  <2> SUFFICES ASSUME FiscalInv PROVE OneValidDocument
    OBVIOUS
  <2>1. ASSUME NEW d \in Heard, filed[d] = "accepted" PROVE doc[d].status \in Active
    <3>1. AnswerPlaced(d)
      BY DEF FiscalInv, AnswersPlaced
    <3> QED BY <2>1, <3>1 DEF AnswerPlaced, Active
  <2> QED BY <2>1 DEF OneValidDocument, FiscalInv, OneActiveDocument, Heard
<1> QED BY <1>1, FiscalInductive, PTL

-----------------------------------------------------------------------------
(* The passages of a document *)

\* What DocumentsGoForward says of one document.
Advances(d) ==
  /\ doc'[d].invoice = doc[d].invoice /\ doc'[d].control = doc[d].control
  /\ doc'[d].status # doc[d].status => <<doc[d].status, doc'[d].status>> \in Passages
  /\ doc'[d].attempts = IF doc'[d].status = "SUBMITTING" /\ doc[d].status # "SUBMITTING"
                        THEN doc[d].attempts + 1 ELSE doc[d].attempts

\* One document passes to another status, and the others are left alone.
Passes(d, s) == <<doc[d].status, s>> \in Passages /\ doc' = [doc EXCEPT ![d].status = s]

\* A document that passes to a status other than SUBMITTING, or does not, advances.
LEMMA PassingAdvances ==
  ASSUME TypeOK, NEW d \in Document,
         UNCHANGED doc \/ \E e \in Document, s \in DocumentStatus \ {"SUBMITTING"} : Passes(e, s)
  PROVE  Advances(d)
<1>1. doc[d] \in [status : DocumentStatus, invoice : Invoice \cup {None},
                  attempts : 0 .. MaxAttempts, control : Nat]
  BY DEF TypeOK
<1>2. CASE UNCHANGED doc
  BY <1>2 DEF Advances
<1>3. ASSUME NEW e \in Document, NEW s \in DocumentStatus \ {"SUBMITTING"}, Passes(e, s)
      PROVE  Advances(d)
  <2>1. CASE d = e
    <3>1. doc'[d] = [doc[d] EXCEPT !.status = s] /\ <<doc[d].status, s>> \in Passages
      BY <1>3, <2>1 DEF Passes, TypeOK
    <3> QED BY <1>1, <3>1 DEF Advances
  <2>2. CASE d # e
    <3>1. doc'[d] = doc[d]
      BY <1>3, <2>2 DEF Passes, TypeOK
    <3> QED BY <3>1 DEF Advances
  <2> QED BY <2>1, <2>2
<1> QED BY <1>2, <1>3

\* Steps that write no document, or a new one.
LEMMA NoPassage ==
  ASSUME FiscalInv, NEW t \in Txn,
         \/ BillingStep(t) \/ BeginBilling(t) \/ ProviderStep(t) \/ GiveUp(t) \/ Victim(t)
         \/ LockInvoiceToPrepare(t) \/ LockStation(t) \/ LockToApply(t)
  PROVE  UNCHANGED doc
<1>1. CASE BillingStep(t)
  BY <1>1 DEF BillingStep, CommitCreate, CommitIssue, CommitVoid, LockAllocation, CommitPayment,
              CommitReverse, Rollback, fiscal
<1>2. CASE BeginBilling(t)
  BY <1>2 DEF BeginBilling, BeginCreate, BeginIssue, BeginVoid, BeginPayment, BeginReverse, fiscal
<1>3. CASE ProviderStep(t) \/ GiveUp(t) \/ Victim(t)
  BY <1>3 DEF ProviderStep, Answered, Unanswered, GiveUp, Victim, Rollback, fiscal
<1>4. CASE LockInvoiceToPrepare(t) \/ LockStation(t) \/ LockToApply(t)
  BY <1>4 DEF LockInvoiceToPrepare, LockStation, LockToApply, Rollback, fiscal
<1> QED BY <1>1, <1>2, <1>3, <1>4

\* The steps that move a document find it as the request left it: its row is
\* locked, or the exchange with the provider keeps others away.
LEMMA DocumentPasses ==
  ASSUME FiscalInv, NEW t \in Txn,
         \/ CommitCancel(t) \/ ApplySubmissionResult(t) \/ ApplyInvalidationResult(t)
         \/ \E d \in Document : BeginInvalidation(t, d)
  PROVE  \E d \in Document, s \in DocumentStatus \ {"SUBMITTING"} : Passes(d, s)
<1> DEFINE d == tx[t].doc
<1>1. CASE CommitCancel(t)
  <2>1. d \in Document /\ Sendable(d)
    BY <1>1 DEF CommitCancel, CommitBoth, FiscalInv, Locals, OfDocument, ReadsHold, DocumentRead
  <2>2. doc' = [doc EXCEPT ![d].status = "CANCELLED"]
    BY <1>1 DEF CommitCancel, CommitBoth
  <2> QED BY <2>1, <2>2 DEF Passes, Passages, Sendable, DocumentStatus
<1>2. CASE ApplySubmissionResult(t)
  <2>1. d \in Document /\ doc[d].status = "SUBMITTING"
    BY <1>2 DEF ApplySubmissionResult, FiscalInv, Locals, OfDocument, ReadsHold, DocumentRead,
                Exchanging
  <2>2. \E s \in {"ACCEPTED", "RETRY_REQUIRED", "REJECTED"} : doc' = [doc EXCEPT ![d].status = s]
    BY <1>2 DEF ApplySubmissionResult, CommitBoth
  <2> QED BY <2>1, <2>2 DEF Passes, Passages, DocumentStatus, Active
<1>3. CASE ApplyInvalidationResult(t)
  <2>1. d \in Document /\ doc[d].status = "INVALIDATION_PENDING"
    BY <1>3 DEF ApplyInvalidationResult, FiscalInv, Locals, OfDocument, ReadsHold, DocumentRead,
                Exchanging
  <2>2. \E s \in {"ACCEPTED", "INVALIDATED"} : doc' = [doc EXCEPT ![d].status = s]
    BY <1>3 DEF ApplyInvalidationResult, CommitBoth, Mark
  <2> QED BY <2>1, <2>2 DEF Passes, Passages, DocumentStatus, Active
<1>4. ASSUME NEW e \in Document, BeginInvalidation(t, e)
      PROVE  \E s \in DocumentStatus \ {"SUBMITTING"} : Passes(e, s)
  BY <1>4 DEF BeginInvalidation, Mark, Passes, Passages, DocumentStatus, Active
<1> QED BY <1>1, <1>2, <1>3, <1>4

\* A submission claims a document that waits to be sent, and counts the attempt.
LEMMA SubmittingAdvances ==
  ASSUME FiscalInv, NEW t \in Txn, CommitSubmitting(t), NEW d \in Document
  PROVE  Advances(d)
<1> DEFINE e == tx[t].doc
<1>1. e \in Document /\ Sendable(e)
  BY DEF CommitSubmitting, CommitBoth, FiscalInv, Locals, OfDocument, ReadsHold, DocumentRead
<1>2. doc' = [doc EXCEPT ![e] = [doc[e] EXCEPT !.status = "SUBMITTING", !.attempts = @ + 1]]
  BY DEF CommitSubmitting, CommitBoth
<1>3. doc[d] \in [status : DocumentStatus, invoice : Invoice \cup {None},
                  attempts : 0 .. MaxAttempts, control : Nat]
  BY DEF FiscalInv, TypeOK
<1>4. CASE d = e
  <2>1. doc'[d] = [doc[d] EXCEPT !.status = "SUBMITTING", !.attempts = @ + 1]
    BY <1>1, <1>2, <1>4 DEF FiscalInv, TypeOK
  <2>2. doc[d].status \in {"READY_TO_SIGN", "RETRY_REQUIRED"}
    BY <1>1, <1>4 DEF Sendable
  <2> QED BY <1>3, <2>1, <2>2 DEF Advances, Passages
<1>5. CASE d # e
  <2>1. doc'[d] = doc[d]
    BY <1>1, <1>2, <1>5 DEF FiscalInv, TypeOK
  <2> QED BY <2>1 DEF Advances
<1> QED BY <1>4, <1>5

\* A preparation writes a row that was not there, and no other.
LEMMA InsertAdvances ==
  ASSUME FiscalInv, NEW t \in Txn, InsertDocument(t), NEW d \in Document, doc[d].status # "NONE"
  PROVE  Advances(d)
<1>1. doc[tx[t].doc].status = "NONE"
  BY DEF InsertDocument, FiscalInv, ReadsHold, RowsNew
<1>2. doc'[d] = doc[d]
  BY <1>1 DEF InsertDocument, Rollback, fiscal, FiscalInv, TypeOK
<1> QED BY <1>2 DEF Advances

\* DocumentsGoForward: no request withdraws, repeats or reopens what another has
\* sent, got an answer for, or closed.
THEOREM DocumentsAdvance == Spec => DocumentsGoForward
<1> DEFINE A == \A d \in Document : doc[d].status # "NONE" => Advances(d)
<1>1. FiscalInv /\ [Next]_vars => [A]_vars
  <2> SUFFICES ASSUME FiscalInv, [Next]_vars, NEW d \in Document, doc[d].status # "NONE"
               PROVE  Advances(d)
    OBVIOUS
  <2>1. TypeOK
    BY DEF FiscalInv
  <2>2. CASE UNCHANGED doc
    BY <2>1, <2>2, PassingAdvances
  <2>3. CASE UpdateSettings \/ UpdateStation \/ (\E q \in Quote : Convert(q))
             \/ (\E i \in Invoice, total \in Totals : UpdateInvoice(i, total)) \/ UNCHANGED vars
    <3>1. UNCHANGED doc
      BY <2>3 DEF UpdateSettings, UpdateStation, Convert, UpdateInvoice, vars, fiscal
    <3> QED BY <2>2, <3>1
  <2>4. ASSUME NEW t \in Txn, DteStep(t) PROVE Advances(d)
    BY <2>1, <2>2, <2>4, NoPassage, DocumentPasses, PassingAdvances, SubmittingAdvances,
       InsertAdvances DEF DteStep
  <2>5. ASSUME NEW t \in Txn, BeginDte(t) PROVE Advances(d)
    <3>1. CASE \E e \in Document : BeginInvalidation(t, e)
      BY <2>1, <2>5, <3>1, DocumentPasses, PassingAdvances
    <3>2. CASE ~ \E e \in Document : BeginInvalidation(t, e)
      <4>1. UNCHANGED doc
        BY <2>5, <3>2 DEF BeginDte, BeginPrepare, BeginSubmit, BeginCancel, fiscal
      <4> QED BY <2>2, <4>1
    <3> QED BY <3>1, <3>2
  <2>6. ASSUME NEW t \in Txn,
               BillingStep(t) \/ BeginBilling(t) \/ ProviderStep(t) \/ GiveUp(t) \/ Victim(t)
        PROVE  Advances(d)
    BY <2>2, <2>6, NoPassage
  <2> QED BY <2>3, <2>4, <2>5, <2>6 DEF Next, BillingNext, Step
<1>2. Spec => [][A]_vars
  BY <1>1, FiscalInductive, PTL DEF Spec
<1> QED BY <1>2 DEF DocumentsGoForward, Advances

-----------------------------------------------------------------------------
(* Seals: what is recorded as accepted, whatever answers were lost or misread *)

Claims(status) == status \in {"ACCEPTED", "INVALIDATION_PENDING", "INVALIDATED"}
OnFile(d) == filed[d] \in {"accepted", "invalidated"}
Brings(t) == tx[t].op \in {"submit", "applied"} /\ tx[t].answer = "accepted"

\* A step that takes nothing off the file, records an acceptance only of what is on
\* file, and brings no other, keeps the seals.
LEMMA SealsStand ==
  ASSUME FiscalInv, AnswersSealed,
         \A d \in Document : OnFile(d) => OnFile(d)',
         \A d \in Document : Claims(doc'[d].status) => Claims(doc[d].status) \/ OnFile(d),
         \A u \in Txn : Brings(u)' => \/ Brings(u) /\ tx'[u].doc = tx[u].doc
                                      \/ tx'[u].doc \in Document /\ OnFile(tx[u].doc)'
                                         /\ tx'[u].doc = tx[u].doc
  PROVE  AnswersSealed'
<1>1. \A d \in Document : Claims(doc[d].status) => OnFile(d)
  BY DEF AnswersSealed, SealedIsFiled, Claims, OnFile
<1>2. \A u \in Txn : Brings(u) => tx[u].doc \in Document /\ OnFile(tx[u].doc)
  BY DEF AnswersSealed, Brings, OnFile, FiscalInv, Locals, OfDocument
<1>3. SealedIsFiled'
  BY <1>1 DEF SealedIsFiled, Claims, OnFile
<1>4. \A u \in Txn : Brings(u)' => filed'[tx'[u].doc] \in {"accepted", "invalidated"}
  BY <1>2 DEF OnFile
<1> QED BY <1>3, <1>4 DEF AnswersSealed, Brings

\* No request changes the file of the provider but one that is answered or not, and
\* none gets an acceptance to record in another way.
LEMMA BringsAsBefore ==
  ASSUME FiscalInv, NEW t \in Txn,
         \/ BillingStep(t) \/ BeginBilling(t) \/ DteStep(t) \/ BeginDte(t)
         \/ GiveUp(t) \/ Victim(t)
  PROVE  /\ UNCHANGED filed
         /\ \A u \in Txn : Brings(u)' => Brings(u) /\ tx'[u].doc = tx[u].doc
<1> DEFINE Goal == /\ UNCHANGED filed
                   /\ \A u \in Txn : Brings(u)' => Brings(u) /\ tx'[u].doc = tx[u].doc
<1>1. tx \in [Txn -> Request] /\ Idle.answer = None /\ None # "accepted"
  BY IdleFields, BillingAssumption DEF FiscalInv, TypeOK, Verdict, Filed
<1>2. ASSUME UNCHANGED filed,
             Finish(t) \/ tx' = tx \/ \E r : r.answer = None /\ tx' = [tx EXCEPT ![t] = r]
      PROVE  Goal
  BY <1>1, <1>2 DEF Finish, Brings
<1>3. ASSUME UNCHANGED filed, \E pc : tx' = [tx EXCEPT ![t].pc = pc]
      PROVE  Goal
  BY <1>1, <1>3 DEF Brings, Request
<1>4. CASE Victim(t) \/ GiveUp(t)
  BY <1>2, <1>4 DEF Victim, Rollback, GiveUp, fiscal
<1>5. CASE BillingStep(t)
  BY <1>2, <1>5 DEF BillingStep, CommitCreate, CommitIssue, CommitVoid, LockAllocation,
                    CommitPayment, CommitReverse, Rollback, fiscal
<1>6. CASE BeginBilling(t)
  <2> USE <1>1 DEF Begin, Idle, Brings, fiscal
  <2>1. CASE BeginCreate(t)
    BY <2>1 DEF BeginCreate
  <2>2. ASSUME NEW i \in Invoice, BeginIssue(t, i) PROVE Goal
    BY <2>2 DEF BeginIssue
  <2>3. ASSUME NEW i \in Invoice, BeginVoid(t, i) PROVE Goal
    BY <2>3 DEF BeginVoid
  <2>4. ASSUME NEW p \in Payment, NEW alloc \in Allocations,
               NEW rank \in Ranks \cup {Stored}, BeginPayment(t, p, alloc, rank)
        PROVE  Goal
    BY <2>4 DEF BeginPayment
  <2>5. ASSUME NEW p \in Payment, BeginReverse(t, p) PROVE Goal
    BY <2>5 DEF BeginReverse
  <2>6. \A alloc \in Allocations : Spellings(alloc) \subseteq Ranks \cup {Stored}
    BY DEF Spellings
  <2> QED BY <1>6, <2>1, <2>2, <2>3, <2>4, <2>5, <2>6 DEF BeginBilling
<1>7. CASE BeginDte(t)
  <2> USE <1>1 DEF Begin, LockDocument, Idle, Brings, fiscal
  <2>1. ASSUME NEW d \in Document, BeginInvalidation(t, d) PROVE Goal
    BY <2>1 DEF BeginInvalidation
  <2>2. ASSUME NEW i \in Invoice, NEW d \in Document, BeginPrepare(t, i, d) PROVE Goal
    BY <2>2 DEF BeginPrepare
  <2>3. ASSUME NEW d \in Document, BeginSubmit(t, d) PROVE Goal
    BY <2>3 DEF BeginSubmit
  <2>4. ASSUME NEW d \in Document, BeginCancel(t, d) PROVE Goal
    BY <2>4 DEF BeginCancel
  <2> QED BY <1>7, <2>1, <2>2, <2>3, <2>4 DEF BeginDte
<1>8. CASE LockInvoiceToPrepare(t) \/ LockStation(t) \/ InsertDocument(t) \/ CommitSubmitting(t)
  BY <1>2, <1>3, <1>8 DEF LockInvoiceToPrepare, LockStation, InsertDocument, CommitSubmitting,
                          CommitBoth, Rollback, fiscal
<1>9. CASE CommitCancel(t) \/ ApplySubmissionResult(t) \/ ApplyInvalidationResult(t)
  BY <1>1, <1>2, <1>9 DEF CommitCancel, ApplySubmissionResult, ApplyInvalidationResult, CommitBoth
<1>10. CASE LockToApply(t)
  <2>1. CASE Rollback(t)
    BY <1>2, <2>1 DEF Rollback, fiscal
  <2>2. CASE ~ Rollback(t)
    <3>1. /\ UNCHANGED filed
          /\ tx' = [tx EXCEPT ![t].pc = "invoice",
                              ![t].op = IF @ = "submit" THEN "applied" ELSE "revoked"]
      BY <1>10, <2>2 DEF LockToApply, fiscal
    <3> QED BY <1>1, <3>1 DEF Brings, Request
  <2> QED BY <2>1, <2>2
<1> QED BY <1>4, <1>5, <1>6, <1>7, <1>8, <1>9, <1>10 DEF DteStep

\* The row of a document says it is accepted only if it did before, or its provider
\* has it on file.
LEMMA ClaimsAreFiled ==
  ASSUME FiscalInv, AnswersSealed, NEW t \in Txn,
         \/ BillingStep(t) \/ BeginBilling(t) \/ DteStep(t) \/ BeginDte(t)
         \/ GiveUp(t) \/ Victim(t) \/ ProviderStep(t),
         NEW d \in Document, Claims(doc'[d].status)
  PROVE  Claims(doc[d].status) \/ OnFile(d)
<1>1. doc \in [Document -> [status : DocumentStatus, invoice : Invoice \cup {None},
                            attempts : 0 .. MaxAttempts, control : Nat]]
  BY DEF FiscalInv, TypeOK
<1>2. CASE UNCHANGED doc
  BY <1>2
<1>3. CASE \/ BillingStep(t) \/ BeginBilling(t) \/ ProviderStep(t) \/ GiveUp(t) \/ Victim(t)
           \/ LockInvoiceToPrepare(t) \/ LockStation(t) \/ LockToApply(t)
  BY <1>2, <1>3, NoPassage
<1>4. CASE InsertDocument(t)
  BY <1>1, <1>2, <1>4 DEF InsertDocument, Rollback, fiscal, Claims
<1>5. CASE CommitSubmitting(t) \/ CommitCancel(t)
  BY <1>1, <1>5 DEF CommitSubmitting, CommitCancel, CommitBoth, Claims
<1>6. CASE ApplySubmissionResult(t)
  <2>1. CASE tx[t].answer = "accepted"
    <3>1. OnFile(tx[t].doc)
      BY <1>6, <2>1 DEF ApplySubmissionResult, AnswersSealed, OnFile
    <3> QED BY <1>1, <1>6, <3>1 DEF ApplySubmissionResult, CommitBoth
  <2>2. CASE tx[t].answer # "accepted"
    BY <1>1, <1>6, <2>2 DEF ApplySubmissionResult, CommitBoth, Claims
  <2> QED BY <2>1, <2>2
<1>7. CASE ApplyInvalidationResult(t) \/ \E e \in Document : BeginInvalidation(t, e)
  <2>1. ASSUME NEW e \in Document, Claims(doc[e].status), NEW s,
               doc' = [doc EXCEPT ![e].status = s]
        PROVE  Claims(doc[d].status)
    BY <1>1, <2>1
  <2>2. CASE ApplyInvalidationResult(t)
    <3>1. tx[t].doc \in Document /\ doc[tx[t].doc].status = "INVALIDATION_PENDING"
      BY <2>2 DEF ApplyInvalidationResult, FiscalInv, Locals, OfDocument, ReadsHold, DocumentRead,
                  Exchanging
    <3>2. \E s : doc' = [doc EXCEPT ![tx[t].doc].status = s]
      BY <2>2 DEF ApplyInvalidationResult, CommitBoth, Mark
    <3> QED BY <2>1, <3>1, <3>2 DEF Claims
  <2>3. ASSUME NEW e \in Document, BeginInvalidation(t, e) PROVE Claims(doc[d].status)
    BY <2>1, <2>3 DEF BeginInvalidation, Mark, Claims
  <2> QED BY <1>7, <2>2, <2>3
<1>8. CASE BeginDte(t) /\ ~ \E e \in Document : BeginInvalidation(t, e)
  BY <1>2, <1>8 DEF BeginDte, BeginPrepare, BeginSubmit, BeginCancel, fiscal
<1> QED BY <1>3, <1>4, <1>5, <1>6, <1>7, <1>8 DEF DteStep

\* A seal comes only with an acceptance, and the file never forgets one.
LEMMA ProviderSeals ==
  ASSUME FiscalInv, AnswersSealed, NEW t \in Txn, ProviderStep(t) PROVE AnswersSealed'
<1> DEFINE d == tx[t].doc
<1>1. tx \in [Txn -> Request] /\ filed \in [Document -> Filed] /\ d \in Document
  BY DEF ProviderStep, Answered, Unanswered, FiscalInv, TypeOK, Locals, Stages, OfDocument
<1>2. ASSUME NEW f \in FiledBySubmit(d) \cup FiledByInvalidation(d) \cup {filed[d]},
             filed' = [filed EXCEPT ![d] = f]
      PROVE  \A e \in Document : OnFile(e) => OnFile(e)'
    BY <1>1, <1>2 DEF OnFile, FiledBySubmit, FiledByInvalidation
<1>3. \A e \in Document : OnFile(e) => OnFile(e)'
  BY <1>2 DEF ProviderStep, Answered, Unanswered
<1>4. \A e \in Document : Claims(doc'[e].status) => Claims(doc[e].status) \/ OnFile(e)
  BY ClaimsAreFiled
<1>5. ASSUME NEW u \in Txn, Brings(u)'
      PROVE  \/ Brings(u) /\ tx'[u].doc = tx[u].doc
             \/ tx'[u].doc \in Document /\ OnFile(tx[u].doc)' /\ tx'[u].doc = tx[u].doc
  <2>1. CASE u # t
    BY <1>1, <1>5, <2>1 DEF ProviderStep, Answered, Unanswered, Brings
  <2>2. CASE u = t /\ Unanswered(t)
    BY <1>1, <1>5, <2>2 DEF Unanswered, Reported, Brings, Request
  <2>3. CASE u = t /\ Answered(t)
    <3>1. tx[t].op = "submit"
      BY <1>1, <1>5, <2>3 DEF Answered, Brings, FiscalInv, Locals, Stages, Request
    <3>2. PICK reply \in Replies, f \in FiledBySubmit(d) :
            /\ reply.seal => f \in {"accepted", "invalidated"}
            /\ filed' = [filed EXCEPT ![d] = f]
            /\ tx' = [tx EXCEPT ![t].pc = "document", ![t].answer = Transmit(reply)]
      BY <2>3, <3>1 DEF Answered
    <3>3. Transmit(reply) = "accepted" /\ tx'[t].doc = d
      BY <1>1, <1>5, <2>3, <3>2 DEF Brings, Request
    <3> QED BY <1>1, <2>3, <3>2, <3>3 DEF Transmit, OnFile
  <2> QED BY <2>1, <2>2, <2>3 DEF ProviderStep
<1> QED BY <1>3, <1>4, <1>5, SealsStand

LEMMA NextSeals == FiscalInv /\ AnswersSealed /\ [Next]_vars => AnswersSealed'
<1> SUFFICES ASSUME FiscalInv, AnswersSealed, [Next]_vars PROVE AnswersSealed'
  OBVIOUS
<1>1. CASE \/ UpdateSettings \/ UpdateStation \/ (\E q \in Quote : Convert(q))
           \/ (\E i \in Invoice, total \in Totals : UpdateInvoice(i, total)) \/ UNCHANGED vars
  <2>1. UNCHANGED <<doc, filed, tx>>
    BY <1>1 DEF UpdateSettings, UpdateStation, Convert, UpdateInvoice, vars, fiscal
  <2> QED BY <2>1 DEF AnswersSealed, SealedIsFiled
<1>2. ASSUME NEW t \in Txn,
             \/ BillingStep(t) \/ BeginBilling(t) \/ DteStep(t) \/ BeginDte(t)
             \/ GiveUp(t) \/ Victim(t)
      PROVE  AnswersSealed'
  <2>1. \A d \in Document : Claims(doc'[d].status) => Claims(doc[d].status) \/ OnFile(d)
    BY <1>2, ClaimsAreFiled
  <2>2. \A d \in Document : OnFile(d) => OnFile(d)'
    BY <1>2, BringsAsBefore DEF OnFile
  <2> QED BY <1>2, <2>1, <2>2, BringsAsBefore, SealsStand
<1> QED BY <1>1, <1>2, ProviderSeals DEF Next, BillingNext, Step

\* Only what the provider has accepted is recorded as accepted, and between requests
\* the table and the provider agree on a document whose answers were heard.
THEOREM AnswersAreKept == Spec => []AnswersKept
<1>1. Init => AnswersSealed
  BY IdleFields DEF Init, NoDocument, AnswersSealed, SealedIsFiled
<1>2. Spec => []AnswersSealed
  BY <1>1, NextSeals, FiscalInductive, PTL DEF Spec
<1>3. FiscalInv /\ AnswersSealed => AnswersKept
  <2> SUFFICES ASSUME FiscalInv, NEW d \in Heard, \A t \in Txn : tx[t].doc # d
               PROVE  /\ doc[d].status = "ACCEPTED" <=> filed[d] = "accepted"
                      /\ doc[d].status = "INVALIDATED" <=> filed[d] = "invalidated"
    BY DEF AnswersKept, AnswersSealed
  <2>1. AnswerPlaced(d)
    BY DEF FiscalInv, AnswersPlaced
  <2> QED BY <2>1 DEF AnswerPlaced, AnswerWith
<1> QED BY <1>2, <1>3, FiscalInductive, PTL

-----------------------------------------------------------------------------
(* Waiting in a circle *)

\* Requests, each of which waits for one of them.
Circle(C) == C \in SUBSET Txn /\ \A t \in C : \E u \in C : WaitsFor(t, u)

\* A preparation that waits for a document waits for a request that has locked it
\* and waits for the invoice the preparation holds.
LEMMA InsertsMeetHeadOn ==
  ASSUME FiscalInv, NEW t \in Txn, NEW u \in Txn, tx[t].pc = "insert", WaitsFor(t, u)
  PROVE  tx[t].op = "prepare" /\ WaitsFor(u, t)
<1>1. tx[t].op = "prepare" /\ tx[t].invoice \in Invoice
  BY DEF FiscalInv, Locals, Stages
<1>2. PICK d \in Occupied(tx[t].invoice) : lock[DocumentRow(d)] = u
  BY DEF WaitsFor, Wanted
<1>3. d \in Document /\ doc[d].invoice = tx[t].invoice
  BY <1>2 DEF Occupied
<1>4. /\ tx[u].pc = "invoice" /\ tx[u].op \in {"submit", "cancel", "applied", "revoked"}
      /\ tx[u].doc = d
  BY <1>2, <1>3 DEF FiscalInv, LocksMatch, OwnsDocument
<1>5. tx[u].invoice = tx[t].invoice
  BY <1>3, <1>4 DEF FiscalInv, ReadsHold, DocumentRead, OfDocument
<1>6. lock[InvoiceRow(tx[t].invoice)] = t
  BY <1>1 DEF FiscalInv, LocksMatch, OwnsInvoice
<1>7. InvoiceRow(tx[t].invoice) \in Wanted(u)
  BY <1>4, <1>5 DEF Wanted
<1> QED BY <1>1, <1>4, <1>6, <1>7 DEF WaitsFor

\* Without a preparation that waits for a document, what waits for an invoice waits
\* for a payment or a reversal, and what waits for a document for one that waits
\* for an invoice.
LEMMA CirclesAllocate ==
  ASSUME FiscalInv, NEW C, Circle(C), \A t \in C : tx[t].pc # "insert", NEW t \in C
  PROVE  \/ /\ tx[t].pc \in {"invoice", "allocations"}
            /\ \E u \in C, i \in Invoice : /\ WaitsFor(t, u) /\ InvoiceRow(i) \in Wanted(t)
                                           /\ lock[InvoiceRow(i)] = u /\ tx[u].pc = "allocations"
         \/ tx[t].pc = "document" /\ \E u \in C : tx[u].pc = "invoice"
<1>1. PICK u \in C : WaitsFor(t, u)
  BY DEF Circle
<1>2. PICK row \in Wanted(t) : lock[row] = u
  BY <1>1 DEF WaitsFor
<1>3. t \in Txn /\ u \in Txn
  BY DEF Circle
<1>4. Wanted(u) # {}
  BY DEF Circle, WaitsFor
<1>5. <<tx[t].op, tx[t].pc>> \in Stages /\ <<tx[u].op, tx[u].pc>> \in Stages
  BY <1>3 DEF FiscalInv, Locals
<1>6. tx[t].pc # "insert" /\ tx[u].pc # "insert"
  OBVIOUS
<1>7. tx[t].pc # "settings" /\ tx[u].pc # "settings"
  <2> SUFFICES ASSUME NEW v \in C, tx[v].pc = "settings" PROVE FALSE
    OBVIOUS
  <2>1. PICK w \in C : lock[StationRow] = w
    BY DEF Circle, WaitsFor, Wanted
  <2> QED BY <2>1 DEF FiscalInv, LocksMatch, Circle
<1>8. ASSUME NEW i \in Invoice, row = InvoiceRow(i) PROVE tx[u].pc = "allocations"
  <2>1. OwnsInvoice(u) \/ tx[u].pc = "allocations"
    BY <1>2, <1>3, <1>8 DEF FiscalInv, LocksMatch
  <2>2. ~ OwnsInvoice(u)
    BY <1>4, <1>5, <1>6, <1>7 DEF OwnsInvoice, Stages, Wanted
  <2> QED BY <2>1, <2>2
<1>9. CASE tx[t].pc = "invoice"
  <2>1. row = InvoiceRow(tx[t].invoice) /\ tx[t].invoice \in Invoice
    BY <1>2, <1>3, <1>5, <1>9 DEF Wanted, FiscalInv, Locals, Stages
  <2> QED BY <1>1, <1>2, <1>8, <1>9, <2>1
<1>10. CASE tx[t].pc = "allocations"
  <2>1. Unallocated(t) # {} /\ row = InvoiceRow(NextInvoice(t))
    BY <1>2, <1>10 DEF Wanted
  <2>2. NextInvoice(t) \in Invoice
    BY <1>3, <2>1, NextIsFirst DEF FiscalInv
  <2> QED BY <1>1, <1>2, <1>8, <1>10, <2>1, <2>2
<1>11. CASE tx[t].pc = "document"
  <2>1. row = DocumentRow(tx[t].doc) /\ tx[t].doc \in Document
    BY <1>2, <1>3, <1>5, <1>11 DEF Wanted, FiscalInv, Locals, Stages, OfDocument
  <2>2. tx[u].pc = "invoice"
    BY <1>2, <1>3, <2>1 DEF FiscalInv, LocksMatch, OwnsDocument
  <2> QED BY <1>11, <2>2
<1> QED BY <1>2, <1>6, <1>7, <1>9, <1>10, <1>11 DEF Wanted

\* A payment that is waited for and waits, waits for a later invoice than it holds,
\* if its ids sort as those of the database do.
LEMMA AllocationsRise ==
  ASSUME FiscalInv, NEW t \in Txn, NEW u \in Txn, tx[t].pc = "allocations", tx[u].pc = "allocations",
         Canonical(u), WaitsFor(t, u), Wanted(u) # {}
  PROVE  NextInvoice(t) \in Nat /\ NextInvoice(u) \in Nat /\ NextInvoice(t) < NextInvoice(u)
<1>1. Unallocated(t) # {} /\ lock[InvoiceRow(NextInvoice(t))] = u
  BY DEF WaitsFor, Wanted
<1>2. Unallocated(u) # {}
  BY DEF Wanted
<1>3. /\ NextInvoice(t) \in Invoice /\ NextInvoice(u) \in Invoice
      /\ NextInvoice(u) \in Unallocated(u)
  BY <1>1, <1>2, NextIsFirst DEF FiscalInv
<1>4. NextInvoice(t) \in Nat /\ NextInvoice(u) \in Nat
  BY <1>3, BillingAssumption
<1>5. tx[u].alloc[NextInvoice(u)] > 0 /\ lock[InvoiceRow(NextInvoice(u))] # u
  BY <1>3 DEF Unallocated
<1>6. NextInvoice(u) # NextInvoice(t)
  BY <1>1, <1>5
<1>7. ~ (NextInvoice(u) < NextInvoice(t))
  <2> SUFFICES ASSUME NextInvoice(u) < NextInvoice(t) PROVE FALSE
    OBVIOUS
  <2>1. ~ OwnsInvoice(u)
    BY DEF FiscalInv, Locals, Stages, OwnsInvoice
  <2>2. tx[u].alloc[NextInvoice(t)] > 0
    BY <1>1, <1>3, <2>1 DEF FiscalInv, LocksMatch
  <2>3. tx[u].rank[NextInvoice(u)] < tx[u].rank[NextInvoice(t)]
    BY <1>3, <1>5, <2>2 DEF Canonical
  <2> QED BY <1>1, <1>3, <1>5, <2>3 DEF FiscalInv, LocksInOrder
<1> QED BY <1>4, <1>6, <1>7

\* A circle of requests has a preparation and another that wait for each other, or
\* a payment that spells ids so that they sort out of order: without either, the
\* payments in it would wait for ever later invoices.
THEOREM DeadlocksNeedPreparations == Spec => []OnlyPrepareDeadlocks
<1>1. FiscalInv => OnlyPrepareDeadlocks
  <2> SUFFICES ASSUME FiscalInv, NEW C \in SUBSET Txn, C # {}, IsFiniteSet(C),
                      \A t \in C : Canonical(t) /\ \E u \in C : WaitsFor(t, u),
                      \A t \in C : tx[t].pc # "insert"
               PROVE  FALSE
    BY InsertsMeetHeadOn DEF OnlyPrepareDeadlocks
  <2>1. Circle(C)
    BY DEF Circle
  <2> DEFINE A == {t \in C : tx[t].pc = "allocations"}
             Nexts == {NextInvoice(t) : t \in A}
  <2>2. ASSUME NEW t \in A
        PROVE  NextInvoice(t) \in Nat /\ \E u \in A : NextInvoice(u) \in Nat /\ NextInvoice(t) < NextInvoice(u)
    <3>1. PICK u \in C, i \in Invoice : /\ WaitsFor(t, u) /\ InvoiceRow(i) \in Wanted(t)
                                        /\ lock[InvoiceRow(i)] = u /\ tx[u].pc = "allocations"
      BY <2>1, CirclesAllocate
    <3>2. Wanted(u) # {}
      BY DEF WaitsFor
    <3> QED BY <3>1, <3>2, AllocationsRise
  <2>3. A # {}
    <3>1. PICK t \in C : TRUE
      OBVIOUS
    <3>2. PICK u \in C : tx[u].pc \in {"invoice", "allocations"}
      BY <2>1, <3>1, CirclesAllocate
    <3>3. PICK v \in C : tx[v].pc = "allocations"
      BY <2>1, <3>2, CirclesAllocate
    <3> QED BY <3>3
  <2>4. IsFiniteSet(Nexts)
    <3>1. IsFiniteSet(A)
      BY FS_Subset
    <3>2. [t \in A |-> NextInvoice(t)] \in Surjection(A, Nexts)
      BY DEF Surjection
    <3> HIDE DEF A
    <3> QED BY <3>1, <3>2, FS_Surjection
  <2>5. Nexts \in SUBSET Nat /\ Nexts # {}
    BY <2>2, <2>3
  <2>6. PICK m \in Nexts : \A y \in Nexts : y <= m
    <3> HIDE DEF Nexts
    <3> QED BY <2>4, <2>5, GreatestElement
  <2>7. PICK t \in A : m = NextInvoice(t)
    BY <2>6
  <2>8. PICK u \in A : NextInvoice(u) \in Nat /\ NextInvoice(t) < NextInvoice(u) /\ NextInvoice(t) \in Nat
    BY <2>2
  <2>9. NextInvoice(u) <= NextInvoice(t)
    BY <2>6, <2>7
  <2> QED BY <2>8, <2>9
<1> QED BY <1>1, FiscalInductive, PTL

-----------------------------------------------------------------------------
(* Billing implements an account book *)

\* A step that changes neither the status, total or number of an invoice nor a
\* payment is no entry in the book.
LEMMA NoEntry ==
  ASSUME UNCHANGED <<next, pay>>,
         \A i \in Invoice : /\ inv'[i].status = inv[i].status /\ inv'[i].total = inv[i].total
                            /\ inv'[i].number = inv[i].number
  PROVE  UNCHANGED Ledger!vars
<1>1. Phase' = Phase /\ Total' = Total
  BY DEF Phase, Total
<1>2. Stands' = Stands /\ Amounts' = Amounts
  BY DEF Stands, Amounts
<1>3. Book' = Book
  <2>1. ASSUME NEW n PROVE Numbered(n)' = Numbered(n)
    BY DEF Numbered
  <2> QED BY <2>1 DEF Book
<1> QED BY <1>1, <1>2, <1>3 DEF Ledger!vars, Ledger!receipts

\* What the book has received for an invoice is what billing has.
LEMMA BookReceived ==
  ASSUME NEW i \in Invoice PROVE Ledger!Received(i) = Received(i)
<1> DEFINE g == [p \in Payment |-> IF Stands[p] = "yes" THEN Amounts[p][i] ELSE 0]
<1>1. \A p \in Payment : g[p] = Allocated(i)[p]
  BY DEF Stands, Amounts, Allocated
<1> HIDE DEF g
<1>2. SumOver(g, Payment) = SumOver(Allocated(i), Payment)
  BY <1>1, SumEqual, BillingAssumption
<1>3. Ledger!SumOver(g, Payment) = SumOver(g, Payment)
  BY DEF SumOver, MapThenSumSet, MapThenFoldSet,
         Ledger!SumOver, Ledger!MapThenSumSet, Ledger!MapThenFoldSet
<1>4. Ledger!Received(i) = Ledger!SumOver(g, Payment)
  BY DEF g, Ledger!Received
<1> QED BY <1>2, <1>3, <1>4 DEF Received

\* The invoice that bears a number is the only one.
LEMMA BearsNumber ==
  ASSUME NEW row, NEW n, n # 0, NEW i \in Invoice, row[i].number = n,
         \A j, k \in Invoice : j # k /\ row[j].number # 0 => row[j].number # row[k].number
  PROVE  (CHOOSE j \in Invoice : row[j].number = n) = i
OBVIOUS

\* The empty tables are an empty book.
LEMMA BookInit == Init => Ledger!Init
<1> SUFFICES ASSUME Init PROVE Ledger!Init
  OBVIOUS
<1>1. Phase = [i \in Invoice |-> "none"] /\ Total = [i \in Invoice |-> 0]
  BY DEF Init, Phase, Total, NoInvoice
<1>2. /\ Stands = [p \in Payment |-> "never"]
      /\ Amounts = [p \in Payment |-> [i \in Invoice |-> 0]]
  BY DEF Init, Stands, Amounts, NoPayment, NoAllocation
<1>3. Book = <<>>
  BY DEF Init, Book
<1> QED BY <1>1, <1>2, <1>3 DEF Ledger!Init

\* An invoice that was not issued gets a total.
LEMMA EntryDraft ==
  ASSUME NEW i \in Invoice, inv[i].status \in {"NONE", "DRAFT"}, inv'[i].status = "DRAFT",
         inv'[i].total \in Totals, inv'[i].number = inv[i].number,
         \A j \in Invoice \ {i} : inv'[j] = inv[j], UNCHANGED <<next, pay>>
  PROVE  Ledger!Draft(i)
<1>1. Phase[i] \in {"none", "draft"} /\ Phase' = [Phase EXCEPT ![i] = "draft"]
  BY DEF Phase
<1>2. Total' = [Total EXCEPT ![i] = inv'[i].total]
  BY DEF Total
<1>3. Stands' = Stands /\ Amounts' = Amounts
  BY DEF Stands, Amounts
<1>4. Book' = Book
  <2>1. \A j \in Invoice : inv'[j].number = inv[j].number
    OBVIOUS
  <2>2. ASSUME NEW n PROVE Numbered(n)' = Numbered(n)
    BY <2>1 DEF Numbered
  <2> QED BY <2>2 DEF Book
<1> QED BY <1>1, <1>2, <1>3, <1>4 DEF Ledger!Draft, Ledger!receipts

\* CreateInvoice enters a draft.
LEMMA CreateIsDraft ==
  ASSUME FiscalInv, NEW t \in Txn, CommitCreate(t)
  PROVE  UNCHANGED Ledger!vars \/ \E i \in Invoice : Ledger!Draft(i)
<1>1. CASE Rollback(t)
  BY <1>1, NoEntry DEF Rollback, money
<1>2. CASE ~ Rollback(t)
  <2>1. PICK i \in Invoice : tx[t].invoice = i /\ tx[t].op = "create" /\ tx[t].total \in Totals
    BY DEF CommitCreate, FiscalInv, Locals
  <2>2. /\ inv' = [inv EXCEPT ![i] = [NoInvoice EXCEPT !.status = "DRAFT", !.refs = tx[t].refs,
                                                       !.total = tx[t].total]]
        /\ UNCHANGED <<next, pay>>
    BY <1>2, <2>1 DEF CommitCreate, Put
  <2>3. inv'[i].status = "DRAFT" /\ inv'[i].total = tx[t].total /\ inv'[i].number = 0
        /\ \A j \in Invoice \ {i} : inv'[j] = inv[j]
    BY <2>2 DEF FiscalInv, TypeOK, NoInvoice
  <2>4. inv[i].status = "NONE" /\ inv[i].number = 0
    BY <2>1 DEF FiscalInv, ReadsHold, RowsNew, NumbersWithoutGaps
  <2> QED BY <2>1, <2>2, <2>3, <2>4, EntryDraft
<1> QED BY <1>1, <1>2

\* UpdateInvoice gives a draft another total.
LEMMA UpdateIsDraft ==
  ASSUME FiscalInv, NEW i \in Invoice, NEW total \in Totals, UpdateInvoice(i, total)
  PROVE  Ledger!Draft(i)
<1>1. /\ inv[i].status = "DRAFT" /\ inv' = [inv EXCEPT ![i] = [inv[i] EXCEPT !.total = total]]
      /\ UNCHANGED <<next, pay>>
  BY DEF UpdateInvoice, Put
<1>2. inv[i] \in InvoiceRecord
  BY DEF FiscalInv, TypeOK
<1>3. inv'[i].status = "DRAFT" /\ inv'[i].total = total /\ inv'[i].number = inv[i].number
      /\ \A j \in Invoice \ {i} : inv'[j] = inv[j]
  BY <1>1, <1>2 DEF FiscalInv, TypeOK, InvoiceRecord
<1> QED BY <1>1, <1>3, EntryDraft

\* IssueInvoice enters the invoice at the end of the book: the numbers that were
\* given out stay where they are, and the next one is its own.
LEMMA IssueIsEntry ==
  ASSUME FiscalInv, FiscalInv', NEW t \in Txn, CommitIssue(t)
  PROVE  UNCHANGED Ledger!vars \/ \E i \in Invoice : Ledger!Issue(i)
<1>1. CASE Rollback(t)
  BY <1>1, NoEntry DEF Rollback, money
<1>2. CASE ~ Rollback(t)
  <2>1. PICK i \in Invoice : tx[t].invoice = i /\ inv[i].status = "DRAFT" /\ tx[t].op = "issue"
    BY DEF CommitIssue, FiscalInv, Locals, ReadsHold, MoneyRead
  <2>2. /\ inv' = [inv EXCEPT ![i] = [inv[i] EXCEPT !.status = "ISSUED", !.number = next,
                    !.fiscal = IF settings.profile THEN "READY_FOR_DTE" ELSE "NOT_READY"]]
        /\ next' = next + 1 /\ pay' = pay
    BY <1>2, <2>1 DEF CommitIssue, Put
  <2>3. inv[i] \in InvoiceRecord /\ next \in Nat /\ next # 0
    BY DEF FiscalInv, TypeOK
  <2>4. inv'[i].status = "ISSUED" /\ inv'[i].number = next /\ inv'[i].total = inv[i].total
        /\ \A j \in Invoice \ {i} : inv'[j] = inv[j]
    BY <2>2, <2>3 DEF FiscalInv, TypeOK, InvoiceRecord
  <2>5. Phase[i] = "draft" /\ Phase' = [Phase EXCEPT ![i] = "open"]
    BY <2>1, <2>4 DEF Phase
  <2>6. Total' = Total /\ Stands' = Stands /\ Amounts' = Amounts
    BY <2>2, <2>4 DEF Total, Stands, Amounts
  <2>7. inv[i].number = 0 /\ NumbersWithoutGaps /\ NumbersWithoutGaps'
    BY <2>1 DEF FiscalInv, NumbersWithoutGaps
  <2>8. ASSUME NEW n \in 1 .. (next - 1)
        PROVE  Numbered(n) \in Invoice /\ Numbered(n)' = Numbered(n)
    <3>1. n # 0 /\ n # next
      BY <2>3
    <3>2. PICK j \in Invoice : inv[j].number = n
      BY <2>7 DEF NumbersWithoutGaps
    <3>3. inv'[j].number = n
      BY <2>4, <2>7, <3>1, <3>2
    <3>4. Numbered(n) = j
      BY <2>7, <3>1, <3>2, BearsNumber DEF NumbersWithoutGaps, Numbered
    <3>5. Numbered(n)' = j
      BY <2>7, <3>1, <3>3, BearsNumber DEF NumbersWithoutGaps, Numbered
    <3> QED BY <3>4, <3>5
  <2>9. (CHOOSE j \in Invoice : inv'[j].number = next) = i
    BY <2>3, <2>4, <2>7, BearsNumber DEF NumbersWithoutGaps
  <2>10. Book' = Append(Book, i)
    <3>1. Book \in Seq(Invoice) /\ Len(Book) = next - 1
      BY <2>3, <2>8 DEF Book
    <3>2. /\ Append(Book, i) \in Seq(Invoice) /\ Len(Append(Book, i)) = next
          /\ Append(Book, i)[next] = i
          /\ \A n \in 1 .. (next - 1) : Append(Book, i)[n] = Book[n]
      BY <2>3, <3>1
    <3>3. Book' = [n \in 1 .. next |-> CHOOSE j \in Invoice : inv'[j].number = n]
      BY <2>2, <2>3 DEF Book, Numbered
    <3>4. \A n \in 1 .. (next - 1) : (CHOOSE j \in Invoice : inv'[j].number = n) = Numbered(n)
      BY <2>8 DEF Numbered
    <3>5. ASSUME NEW n \in 1 .. next
          PROVE  Book'[n] \in Invoice /\ Book'[n] = Append(Book, i)[n]
      <4>1. Book'[n] = CHOOSE j \in Invoice : inv'[j].number = n
        BY <3>3
      <4>2. CASE n = next
        BY <2>9, <3>2, <4>1, <4>2
      <4>3. CASE n # next
        <5>1. n \in 1 .. (next - 1)
          BY <2>3, <4>3
        <5>2. Book[n] = Numbered(n) /\ Numbered(n) \in Invoice
          BY <2>8, <5>1 DEF Book
        <5> QED BY <3>2, <3>4, <4>1, <5>1, <5>2
      <4> QED BY <4>2, <4>3
    <3>6. Book' \in Seq(Invoice) /\ Len(Book') = next
      <4>1. Book' = [n \in 1 .. next |-> Book'[n]]
        BY <3>3
      <4>2. Book' \in [1 .. next -> Invoice]
        BY <3>5, <4>1
      <4> QED BY <2>3, <4>2
    <3> QED BY <2>3, <3>2, <3>5, <3>6, SeqEqual
  <2> QED BY <2>5, <2>6, <2>10 DEF Ledger!Issue, Ledger!receipts
<1> QED BY <1>1, <1>2

\* VoidInvoice cancels an invoice for which nothing was received.
LEMMA VoidIsCancel ==
  ASSUME FiscalInv, NEW t \in Txn, CommitVoid(t)
  PROVE  UNCHANGED Ledger!vars \/ \E i \in Invoice : Ledger!Cancel(i)
<1>1. CASE Rollback(t)
  BY <1>1, NoEntry DEF Rollback, money
<1>2. CASE ~ Rollback(t)
  <2>1. PICK i \in Invoice : tx[t].invoice = i
    BY DEF CommitVoid, FiscalInv, Locals
  <2>2. /\ inv[i].status \in {"DRAFT", "ISSUED"} /\ inv[i].paid = 0
        /\ inv' = [inv EXCEPT ![i] = [inv[i] EXCEPT !.status = "VOID", !.fiscal = "VOIDED"]]
        /\ UNCHANGED <<next, pay>>
    BY <1>2, <2>1 DEF CommitVoid, Put
  <2>3. inv[i] \in InvoiceRecord
    BY DEF FiscalInv, TypeOK
  <2>4. inv'[i].status = "VOID" /\ inv'[i].total = inv[i].total /\ inv'[i].number = inv[i].number
        /\ \A j \in Invoice \ {i} : inv'[j] = inv[j]
    BY <2>2, <2>3 DEF FiscalInv, TypeOK, InvoiceRecord
  <2>5. Phase[i] \in {"draft", "open"} /\ Phase' = [Phase EXCEPT ![i] = "cancelled"]
    BY <2>2, <2>4 DEF Phase
  <2>6. Total' = Total /\ Stands' = Stands /\ Amounts' = Amounts
    BY <2>2, <2>4 DEF Total, Stands, Amounts
  <2>7. Book' = Book
    <3>1. \A j \in Invoice : inv'[j].number = inv[j].number
      BY <2>4
    <3>2. ASSUME NEW n PROVE Numbered(n)' = Numbered(n)
      BY <3>1 DEF Numbered
    <3> QED BY <2>2, <3>2 DEF Book
  <2>8. Ledger!Received(i) = 0
    BY <2>2, BookReceived DEF FiscalInv, PaidIsSumOfPayments
  <2> QED BY <2>5, <2>6, <2>7, <2>8 DEF Ledger!Cancel, Ledger!receipts
<1> QED BY <1>1, <1>2

\* A payment that settles some invoices, or takes its money back, is an entry of
\* its own: no invoice changes its phase, its total or its number.
LEMMA SettledStands ==
  ASSUME FiscalInv, NEW paid, NEW alloc, UNCHANGED next,
         \A i \in Invoice : alloc[i] # 0 =>
           paid[i] \in Nat /\ inv[i].status \in {"ISSUED", "PARTIALLY_PAID", "PAID"},
         inv' = [i \in Invoice |-> IF alloc[i] = 0 THEN inv[i] ELSE Settle(inv[i], paid[i])]
  PROVE  Phase' = Phase /\ Total' = Total /\ Book' = Book
<1>1. ASSUME NEW i \in Invoice
      PROVE  /\ inv'[i].total = inv[i].total /\ inv'[i].number = inv[i].number
             /\ inv'[i].status = inv[i].status
                \/ {inv'[i].status, inv[i].status} \subseteq {"ISSUED", "PARTIALLY_PAID", "PAID"}
  <2>1. inv[i] \in InvoiceRecord
    BY DEF FiscalInv, TypeOK
  <2>2. CASE alloc[i] = 0
    BY <2>2
  <2>3. CASE alloc[i] # 0
    BY <2>1, <2>3, SettleFields
  <2> QED BY <2>2, <2>3
<1>2. Phase' = Phase
  BY <1>1 DEF Phase
<1>3. Total' = Total
  BY <1>1 DEF Total
<1>4. ASSUME NEW n PROVE Numbered(n)' = Numbered(n)
  BY <1>1 DEF Numbered
<1> QED BY <1>2, <1>3, <1>4 DEF Book

\* CreatePayment enters a receipt of no more than is due.
LEMMA PaymentIsReceipt ==
  ASSUME FiscalInv, NEW t \in Txn, CommitPayment(t)
  PROVE  \E p \in Payment : Ledger!Receive(p)
<1>1. PICK p \in Payment : tx[t].payment = p /\ tx[t].op = "pay" /\ tx[t].pc = "allocations"
  BY DEF CommitPayment, FiscalInv, Locals, Stages
<1>2. PICK alloc \in [Invoice -> Nat] : tx[t].alloc = alloc
  BY DEF FiscalInv, TypeOK, Request
<1>3. pay[p].status = "NONE"
  BY <1>1 DEF FiscalInv, ReadsHold, RowsNew
<1>4. ASSUME NEW i \in Invoice, alloc[i] # 0
      PROVE  /\ inv[i].status \in {"ISSUED", "PARTIALLY_PAID"} /\ inv[i].total \in Nat
             /\ inv[i].paid \in Nat /\ alloc[i] + inv[i].paid <= inv[i].total
  <2>1. lock[InvoiceRow(i)] = t
    BY <1>2, <1>4 DEF CommitPayment, Unallocated
  <2>2. Allocatable(t, i)
    BY <1>1, <2>1 DEF FiscalInv, ReadsHold, MoneyRead
  <2> QED BY <1>1, <1>2, <2>2, InvoiceFields DEF Allocatable, FiscalInv
<1> DEFINE paid == [i \in Invoice |-> inv[i].paid + alloc[i]]
<1>5. Phase' = Phase /\ Total' = Total /\ Book' = Book
  <2>1. \A i \in Invoice : alloc[i] # 0 =>
          paid[i] \in Nat /\ inv[i].status \in {"ISSUED", "PARTIALLY_PAID", "PAID"}
    BY <1>4
  <2>2. inv' = [i \in Invoice |-> IF alloc[i] = 0 THEN inv[i] ELSE Settle(inv[i], paid[i])]
    BY <1>2 DEF CommitPayment
  <2>3. next' = next
    BY DEF CommitPayment
  <2> HIDE DEF paid
  <2> QED BY <2>1, <2>2, <2>3, SettledStands
<1>6. /\ Stands[p] = "never" /\ Stands' = [Stands EXCEPT ![p] = "yes"]
      /\ Amounts' = [Amounts EXCEPT ![p] = alloc]
  <2>1. pay' = [pay EXCEPT ![p] = [status |-> "CONFIRMED", alloc |-> alloc]]
    BY <1>1, <1>2 DEF CommitPayment
  <2>2. pay'[p].status = "CONFIRMED" /\ pay'[p].alloc = alloc /\ \A q \in Payment \ {p} : pay'[q] = pay[q]
    BY <2>1 DEF FiscalInv, TypeOK
  <2> QED BY <1>3, <2>2 DEF Stands, Amounts
<1>7. alloc \in [Invoice -> 0 .. Max(Totals \cup {0})]
  <2>1. \A i \in Invoice : alloc[i] <= Max(Totals \cup {0})
    <3> TAKE i \in Invoice
    <3>1. /\ Totals \cup {0} \in SUBSET Nat /\ IsFiniteSet(Totals \cup {0}) /\ Totals \cup {0} # {}
      BY BillingAssumption, FS_AddElement
    <3>2. Max(Totals \cup {0}) \in Nat /\ \A n \in Totals \cup {0} : n <= Max(Totals \cup {0})
      BY <3>1, GreatestElement
    <3>3. inv[i].total \in Totals \cup {0}
      BY DEF FiscalInv, TypeOK, InvoiceRecord
    <3>4. alloc[i] = 0 \/ alloc[i] <= inv[i].total
      BY <1>4
    <3>5. alloc[i] \in Nat /\ inv[i].total \in Nat
      BY InvoiceFields DEF FiscalInv
    <3> QED BY <3>2, <3>3, <3>4, <3>5
  <2> QED BY <2>1, GreatestTotal
<1>8. \A i \in Invoice : alloc[i] > 0 => Phase[i] = "open" /\ alloc[i] <= Ledger!Due(i)
  <2>1. ASSUME NEW i \in Invoice, alloc[i] > 0
        PROVE Phase[i] = "open" /\ alloc[i] <= Total[i] - inv[i].paid
    BY <1>4, <2>1 DEF Phase, Total
  <2>2. \A i \in Invoice : Ledger!Received(i) = inv[i].paid
    BY BookReceived DEF FiscalInv, PaidIsSumOfPayments
  <2> QED BY <2>1, <2>2 DEF Ledger!Due
<1>9. Ledger!Max(Totals \cup {0}) = Max(Totals \cup {0})
  BY DEF Ledger!Max, Max
<1> QED BY <1>5, <1>6, <1>7, <1>8, <1>9 DEF Ledger!Receive

\* VoidPayment reverses a receipt.
LEMMA ReversalIsReverse ==
  ASSUME FiscalInv, NEW t \in Txn, CommitReverse(t)
  PROVE  \E p \in Payment : Ledger!Reverse(p)
<1>1. PICK p \in Payment : tx[t].payment = p /\ tx[t].op = "reverse" /\ tx[t].pc = "allocations"
  BY DEF CommitReverse, FiscalInv, Locals, Stages
<1>2. PICK alloc \in [Invoice -> Nat] : tx[t].alloc = alloc
  BY DEF FiscalInv, TypeOK, Request
<1>3. pay[p] = [status |-> "CONFIRMED", alloc |-> alloc]
  BY <1>1, <1>2 DEF FiscalInv, ReadsHold, MoneyRead
<1>4. ASSUME NEW i \in Invoice, alloc[i] # 0
      PROVE  /\ inv[i].status \in {"PARTIALLY_PAID", "PAID"}
             /\ inv[i].paid \in Nat /\ inv[i].paid - alloc[i] \in Nat
  <2>1. lock[InvoiceRow(i)] = t
    BY <1>2, <1>4 DEF CommitReverse, Unallocated
  <2>2. Allocatable(t, i)
    BY <1>1, <2>1 DEF FiscalInv, ReadsHold, MoneyRead
  <2>3. inv[i].paid >= alloc[i] /\ inv[i].paid \in Nat
    BY <1>1, <1>2, <2>2, InvoiceFields DEF Allocatable, FiscalInv
  <2>4. inv[i].paid > 0
    BY <1>2, <1>4, <2>3
  <2> QED BY <2>3, <2>4 DEF FiscalInv, PaidIsSumOfPayments
<1> DEFINE paid == [i \in Invoice |-> inv[i].paid - alloc[i]]
<1>5. Phase' = Phase /\ Total' = Total /\ Book' = Book
  <2>1. \A i \in Invoice : alloc[i] # 0 =>
          paid[i] \in Nat /\ inv[i].status \in {"ISSUED", "PARTIALLY_PAID", "PAID"}
    BY <1>4
  <2>2. inv' = [i \in Invoice |-> IF alloc[i] = 0 THEN inv[i] ELSE Settle(inv[i], paid[i])]
    BY <1>2 DEF CommitReverse
  <2>3. next' = next
    BY DEF CommitReverse
  <2> HIDE DEF paid
  <2> QED BY <2>1, <2>2, <2>3, SettledStands
<1>6. Stands[p] = "yes" /\ Stands' = [Stands EXCEPT ![p] = "reversed"] /\ Amounts' = Amounts
  <2>1. pay' = [pay EXCEPT ![p].status = "VOIDED"]
    BY <1>1 DEF CommitReverse
  <2>2. pay'[p].status = "VOIDED" /\ pay'[p].alloc = alloc /\ \A q \in Payment \ {p} : pay'[q] = pay[q]
    BY <1>3, <2>1 DEF FiscalInv, TypeOK
  <2>3. Stands[p] = "yes" /\ Stands' = [Stands EXCEPT ![p] = "reversed"]
    <3>1. pay[p].status = "CONFIRMED" /\ \A q \in Payment \ {p} : pay'[q].status = pay[q].status
      BY <1>3, <2>2
    <3>2. Stands'[p] = "reversed" /\ \A q \in Payment \ {p} : Stands'[q] = Stands[q]
      BY <2>2, <3>1 DEF Stands
    <3> QED BY <3>1, <3>2 DEF Stands
  <2>4. \A q \in Payment : pay'[q].alloc = pay[q].alloc
    BY <1>3, <2>2
  <2>5. Amounts' = Amounts
    BY <2>4 DEF Amounts
  <2> QED BY <2>3, <2>5
<1> QED BY <1>5, <1>6 DEF Ledger!Reverse

\* Nothing else is an entry: a request that begins or waits writes no money, and
\* a document changes nothing but the fiscal status of its invoice.
LEMMA ElsewhereNoEntry ==
  ASSUME FiscalInv, NEW t \in Txn,
         \/ BeginBilling(t) \/ BeginDte(t) \/ LockAllocation(t) \/ DteStep(t)
         \/ ProviderStep(t) \/ GiveUp(t) \/ Victim(t)
  PROVE  UNCHANGED Ledger!vars
<1>1. CASE UNCHANGED money
  BY <1>1, NoEntry DEF money
<1>2. ASSUME NEW f, NEW row, CommitBoth(t, f, row) PROVE UNCHANGED Ledger!vars
  <2>1. \A j \in Invoice : /\ inv'[j].status = inv[j].status /\ inv'[j].total = inv[j].total
                           /\ inv'[j].number = inv[j].number
    BY <1>2 DEF CommitBoth, FiscalInv, TypeOK, InvoiceRecord
  <2> QED BY <1>2, <2>1, NoEntry DEF CommitBoth
<1>3. CASE BeginBilling(t)
  BY <1>1, <1>3 DEF BeginBilling, BeginCreate, BeginIssue, BeginVoid, BeginPayment, BeginReverse
<1>4. CASE BeginDte(t)
  BY <1>1, <1>4 DEF BeginDte, BeginPrepare, BeginSubmit, BeginCancel, BeginInvalidation
<1>5. CASE LockAllocation(t) \/ Victim(t)
  BY <1>1, <1>5 DEF LockAllocation, Rollback, Victim
<1>6. CASE ProviderStep(t) \/ GiveUp(t)
  BY <1>1, <1>6 DEF ProviderStep, Answered, Unanswered, GiveUp
<1>7. CASE DteStep(t)
  <2>1. CASE LockInvoiceToPrepare(t) \/ LockStation(t) \/ InsertDocument(t) \/ LockToApply(t)
    BY <1>1, <2>1 DEF LockInvoiceToPrepare, LockStation, InsertDocument, LockToApply, Rollback
  <2>2. CASE CommitSubmitting(t) \/ CommitCancel(t) \/ ApplySubmissionResult(t)
    BY <1>2, <2>2 DEF CommitSubmitting, CommitCancel, ApplySubmissionResult
  <2>3. CASE ApplyInvalidationResult(t)
    BY <1>1, <1>2, <2>3 DEF ApplyInvalidationResult
  <2> QED BY <1>7, <2>1, <2>2, <2>3 DEF DteStep
<1> QED BY <1>3, <1>4, <1>5, <1>6, <1>7

\* Every step of billing is an entry of the book, or none.
LEMMA BookStep == FiscalInv /\ FiscalInv' /\ [Next]_vars => [Ledger!Next]_(Ledger!vars)
<1> SUFFICES ASSUME FiscalInv, FiscalInv', [Next]_vars PROVE Ledger!Next \/ UNCHANGED Ledger!vars
  OBVIOUS
<1>1. CASE UpdateSettings \/ UpdateStation \/ UNCHANGED vars
  BY <1>1, NoEntry DEF UpdateSettings, UpdateStation, money, vars
<1>2. ASSUME NEW q \in Quote, Convert(q) PROVE UNCHANGED Ledger!vars
  BY <1>2, NoEntry DEF Convert
<1>3. ASSUME NEW i \in Invoice, NEW total \in Totals, UpdateInvoice(i, total) PROVE Ledger!Next
  BY <1>3, UpdateIsDraft DEF Ledger!Next
<1>4. ASSUME NEW t \in Txn, CommitCreate(t) \/ CommitIssue(t) \/ CommitVoid(t)
      PROVE  Ledger!Next \/ UNCHANGED Ledger!vars
  BY <1>4, CreateIsDraft, IssueIsEntry, VoidIsCancel DEF Ledger!Next
<1>5. ASSUME NEW t \in Txn, CommitPayment(t) \/ CommitReverse(t) PROVE Ledger!Next
  BY <1>5, PaymentIsReceipt, ReversalIsReverse DEF Ledger!Next
<1> QED
  BY <1>1, <1>2, <1>3, <1>4, <1>5, ElsewhereNoEntry DEF Next, BillingNext, BillingStep, Step

\* Billing keeps an account book: documents numbered in the order of issue without
\* gaps, receipts of no more than is due, and what is due never written down wrong.
THEOREM BillingImplementsReceivables == Spec => ImplementsReceivables
BY BookInit, BookStep, FiscalInductive, PTL DEF Spec, ImplementsReceivables, Ledger!Spec
=============================================================================
