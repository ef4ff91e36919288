----------------------------- MODULE BillingState -----------------------------
(***************************************************************************)
(* Tables, row locks and transactions shared by the billing core (Billing) *)
(* and the electronic fiscal documents of its invoices (Dte).              *)
(*                                                                         *)
(* A row is named by its table and its identity.  Every lock is a row lock *)
(* of mode FOR UPDATE.  Money is in cents.                                 *)
(***************************************************************************)
EXTENDS Naturals, FiniteSets, FiniteSetsExt

CONSTANTS
  Invoice,     \* identities of invoices; they compare as the database compares them
  Payment,     \* identities of payments
  Document,    \* identities (generation codes) of fiscal documents
  Quote,       \* accepted quotes; a quote also names the reservation made of it
  Txn,         \* database connections
  Ranks,       \* how the ids of a request sort as strings: as it spells them
  Replies,     \* answers the fiscal provider may give
  None,        \* absent value (SQL NULL)
  Totals,      \* totals an invoice may have
  Allocations, \* what a payment may ask to give to each invoice
  Profiles,    \* [enabled, profile]: billing_settings a tenant may choose
  Stations,    \* [enabled, point]: dte_settings a tenant may choose
  MaxAttempts  \* dte_settings.max_attempts

\* What the provider has on file for a document, and what a request makes of it.
Filed == {"no", "accepted", "refused", "invalidated"}
Verdict == Filed \cup {"retry"}

\* An answer below 500 that is not 429: its status, what the status and message
\* it carries say ("none": neither is there, or the body is not JSON) and whether
\* it carries a receipt seal.
Reply == [http : {"2xx", "4xx"}, seal : BOOLEAN,
          word : {"PROCESADO", "RECHAZADO", "ERROR", "INVALIDADO", "none"}]

\* The order of the database.
Stored == [i \in Invoice |-> i]

ASSUME BillingAssumption ==
  /\ Invoice \subseteq Nat
  /\ IsFiniteSet(Invoice) /\ IsFiniteSet(Payment) /\ IsFiniteSet(Totals)
  /\ None \notin Invoice \cup Payment \cup Document \cup Quote \cup Txn
  /\ None \notin Verdict
  /\ Totals \subseteq Nat
  /\ Allocations \subseteq [Invoice -> Nat]
  /\ \A alloc \in Allocations : \E i \in Invoice : alloc[i] > 0
  /\ Ranks # {} /\ Ranks \subseteq [Invoice -> Nat]
  /\ \A r \in Ranks : \A i, j \in Invoice : i # j => r[i] # r[j]
  /\ Replies \subseteq Reply
  /\ Profiles # {} /\ \A s \in Profiles : s.enabled \in BOOLEAN /\ s.profile \in BOOLEAN
  /\ Stations # {} /\ \A s \in Stations : s.enabled \in BOOLEAN
  /\ MaxAttempts \in Nat \ {0}

VARIABLES
  settings,   \* billing_settings: the tenant's choice
  next,       \* billing_settings.next_invoice_number
  reserved,   \* quotes converted to a reservation
  inv,        \* invoices
  pay,        \* payments with their allocations
  station,    \* dte_settings: the tenant's choice
  control,    \* dte_settings.next_control_number
  doc,        \* dte_documents
  filed,      \* what the provider has on file for each document
  missed,     \* documents about which an answer of the provider never arrived, or
              \* was taken for another
  lock,       \* the transaction that holds each row
  tx          \* the request each connection is running

money == <<settings, next, reserved, inv, pay>>
fiscal == <<station, control, doc, filed, missed>>
vars == <<money, fiscal, lock, tx>>

Active == {"READY_TO_SIGN", "SUBMITTING", "RETRY_REQUIRED", "ACCEPTED",
           "INVALIDATION_PENDING"}
DocumentStatus == Active \cup {"NONE", "REJECTED", "INVALIDATED", "CANCELLED"}
InvoiceStatus == {"NONE", "DRAFT", "ISSUED", "PARTIALLY_PAID", "PAID", "VOID"}
FiscalStatus == {"NOT_READY", "READY_FOR_DTE", "SUBMITTED", "ACCEPTED", "REJECTED", "VOIDED"}

\* refs: the quote and the reservation (by its quote) an invoice charges.
Refs == [quote : Quote \cup {None}, reservation : Quote \cup {None}]
Manual == [quote |-> None, reservation |-> None]

NoInvoice == [status |-> "NONE", refs |-> Manual, total |-> 0, paid |-> 0,
              number |-> 0, fiscal |-> "NOT_READY"]
NoAllocation == [i \in Invoice |-> 0]
NoPayment == [status |-> "NONE", alloc |-> NoAllocation]
NoDocument == [status |-> "NONE", invoice |-> None, attempts |-> 0, control |-> 0]

InvoiceRow(i) == <<"invoice", i>>
PaymentRow(p) == <<"payment", p>>
DocumentRow(d) == <<"document", d>>
StationRow == <<"dte_settings", None>>
Row == {InvoiceRow(i) : i \in Invoice} \cup {PaymentRow(p) : p \in Payment}
       \cup {DocumentRow(d) : d \in Document} \cup {StationRow}

\* pc names the statement to execute next; the other fields are Go locals.
Idle == [op |-> "idle", pc |-> "idle", invoice |-> None, refs |-> Manual, total |-> 0,
         seen |-> FALSE, payment |-> None, alloc |-> NoAllocation, rank |-> Stored,
         doc |-> None, config |-> None, answer |-> None]

Init ==
  /\ settings \in Profiles
  /\ next = 1
  /\ reserved = {}
  /\ inv = [i \in Invoice |-> NoInvoice]
  /\ pay = [p \in Payment |-> NoPayment]
  /\ station \in Stations
  /\ control = 1
  /\ doc = [d \in Document |-> NoDocument]
  /\ filed = [d \in Document |-> "no"]
  /\ missed = {}
  /\ lock = [r \in Row |-> None]
  /\ tx = [t \in Txn |-> Idle]

-----------------------------------------------------------------------------
(* Transactions *)

Free(row) == lock[row] = None

\* Mutant of Unlocked: a return path leaves the transaction open.
UnlockedNever(t) == lock

Unlocked(t) == [r \in Row |-> IF lock[r] = t THEN None ELSE lock[r]]

\* COMMIT or ROLLBACK that ends the request.
Finish(t) == lock' = Unlocked(t) /\ tx' = [tx EXCEPT ![t] = Idle]

Rollback(t) == Finish(t) /\ UNCHANGED <<money, fiscal>>

\* A request begins with the locals r; the rows it locks at once are free.
Begin(t, r, rows) ==
  /\ tx[t] = Idle
  /\ \A row \in rows : Free(row)
  /\ lock' = [row \in Row |-> IF row \in rows THEN t ELSE lock[row]]
  /\ tx' = [tx EXCEPT ![t] = r]

\* The invoices of a payment that t has not locked yet.
Unallocated(t) == {i \in Invoice : tx[t].alloc[i] > 0 /\ lock[InvoiceRow(i)] # t}

\* Mutant of NextInvoice: allocations are locked in the order of the request.
NextInvoiceAsGiven(t) == IF tx[t].op = "pay" THEN Max(Unallocated(t)) ELSE Min(Unallocated(t))

\* CreatePayment sorts the allocations by the ids as the request spells them (a
\* UUID may be in upper case), VoidPayment reads them in the order of the database.
NextInvoice(t) ==
  CHOOSE i \in Unallocated(t) : \A j \in Unallocated(t) : tx[t].rank[i] <= tx[t].rank[j]

Occupied(i) == {d \in Document : doc[d].invoice = i /\ doc[d].status \in Active}

\* The rows the next statement of t has to lock or to wait for.  An INSERT
\* waits for the transaction that is updating a row with the same unique key.
Wanted(t) ==
  CASE tx[t].pc = "invoice" -> {InvoiceRow(tx[t].invoice)}
    [] tx[t].pc = "allocations" /\ Unallocated(t) # {} -> {InvoiceRow(NextInvoice(t))}
    [] tx[t].pc = "document" -> {DocumentRow(tx[t].doc)}
    [] tx[t].pc = "settings" -> {StationRow}
    [] tx[t].pc = "insert" -> {DocumentRow(d) : d \in Occupied(tx[t].invoice)}
    [] OTHER -> {}

WaitsFor(t, u) == t # u /\ \E row \in Wanted(t) : lock[row] = u

\* PostgreSQL's deadlock detector: one of two that wait for each other fails.
Victim(t) == (\E u \in Txn : WaitsFor(t, u) /\ WaitsFor(u, t)) /\ Rollback(t)
=============================================================================
