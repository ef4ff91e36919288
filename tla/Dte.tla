--------------------------------- MODULE Dte ---------------------------------
(***************************************************************************)
(* Electronic fiscal documents (DTE) of issued invoices: preparation under *)
(* the next control number, submission to the provider, retry, withdrawal  *)
(* and invalidation.                                                       *)
(*                                                                         *)
(* A request to the provider happens between two transactions.  The        *)
(* provider is environment: it may accept or refuse, say so in words that  *)
(* the code takes for something else, be out of reach, or act on a request *)
(* whose answer does not come back.                                        *)
(***************************************************************************)
EXTENDS BillingState

\* One UPDATE: it waits for a preparation that holds the row.
UpdateStation ==
  /\ Free(StationRow)
  /\ station' \in Stations
  /\ UNCHANGED <<money, control, doc, filed, missed, lock, tx>>

-----------------------------------------------------------------------------
(* Preparation *)

\* normalizeDocumentType, validateSnapshot: what must hold of the invoice.
Preparable(i) ==
  /\ inv[i].status \notin {"NONE", "DRAFT", "VOID"}
  /\ inv[i].fiscal \in {"READY_FOR_DTE", "REJECTED"}

UnusedDocument(d) == doc[d].status = "NONE" /\ \A t \in Txn : tx[t].op = "prepare" => tx[t].doc # d

\* Settings and invoice are read, the document type chosen and validated.
BeginPrepare(t, i, d) ==
  /\ station.enabled
  /\ Preparable(i)
  /\ UnusedDocument(d)
  /\ Begin(t, [Idle EXCEPT !.op = "prepare", !.pc = "invoice", !.invoice = i, !.doc = d,
                           !.config = station], {})
  /\ UNCHANGED <<money, fiscal>>

LockInvoiceToPrepare(t) ==
  LET i == tx[t].invoice IN
  /\ tx[t].op = "prepare" /\ tx[t].pc = "invoice" /\ Free(InvoiceRow(i))
  /\ IF Preparable(i)
     THEN /\ lock' = [lock EXCEPT ![InvoiceRow(i)] = t]
          /\ tx' = [tx EXCEPT ![t].pc = "settings"]
          /\ UNCHANGED <<money, fiscal>>
     ELSE Rollback(t)

\* Enabled and, as far as a document depends on them, the settings read before.
LockStation(t) ==
  /\ tx[t].op = "prepare" /\ tx[t].pc = "settings" /\ Free(StationRow)
  /\ IF station.enabled /\ station.point = tx[t].config.point
     THEN /\ lock' = [lock EXCEPT ![StationRow] = t]
          /\ tx' = [tx EXCEPT ![t].pc = "insert"]
          /\ UNCHANGED <<money, fiscal>>
     ELSE Rollback(t)

\* Mutant of InsertDocument: the number of a document is not used up.
InsertDocumentReusing(t) ==
  /\ tx[t].op = "prepare" /\ tx[t].pc = "insert"
  /\ \A d \in Occupied(tx[t].invoice) : Free(DocumentRow(d))
  /\ IF Occupied(tx[t].invoice) # {} THEN Rollback(t)
     ELSE /\ doc' = [doc EXCEPT ![tx[t].doc] =
               [status |-> "READY_TO_SIGN", invoice |-> tx[t].invoice, attempts |-> 0,
                control |-> control]]
          /\ Finish(t)
          /\ UNCHANGED <<money, station, control, filed, missed>>

\* INSERT waits while an active document of the invoice is being updated, and
\* fails if one is active afterwards (dte_documents_one_active_per_invoice).
InsertDocument(t) ==
  /\ tx[t].op = "prepare" /\ tx[t].pc = "insert"
  /\ \A d \in Occupied(tx[t].invoice) : Free(DocumentRow(d))
  /\ IF Occupied(tx[t].invoice) # {} THEN Rollback(t)
     ELSE /\ doc' = [doc EXCEPT ![tx[t].doc] =
               [status |-> "READY_TO_SIGN", invoice |-> tx[t].invoice, attempts |-> 0,
                control |-> control]]
          /\ control' = control + 1
          /\ Finish(t)
          /\ UNCHANGED <<money, station, filed, missed>>

-----------------------------------------------------------------------------
(* Two rows: the document is locked and updated, then the invoice. *)

Mark(d, status) == doc' = [doc EXCEPT ![d].status = status]

\* The update of the document of d becomes visible with that of its invoice.
LockDocument(t, d, r) ==
  Begin(t, [r EXCEPT !.pc = "invoice", !.doc = d, !.invoice = doc[d].invoice],
        {DocumentRow(d)})

\* The second UPDATE and COMMIT: fiscal status of the invoice, row of the document.
CommitBoth(t, fiscalStatus, row) ==
  LET i == tx[t].invoice IN
  /\ tx[t].pc = "invoice" /\ Free(InvoiceRow(i))
  /\ inv' = [inv EXCEPT ![i].fiscal = fiscalStatus]
  /\ doc' = [doc EXCEPT ![tx[t].doc] = row]
  /\ lock' = Unlocked(t)
  /\ UNCHANGED <<settings, next, reserved, pay, station, control, filed>>

Sendable(d) == doc[d].status \in {"READY_TO_SIGN", "RETRY_REQUIRED"}

\* MarkSubmitting up to the update of the document.
BeginSubmit(t, d) ==
  /\ station.enabled
  /\ Sendable(d) /\ doc[d].attempts < MaxAttempts
  /\ LockDocument(t, d, [Idle EXCEPT !.op = "submit"])
  /\ UNCHANGED <<money, fiscal>>

CommitSubmitting(t) ==
  /\ tx[t].op = "submit"
  /\ CommitBoth(t, "SUBMITTED", [doc[tx[t].doc] EXCEPT !.status = "SUBMITTING",
                                                       !.attempts = @ + 1])
  /\ tx' = [tx EXCEPT ![t].pc = "send"]
  /\ UNCHANGED missed

\* Mutant of BeginCancel: a document on its way can be withdrawn.
BeginCancelSubmitting(t, d) ==
  /\ doc[d].status \in {"READY_TO_SIGN", "RETRY_REQUIRED", "SUBMITTING"}
  /\ LockDocument(t, d, [Idle EXCEPT !.op = "cancel"])
  /\ UNCHANGED <<money, fiscal>>

BeginCancel(t, d) ==
  /\ Sendable(d)
  /\ LockDocument(t, d, [Idle EXCEPT !.op = "cancel"])
  /\ UNCHANGED <<money, fiscal>>

CommitCancel(t) ==
  /\ tx[t].op = "cancel"
  /\ CommitBoth(t, "READY_FOR_DTE", [doc[tx[t].doc] EXCEPT !.status = "CANCELLED"])
  /\ tx' = [tx EXCEPT ![t] = Idle]
  /\ UNCHANGED missed

\* BeginInvalidation: one row, one transaction; the request goes on.
BeginInvalidation(t, d) ==
  /\ tx[t] = Idle /\ Free(DocumentRow(d))
  /\ doc[d].status = "ACCEPTED"
  /\ Mark(d, "INVALIDATION_PENDING")
  /\ tx' = [tx EXCEPT ![t] = [Idle EXCEPT !.op = "invalidate", !.pc = "send", !.doc = d,
                                          !.invoice = doc[d].invoice]]
  /\ UNCHANGED <<money, station, control, filed, missed, lock>>

-----------------------------------------------------------------------------
(* The provider *)

\* What the provider may put on file for a document it is sent.
FiledBySubmit(d) ==
  IF filed[d] \in {"accepted", "invalidated"} THEN {filed[d]} ELSE {"accepted", "refused"}

FiledByInvalidation(d) == {filed[d], "invalidated"}

\* Service.Submit: the last attempt allowed leaves nothing to retry.
Reported(d, verdict) ==
  IF verdict = "retry" /\ doc[d].attempts >= MaxAttempts THEN "refused" ELSE verdict

LooksRejected(reply) == reply.word \in {"RECHAZADO", "ERROR", "INVALIDADO"}

\* Mutant of Transmit: an answer without a seal is taken for an acceptance.
TransmitUnsealed(reply) ==
  IF reply.http = "2xx" /\ ~LooksRejected(reply) THEN "accepted" ELSE "refused"

\* transmit: accepted is what comes with a seal and does not look refused.
Transmit(reply) ==
  IF reply.http = "2xx" /\ ~LooksRejected(reply) /\ reply.seal THEN "accepted" ELSE "refused"

\* Invalidate: no seal is asked for.
Invalidate(reply) ==
  IF reply.http = "2xx" /\ ~LooksRejected(reply) THEN "invalidated" ELSE "refused"

\* What a request asks the provider for.
Sought(op) == IF op = "submit" THEN "accepted" ELSE "invalidated"

\* The provider acts and answers, in whatever words; a receipt seal it gives only
\* for what it has accepted.  The answer is read, rightly or not.
Answered(t) ==
  LET d == tx[t].doc
      op == tx[t].op IN
  /\ tx[t].pc = "send"
  /\ \E reply \in Replies :
       \E f \in IF op = "submit" THEN FiledBySubmit(d) ELSE FiledByInvalidation(d) :
         LET verdict == IF op = "submit" THEN Transmit(reply) ELSE Invalidate(reply) IN
         /\ reply.seal => f \in {"accepted", "invalidated"}
         /\ filed' = [filed EXCEPT ![d] = f]
         /\ tx' = [tx EXCEPT ![t].pc = "document", ![t].answer = verdict]
         /\ missed' = IF (verdict = Sought(op)) = (f = Sought(op)) THEN missed
                      ELSE missed \cup {d}
  /\ UNCHANGED <<money, station, control, doc, lock>>

\* Out of reach, overloaded (429 or 5xx), or silent after it acted: the caller
\* cannot tell.
Unanswered(t) ==
  LET d == tx[t].doc IN
  /\ tx[t].pc = "send"
  /\ \E f \in {filed[d]} \cup IF tx[t].op = "submit" THEN FiledBySubmit(d)
                                                     ELSE FiledByInvalidation(d) :
       /\ filed' = [filed EXCEPT ![d] = f]
       /\ missed' = IF f = filed[d] THEN missed ELSE missed \cup {d}
  /\ tx' = [tx EXCEPT ![t].pc = "document", ![t].answer = Reported(d, "retry")]
  /\ UNCHANGED <<money, station, control, doc, lock>>

\* The client gives up or the process stops: nobody applies the answer.
GiveUp(t) ==
  /\ tx[t] # Idle
  /\ missed' = IF tx[t].pc \in {"send", "document"} \/ tx[t].answer # None
               THEN missed \cup {tx[t].doc} ELSE missed
  /\ Finish(t)
  /\ UNCHANGED <<money, station, control, doc, filed>>

-----------------------------------------------------------------------------
(* Answers *)

\* The document is locked again; it must be as the request left it.
LockToApply(t) ==
  LET d == tx[t].doc IN
  /\ tx[t].pc = "document" /\ Free(DocumentRow(d))
  /\ IF doc[d].status = (IF tx[t].op = "submit" THEN "SUBMITTING" ELSE "INVALIDATION_PENDING")
     THEN /\ lock' = [lock EXCEPT ![DocumentRow(d)] = t]
          /\ tx' = [tx EXCEPT ![t].pc = "invoice",
                              ![t].op = IF @ = "submit" THEN "applied" ELSE "revoked"]
          /\ UNCHANGED <<money, fiscal>>
     ELSE Rollback(t)

\* Mutant of ApplySubmissionResult: the invoice waits for an answer that came.
ApplyRetryKeepingInvoice(t) ==
  LET answer == tx[t].answer IN
  /\ tx[t].op = "applied"
  /\ CommitBoth(t, CASE answer = "accepted" -> "ACCEPTED"
                     [] answer = "retry" -> "SUBMITTED"
                     [] OTHER -> "REJECTED",
                [doc[tx[t].doc] EXCEPT !.status = CASE answer = "accepted" -> "ACCEPTED"
                                                    [] answer = "retry" -> "RETRY_REQUIRED"
                                                    [] OTHER -> "REJECTED"])
  /\ tx' = [tx EXCEPT ![t] = Idle]
  /\ UNCHANGED missed

\* Mutant of ApplySubmissionResult: a failed attempt is reported, not recorded.
ApplyVerdictsOnly(t) ==
  LET answer == tx[t].answer IN
  /\ tx[t].op = "applied"
  /\ IF answer = "retry" THEN Rollback(t)
     ELSE /\ CommitBoth(t, IF answer = "accepted" THEN "ACCEPTED" ELSE "REJECTED",
                        [doc[tx[t].doc] EXCEPT
                          !.status = IF answer = "accepted" THEN "ACCEPTED" ELSE "REJECTED"])
          /\ tx' = [tx EXCEPT ![t] = Idle]
          /\ UNCHANGED missed

\* The status a verdict gives a submitted document, and its invoice.
ApplySubmissionResult(t) ==
  LET d == tx[t].doc
      answer == tx[t].answer IN
  /\ tx[t].op = "applied"
  /\ CommitBoth(t, CASE answer = "accepted" -> "ACCEPTED"
                     [] answer = "retry" -> "READY_FOR_DTE"
                     [] OTHER -> "REJECTED",
                [doc[d] EXCEPT !.status = CASE answer = "accepted" -> "ACCEPTED"
                                            [] answer = "retry" -> "RETRY_REQUIRED"
                                            [] OTHER -> "REJECTED"])
  /\ tx' = [tx EXCEPT ![t] = Idle]
  /\ UNCHANGED missed

\* A refused invalidation leaves the document accepted and the invoice alone.
ApplyInvalidationResult(t) ==
  LET d == tx[t].doc IN
  /\ tx[t].op = "revoked"
  /\ \/ /\ tx[t].answer = "invalidated"
        /\ CommitBoth(t, "VOIDED", [doc[d] EXCEPT !.status = "INVALIDATED"])
        /\ tx' = [tx EXCEPT ![t] = Idle]
        /\ UNCHANGED missed
     \/ /\ tx[t].answer # "invalidated"
        /\ Mark(d, "ACCEPTED")
        /\ Finish(t)
        /\ UNCHANGED <<money, station, control, filed, missed>>

-----------------------------------------------------------------------------
\* What the database and the code do without further input.
DteStep(t) ==
  \/ LockInvoiceToPrepare(t) \/ LockStation(t) \/ InsertDocument(t)
  \/ CommitSubmitting(t) \/ CommitCancel(t)
  \/ LockToApply(t) \/ ApplySubmissionResult(t) \/ ApplyInvalidationResult(t)

\* A request to the provider is answered or times out.
ProviderStep(t) == Answered(t) \/ Unanswered(t)

BeginDte(t) ==
  \/ \E i \in Invoice, d \in Document : BeginPrepare(t, i, d)
  \/ \E d \in Document : BeginSubmit(t, d) \/ BeginCancel(t, d) \/ BeginInvalidation(t, d)
=============================================================================
