------------------------------ MODULE QuotePortal ------------------------------
(***************************************************************************)
(* Formal quotes and the customer's link to them: staff issue, rotate and  *)
(* revoke the link and decide in the back office; whoever holds the link   *)
(* views, accepts or rejects; time expires it; a trigger of migration 009  *)
(* copies the status of the quote to its portal.                           *)
(*                                                                         *)
(* A transaction that waits for a row between two of its statements takes  *)
(* several steps.  Every lock on a quote row is FOR UPDATE except the one  *)
(* of a staff transition and the FOR KEY SHARE of Revoke's event, which do *)
(* not exclude each other.  Conversion to a reservation is the single      *)
(* grant of BookingLedger: whether there are units is left open.           *)
(***************************************************************************)
EXTENDS Integers

CONSTANTS
  Quote,      \* identities of quotes
  Token,      \* link tokens (their hashes), each drawn at most once
  Txn,        \* database connections running multi-statement transactions
  None,       \* absent value (SQL NULL)
  Settings,   \* [enabled, rejection] a tenant may choose
  Validity,   \* default_validity_days, in units of the clock
  Horizon     \* bound of the clock

ASSUME PortalAssumption ==
  /\ None \notin Quote /\ None \notin Token /\ None \notin Txn
  /\ None \notin {"CUSTOMER", "ADMIN", "SYSTEM"}
  /\ Settings \subseteq [enabled : BOOLEAN, rejection : BOOLEAN]
  /\ Settings # {}
  /\ Validity \in Nat \ {0}
  /\ Horizon \in Nat

VARIABLES
  now,           \* the clock
  settings,      \* quote_portal_settings of the tenant
  quote,         \* quotes.status, "NONE" while the row does not exist
  expires,       \* quotes.expires_at; from the first issue on also the portal's
  converted,     \* quotes with a reservation
  portal,        \* quote_portals: one row per quote
  issued,        \* tokens drawn so far, any of which a customer may hold
  settingsLock, quoteLock, portalLock,   \* transactions holding row locks
  tx             \* the transaction each connection is running

tables == <<settings, quote, expires, converted, portal, issued>>
locks == <<settingsLock, quoteLock, portalLock>>
vars == <<now, tables, locks, tx>>

Decided == {"ACCEPTED", "REJECTED", "CANCELLED", "EXPIRED"}
QuoteStatus == {"NONE", "DRAFT", "SENT"} \cup Decided
PortalStatus == {"NONE", "ACTIVE", "ACCEPTED", "REJECTED", "REVOKED", "EXPIRED"}
Source == {"CUSTOMER", "ADMIN", "SYSTEM"}
Time == 0 .. (Horizon + Validity)

NoPortal == [status |-> "NONE", token |-> None, rejection |-> FALSE, source |-> None]

PortalRow == [status : PortalStatus, token : Token \cup {None},
              rejection : BOOLEAN, source : Source \cup {None}]

Public == {"view", "accept", "reject"}
Staff == {"send", "reissue"}

\* due: the expiry Issue has computed; pc names the row to lock next.
Idle == [op |-> "idle", pc |-> "idle", quote |-> None, token |-> None, due |-> 0]

Transaction ==
  [op : {"idle", "revoke"} \cup Public \cup Staff,
   pc : {"idle", "quote", "portal", "event", "commit"},
   quote : Quote \cup {None}, token : Token \cup {None}, due : Time]

Init ==
  /\ now = 0
  /\ settings \in Settings
  /\ quote = [q \in Quote |-> "NONE"]
  /\ expires = [q \in Quote |-> None]
  /\ converted = {}
  /\ portal = [q \in Quote |-> NoPortal]
  /\ issued = {}
  /\ settingsLock = None
  /\ quoteLock = [q \in Quote |-> None]
  /\ portalLock = [q \in Quote |-> None]
  /\ tx = [t \in Txn |-> Idle]

-----------------------------------------------------------------------------
(* Transactions *)

\* Mutant of ReleasedBy: a return path leaves the transaction open.
ReleasedNever(t, lock) == lock

ReleasedBy(t, lock) == [q \in Quote |-> IF lock[q] = t THEN None ELSE lock[q]]

\* COMMIT or ROLLBACK.
Finish(t) ==
  /\ settingsLock' = IF settingsLock = t THEN None ELSE settingsLock
  /\ quoteLock' = ReleasedBy(t, quoteLock)
  /\ portalLock' = ReleasedBy(t, portalLock)
  /\ tx' = [tx EXCEPT ![t] = Idle]
  /\ UNCHANGED now

\* The transaction ends and leaves the tables as they are: an error return,
\* or a COMMIT that wrote only events and view counts.
Rollback(t) == Finish(t) /\ UNCHANGED tables

\* The client gives up or the process stops before COMMIT.
Abort(t) == tx[t] # Idle /\ Rollback(t)

\* t waits for a row u has locked.
WaitsFor(t, u) ==
  /\ t # u
  /\ \/ tx[t].pc \in {"quote", "event"} /\ quoteLock[tx[t].quote] = u
     \/ tx[t].pc = "portal" /\ portalLock[tx[t].quote] = u

\* PostgreSQL's deadlock detector: one of two that wait for each other fails.
Victim(t) == (\E u \in Txn : WaitsFor(t, u) /\ WaitsFor(u, t)) /\ Rollback(t)

Advance(t, pc) == tx' = [tx EXCEPT ![t].pc = pc]

-----------------------------------------------------------------------------
(* Synchronization trigger and expiry *)

Mark(row, status, source) == [row EXCEPT !.status = status, !.source = source]

\* sync_quote_portal_from_quote_status, for a quote that is decided.
Sync(row, status) ==
  IF row.status # "ACTIVE" THEN row
  ELSE Mark(row, IF status = "CANCELLED" THEN "REVOKED" ELSE status,
            IF row.source # None THEN row.source
            ELSE IF status = "EXPIRED" THEN "SYSTEM" ELSE "ADMIN")

\* Mutant of Expire: the quote is forgotten.
ExpirePortalOnly(q) ==
  /\ portal' = [portal EXCEPT ![q] =
       Mark(@, "EXPIRED", IF @.source = None THEN "SYSTEM" ELSE @.source)]
  /\ UNCHANGED <<settings, quote, expires, converted, issued>>

\* expireLockedPortal and its twin in TouchAndGet: a quote still SENT becomes
\* EXPIRED; the portal becomes EXPIRED whatever it was.
Expire(q) ==
  /\ quote' = [quote EXCEPT ![q] = IF @ = "SENT" THEN "EXPIRED" ELSE @]
  /\ portal' = [portal EXCEPT ![q] =
       Mark(@, "EXPIRED", IF @.source = None THEN "SYSTEM" ELSE @.source)]
  /\ UNCHANGED <<settings, expires, converted, issued>>

-----------------------------------------------------------------------------
(* Staff *)

\* PATCH of the settings: one statement that waits for an Issue in progress.
UpdateSettings(s) ==
  /\ settingsLock = None
  /\ settings' = s
  /\ UNCHANGED <<now, quote, expires, converted, portal, issued, locks, tx>>

\* Create, with an expiry of its own or none.
Create(q, e) ==
  /\ quote[q] = "NONE"
  /\ quote' = [quote EXCEPT ![q] = "DRAFT"]
  /\ expires' = [expires EXCEPT ![q] = e]
  /\ UNCHANGED <<now, settings, converted, portal, issued, locks, tx>>

\* Update: only drafts; what the quote offers is left out, its expiry is not.
Update(q, e) ==
  /\ quoteLock[q] = None
  /\ quote[q] = "DRAFT"
  /\ expires' = [expires EXCEPT ![q] = e]
  /\ UNCHANGED <<now, settings, quote, converted, portal, issued, locks, tx>>

\* Transition: one UPDATE and, in the same statement, the trigger, which
\* waits for the portal row if it has to write it.
Transition(q, allowed, target) ==
  /\ quoteLock[q] = None
  /\ quote[q] \in allowed
  /\ portal[q].status = "ACTIVE" => portalLock[q] = None
  /\ quote' = [quote EXCEPT ![q] = target]
  /\ portal' = [portal EXCEPT ![q] = Sync(@, target)]
  /\ UNCHANGED <<now, settings, expires, converted, issued, locks, tx>>

StaffAccept(q) == Transition(q, {"SENT"}, "ACCEPTED")
StaffReject(q) == Transition(q, {"SENT"}, "REJECTED")
Cancel(q) == Transition(q, {"DRAFT", "SENT"}, "CANCELLED")

\* The protected conversion of an accepted quote, when there are units.
Convert(q) ==
  /\ quoteLock[q] = None
  /\ quote[q] = "ACCEPTED" /\ q \notin converted
  /\ converted' = converted \cup {q}
  /\ UNCHANGED <<now, settings, quote, expires, portal, issued, locks, tx>>

\* Issue, for Send and for Reissue: the settings row is locked first.
BeginIssue(t, op, q, k) ==
  /\ tx[t] = Idle
  /\ settingsLock = None /\ settings.enabled
  /\ k \notin issued /\ \A u \in Txn : tx[u].token # k
  /\ settingsLock' = t
  /\ tx' = [tx EXCEPT ![t] = [op |-> op, pc |-> "quote", quote |-> q,
                              token |-> k, due |-> 0]]
  /\ UNCHANGED <<now, tables, quoteLock, portalLock>>

\* The quote's own expiry, if it lies ahead, or the default.
Due(q) == IF expires[q] # None /\ expires[q] > now THEN expires[q] ELSE now + Validity

\* Mutant of LockQuoteToIssue: the quote is read without FOR UPDATE.
ReadQuoteToIssue(t) ==
  LET q == tx[t].quote
  IN /\ tx[t].op \in Staff /\ tx[t].pc = "quote"
     /\ quoteLock[q] = None
     /\ IF quote[q] = (IF tx[t].op = "send" THEN "DRAFT" ELSE "SENT")
        THEN /\ tx' = [tx EXCEPT ![t].pc = "portal", ![t].due = Due(q)]
             /\ UNCHANGED <<now, tables, locks>>
        ELSE Rollback(t)

\* FOR UPDATE of the quote, which must be DRAFT, or SENT to be reissued.
LockQuoteToIssue(t) ==
  LET q == tx[t].quote
  IN /\ tx[t].op \in Staff /\ tx[t].pc = "quote"
     /\ quoteLock[q] = None
     /\ IF quote[q] = (IF tx[t].op = "send" THEN "DRAFT" ELSE "SENT")
        THEN /\ quoteLock' = [quoteLock EXCEPT ![q] = t]
             /\ tx' = [tx EXCEPT ![t].pc = "portal", ![t].due = Due(q)]
             /\ UNCHANGED <<now, tables, settingsLock, portalLock>>
        ELSE Rollback(t)

\* The quote is SENT and the portal row is inserted, or written over as new.
CommitIssue(t) ==
  LET q == tx[t].quote
  IN /\ tx[t].op \in Staff /\ tx[t].pc = "portal"
     /\ portalLock[q] = None
     /\ quote' = [quote EXCEPT ![q] = "SENT"]
     /\ expires' = [expires EXCEPT ![q] = tx[t].due]
     /\ portal' = [portal EXCEPT ![q] =
          [status |-> "ACTIVE", token |-> tx[t].token,
           rejection |-> settings.rejection, source |-> None]]
     /\ issued' = issued \cup {tx[t].token}
     /\ Finish(t)
     /\ UNCHANGED <<settings, converted>>

\* Revoke locks the portal row; one that is not ACTIVE is left as it is.
BeginRevoke(t, q) ==
  /\ tx[t] = Idle
  /\ portal[q].status = "ACTIVE"
  /\ portalLock[q] = None
  /\ portalLock' = [portalLock EXCEPT ![q] = t]
  /\ tx' = [tx EXCEPT ![t] = [op |-> "revoke", pc |-> "event", quote |-> q,
                              token |-> None, due |-> 0]]
  /\ UNCHANGED <<now, tables, settingsLock, quoteLock>>

\* The event it inserts refers to the quote, whose row must not be locked
\* FOR UPDATE by another.
CommitRevoke(t) ==
  LET q == tx[t].quote
  IN /\ tx[t].pc = "event"
     /\ quoteLock[q] = None
     /\ portal' = [portal EXCEPT ![q] = Mark(@, "REVOKED", "ADMIN")]
     /\ Finish(t)
     /\ UNCHANGED <<settings, quote, expires, converted, issued>>

-----------------------------------------------------------------------------
(* Holders of a link *)

\* Mutant of BeginPublic: the portal row is locked before the quote.
BeginPublicLocked(t, op, q, k) ==
  /\ tx[t] = Idle
  /\ settings.enabled
  /\ portal[q].token = k /\ k # None
  /\ portalLock[q] = None
  /\ portalLock' = [portalLock EXCEPT ![q] = t]
  /\ tx' = [tx EXCEPT ![t] = [op |-> op, pc |-> "quote", quote |-> q,
                              token |-> k, due |-> 0]]
  /\ UNCHANGED <<now, tables, settingsLock, quoteLock>>

\* findPortalIdentity: reads which quote the token opens, without a lock.
BeginPublic(t, op, q, k) ==
  /\ tx[t] = Idle
  /\ settings.enabled
  /\ portal[q].token = k /\ k # None
  /\ tx' = [tx EXCEPT ![t] = [op |-> op, pc |-> "quote", quote |-> q,
                              token |-> k, due |-> 0]]
  /\ UNCHANGED <<now, tables, locks>>

LockQuote(t) ==
  /\ tx[t].op \in Public /\ tx[t].pc = "quote"
  /\ quoteLock[tx[t].quote] = None
  /\ quoteLock' = [quoteLock EXCEPT ![tx[t].quote] = t]
  /\ Advance(t, "portal")
  /\ UNCHANGED <<now, tables, settingsLock, portalLock>>

\* Mutant of OpenPortal: the portal is looked up by quote, not by token again.
OpenPortalOfQuote(t) ==
  /\ tx[t].op \in Public /\ tx[t].pc = "portal"
  /\ portalLock[tx[t].quote] = None

\* The portal row can be locked, and the token still opens it.
OpenPortal(t) ==
  /\ tx[t].op \in Public /\ tx[t].pc = "portal"
  /\ portalLock[tx[t].quote] = None
  /\ portal[tx[t].quote].token = tx[t].token

\* The token was replaced while the transaction waited.
TokenReplaced(t) ==
  /\ tx[t].op \in Public /\ tx[t].pc = "portal"
  /\ portalLock[tx[t].quote] = None
  /\ portal[tx[t].quote].token # tx[t].token
  /\ Rollback(t)

Late(q) == expires[q] <= now

\* TouchAndGet: the only state it changes besides the view count is expiry.
View(t) ==
  LET q == tx[t].quote
  IN /\ tx[t].op = "view" /\ OpenPortal(t)
     /\ IF portal[q].status = "ACTIVE" /\ Late(q)
        THEN Expire(q) /\ Finish(t)
        ELSE Rollback(t)

\* The status a decision records, on the quote and on the portal.
Verdict(op) == IF op = "accept" THEN "ACCEPTED" ELSE "REJECTED"

\* Accept and Reject: what is already decided so is answered as it is; a
\* portal that is revoked or already expired is left as it is; then come expiry,
\* whatever the portal has been decided, and the conditions of a new decision.
Decide(t) ==
  LET q == tx[t].quote
      p == portal[q]
  IN /\ tx[t].op \in {"accept", "reject"} /\ OpenPortal(t)
     /\ IF p.status \in {Verdict(tx[t].op), "REVOKED", "EXPIRED"} THEN Rollback(t)
        ELSE IF Late(q) THEN Expire(q) /\ Finish(t)
        ELSE IF p.status = "ACTIVE" /\ quote[q] = "SENT"
                /\ (tx[t].op = "reject" => p.rejection)
        THEN /\ portalLock' = [portalLock EXCEPT ![q] = t]
             /\ Advance(t, "commit")
             /\ UNCHANGED <<now, tables, settingsLock, quoteLock>>
        ELSE Rollback(t)

\* Mutant of CommitDecision: the quote is accepted before it is known whether
\* there are units, and stays so.
CommitDecisionFirst(t) ==
  LET q == tx[t].quote
      verdict == Verdict(tx[t].op)
  IN /\ tx[t].pc = "commit"
     /\ quote' = [quote EXCEPT ![q] = verdict]
     /\ portal' = [portal EXCEPT ![q] = Mark(@, verdict, "CUSTOMER")]
     /\ \/ verdict = "ACCEPTED" /\ converted' = converted \cup {q}
        \/ converted' = converted
     /\ Finish(t)
     /\ UNCHANGED <<settings, expires, issued>>

\* The decision, the reservation and the evidence in one COMMIT.
CommitDecision(t) ==
  LET q == tx[t].quote
      verdict == Verdict(tx[t].op)
  IN /\ tx[t].pc = "commit"
     /\ verdict = "ACCEPTED" => q \notin converted
     /\ quote' = [quote EXCEPT ![q] = verdict]
     /\ portal' = [portal EXCEPT ![q] = Mark(@, verdict, "CUSTOMER")]
     /\ converted' = IF verdict = "ACCEPTED" THEN converted \cup {q} ELSE converted
     /\ Finish(t)
     /\ UNCHANGED <<settings, expires, issued>>

\* CreateFromQuoteTx finds a reservation, or no units: only an event is
\* written, and the offer stays open.
AcceptanceBlocked(t) == tx[t].pc = "commit" /\ tx[t].op = "accept" /\ Rollback(t)

-----------------------------------------------------------------------------
Tick ==
  /\ now < Horizon
  /\ now' = now + 1
  /\ UNCHANGED <<tables, locks, tx>>

Step(t) ==
  \/ LockQuoteToIssue(t)
  \/ CommitIssue(t)
  \/ CommitRevoke(t)
  \/ LockQuote(t)
  \/ TokenReplaced(t)
  \/ View(t)
  \/ Decide(t)
  \/ CommitDecision(t)
  \/ AcceptanceBlocked(t)

Next ==
  \/ Tick
  \/ \E s \in Settings : UpdateSettings(s)
  \/ \E q \in Quote :
       \/ \E e \in Time \cup {None} : Create(q, e) \/ Update(q, e)
       \/ StaffAccept(q) \/ StaffReject(q) \/ Cancel(q) \/ Convert(q)
  \/ \E t \in Txn :
       \/ \E q \in Quote, k \in Token :
            \/ \E op \in Staff : BeginIssue(t, op, q, k)
            \/ \E op \in Public : BeginPublic(t, op, q, k)
       \/ \E q \in Quote : BeginRevoke(t, q)
       \/ Step(t)
       \/ Abort(t)
       \/ Victim(t)

Spec == Init /\ [][Next]_vars

\* A statement that can run is run, and a row that is released again and
\* again is granted in the end (PostgreSQL queues those who wait); of two
\* that wait for each other one is made to fail.
FairSpec == /\ Spec
            /\ \A t \in Txn : SF_vars(Step(t))
            /\ WF_vars(\E t \in Txn : Victim(t))

-----------------------------------------------------------------------------
(* Properties *)

TypeOK ==
  /\ now \in 0 .. Horizon
  /\ settings \in Settings
  /\ quote \in [Quote -> QuoteStatus]
  /\ expires \in [Quote -> Time \cup {None}]
  /\ converted \subseteq Quote
  /\ portal \in [Quote -> PortalRow]
  /\ issued \subseteq Token
  /\ settingsLock \in Txn \cup {None}
  /\ quoteLock \in [Quote -> Txn \cup {None}]
  /\ portalLock \in [Quote -> Txn \cup {None}]
  /\ tx \in [Txn -> Transaction]

\* The customer's page and the back office tell the same story: a portal is
\* open only while its quote is, a quote that is open has no decided portal,
\* and a decision shown on the portal is the one the quote took, whoever
\* raced for it (lock order and trigger of migration 009).
PortalFollowsQuote ==
  \A q \in Quote :
    /\ portal[q].status = "ACTIVE" => quote[q] = "SENT"
    /\ portal[q].status \in {"ACCEPTED", "REJECTED"} => quote[q] = portal[q].status
    /\ quote[q] = "SENT" => portal[q].status \in {"ACTIVE", "REVOKED"}

\* What a customer accepted online is reserved: reservation, quote and
\* evidence commit together (Accept with CreateFromQuoteTx).
AcceptedOnlineIsReserved ==
  \A q \in Quote :
    portal[q].status = "ACCEPTED" /\ portal[q].source = "CUSTOMER" =>
      quote[q] = "ACCEPTED" /\ q \in converted

\* Only the newest link decides: a request that resolved its token before a
\* rotation committed cannot decide with it afterwards (lockDecisionPortal
\* looks the token up again under the locks).
CurrentTokenDecides ==
  [][\A q \in Quote :
       portal'[q].source = "CUSTOMER" /\ portal[q].source # "CUSTOMER" =>
         \E t \in Txn : /\ tx[t].quote = q /\ tx'[t] = Idle
                        /\ tx[t].token = portal[q].token]_vars

\* Whoever decides first decides, and nobody reserves what is not accepted.
Offers == INSTANCE Offer WITH offer <- quote, reserved <- converted

\* The locked transactions implement the abstract offer, which is decided by
\* single steps and never decided again.
ImplementsOffer == Offers!Spec

\* Requests that wait in a circle, however many, include a revocation and one
\* that it waits for and that waits for it, so that PostgreSQL has a victim: all
\* the others lock the quote before the portal.
OnlyRevokeDeadlocks ==
  \A C \in (SUBSET Txn) \ {{}} :
    (\A t \in C : \E u \in C : WaitsFor(t, u)) =>
      \E t, u \in C : tx[t].op = "revoke" /\ WaitsFor(t, u) /\ WaitsFor(u, t)

\* Every request ends, also one that meets a revocation head-on.
EveryRequestEnds == \A t \in Txn : tx[t] # Idle ~> tx[t] = Idle

\* A decision the customer has made stays on the portal as it was made, so
\* that repeating the request gives the recorded answer.
DecisionStands ==
  [][\A q \in Quote :
       portal[q].source = "CUSTOMER" /\ portal[q].status \in {"ACCEPTED", "REJECTED"} =>
         portal'[q].status = portal[q].status]_vars

-----------------------------------------------------------------------------
(* The inductive invariant: what each transaction holds at each statement, *)
(* and what it has read under those locks and will write upon.             *)

\* A transaction is at a statement of its own program.
Shape(x) ==
  /\ x.op = "idle" => x.pc = "idle"
  /\ x.op \in Staff => x.pc \in {"quote", "portal"}
  /\ x.op \in Public \cup Staff => x.token # None
  /\ x.op = "revoke" => x.pc = "event"
  /\ x.op = "view" => x.pc \in {"quote", "portal"}
  /\ x.op \in {"accept", "reject"} => x.pc \in {"quote", "portal", "commit"}
  /\ x.op # "idle" => x.quote \in Quote

Shapes == \A t \in Txn : Shape(tx[t])

\* The quote row is locked from the statement after "quote" on; the portal
\* row is held across statements by a decision and by a revocation only.
LocksMatch ==
  \A t \in Txn, q \in Quote :
    /\ quoteLock[q] = t <=> tx[t].pc \in {"portal", "commit"} /\ tx[t].quote = q
    /\ portalLock[q] = t <=> tx[t].pc \in {"commit", "event"} /\ tx[t].quote = q

\* What was read under the locks is still so when the transaction writes.
ReadsHold ==
  \A t \in Txn :
    LET q == tx[t].quote
    IN /\ tx[t].op = "send" /\ tx[t].pc = "portal" => quote[q] = "DRAFT"
       /\ tx[t].op = "reissue" /\ tx[t].pc = "portal" => quote[q] = "SENT"
       /\ tx[t].pc = "event" => portal[q].status = "ACTIVE"
       /\ tx[t].pc = "commit" =>
            /\ quote[q] = "SENT"
            /\ portal[q].status = "ACTIVE"
            /\ portal[q].token = tx[t].token

\* An open portal bears no decision, and none exists for an unsent quote.
Undecided ==
  \A q \in Quote :
    /\ portal[q].status \in {"NONE", "ACTIVE"} => portal[q].source = None
    /\ quote[q] \in {"NONE", "DRAFT"} => portal[q].status = "NONE"
    /\ portal[q].status = "NONE" => portal[q].token = None

\* A reservation comes only from an accepted quote.
ReservedIsAccepted == \A q \in converted : quote[q] = "ACCEPTED"

PortalInv ==
  /\ TypeOK
  /\ Shapes
  /\ LocksMatch
  /\ ReadsHold
  /\ Undecided
  /\ ReservedIsAccepted
  /\ PortalFollowsQuote
  /\ AcceptedOnlineIsReserved
=============================================================================
