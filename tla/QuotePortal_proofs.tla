--------------------------- MODULE QuotePortal_proofs ---------------------------
(***************************************************************************)
(* Proofs about QuotePortal for any sets of quotes, tokens, settings and   *)
(* connections.  A transaction that writes a quote or its portal is alone  *)
(* with them (OthersElsewhere), so what the others have read stands.       *)
(***************************************************************************)
EXTENDS QuotePortal, TLAPS

\* What the tables alone satisfy.
TablesInv ==
  Undecided /\ ReservedIsAccepted /\ PortalFollowsQuote /\ AcceptedOnlineIsReserved

\* An idle connection.
LEMMA IdleFields ==
  Idle \in Transaction /\ Idle.op = "idle" /\ Idle.pc = "idle" /\ Idle.quote = None
BY PortalAssumption DEF Idle, Transaction, Time

\* The initial tables satisfy the invariant.
LEMMA InitPortalInv == Init => PortalInv
<1> SUFFICES ASSUME Init PROVE PortalInv
  OBVIOUS
<1>1. TypeOK
  BY IdleFields, PortalAssumption
  DEF Init, TypeOK, QuoteStatus, PortalRow, NoPortal, PortalStatus
<1>2. Shapes
  BY IdleFields DEF Init, Shapes, Shape, Public, Staff
<1>3. LocksMatch /\ ReadsHold
  BY IdleFields, PortalAssumption DEF Init, LocksMatch, ReadsHold
<1>4. TablesInv
  BY DEF Init, TablesInv, Undecided, ReservedIsAccepted, PortalFollowsQuote,
         AcceptedOnlineIsReserved, NoPortal
<1> QED
  BY <1>1, <1>2, <1>3, <1>4 DEF PortalInv, TablesInv

-----------------------------------------------------------------------------
(* Ends of transactions *)

\* What the end of a transaction leaves.
LEMMA FinishFacts ==
  ASSUME PortalInv, NEW t \in Txn, Finish(t)
  PROVE  /\ now' = now
         /\ settingsLock' \in Txn \cup {None}
         /\ quoteLock' \in [Quote -> Txn \cup {None}]
         /\ portalLock' \in [Quote -> Txn \cup {None}]
         /\ tx' \in [Txn -> Transaction]
         /\ tx'[t] = Idle /\ \A u \in Txn \ {t} : tx'[u] = tx[u]
         /\ Shapes' /\ LocksMatch'
<1> USE PortalAssumption DEF PortalInv
<1>1. tx'[t] = Idle /\ \A u \in Txn \ {t} : tx'[u] = tx[u]
  BY DEF Finish, TypeOK
<1>2. /\ settingsLock' \in Txn \cup {None}
      /\ quoteLock' \in [Quote -> Txn \cup {None}]
      /\ portalLock' \in [Quote -> Txn \cup {None}]
      /\ tx' \in [Txn -> Transaction]
  BY IdleFields DEF Finish, TypeOK, ReleasedBy
<1>3. Shapes'
  BY <1>1, IdleFields DEF Shapes, Shape, Public, Staff
<1>4. LocksMatch'
  <2> SUFFICES ASSUME NEW u \in Txn, NEW q \in Quote
               PROVE  /\ quoteLock'[q] = u <=> tx'[u].pc \in {"portal", "commit"} /\ tx'[u].quote = q
                      /\ portalLock'[q] = u <=> tx'[u].pc \in {"commit", "event"} /\ tx'[u].quote = q
    BY DEF LocksMatch
  <2>1. /\ quoteLock'[q] = IF quoteLock[q] = t THEN None ELSE quoteLock[q]
        /\ portalLock'[q] = IF portalLock[q] = t THEN None ELSE portalLock[q]
    BY DEF Finish, ReleasedBy
  <2>2. CASE u = t
    BY <2>1, <2>2, <1>1, IdleFields
  <2>3. CASE u # t
    BY <2>1, <2>3, <1>1 DEF LocksMatch
  <2> QED
    BY <2>2, <2>3
<1> QED
  BY <1>1, <1>2, <1>3, <1>4 DEF Finish

\* A transaction that ends without writing keeps everything.
LEMMA RollbackKeeps ==
  ASSUME PortalInv, NEW t \in Txn, Rollback(t)
  PROVE  PortalInv'
<1>1. TypeOK'
  BY FinishFacts DEF Rollback, PortalInv, TypeOK, tables
<1>2. ReadsHold'
  BY FinishFacts, IdleFields DEF Rollback, PortalInv, ReadsHold, tables
<1>3. TablesInv'
  BY DEF Rollback, PortalInv, tables, TablesInv, Undecided, ReservedIsAccepted,
         PortalFollowsQuote, AcceptedOnlineIsReserved
<1> QED
  BY <1>1, <1>2, <1>3, FinishFacts DEF PortalInv, Rollback, TablesInv

-----------------------------------------------------------------------------
(* Exclusion *)

\* Nobody else has read anything of q it will rely on, if the locks of q are
\* free or held by t.
LEMMA OthersElsewhere ==
  ASSUME PortalInv, NEW t, NEW q \in Quote,
         quoteLock[q] \in {None, t}, portalLock[q] \in {None, t}
  PROVE  \A u \in Txn \ {t} :
           tx[u].quote = q => tx[u].pc \notin {"portal", "commit", "event"}
BY PortalAssumption DEF PortalInv, LocksMatch

\* A transaction that ends writing only q, of which nobody else has read
\* anything, keeps what the others have read.
LEMMA WriterKeepsReads ==
  ASSUME PortalInv, NEW t \in Txn, NEW q \in Quote, Finish(t),
         quoteLock[q] \in {None, t}, portalLock[q] \in {None, t},
         \A p \in Quote \ {q} : quote'[p] = quote[p] /\ portal'[p] = portal[p]
  PROVE  ReadsHold'
<1> SUFFICES ASSUME NEW u \in Txn \ {t}
             PROVE  LET p == tx[u].quote
                    IN /\ tx[u].op = "send" /\ tx[u].pc = "portal" => quote'[p] = "DRAFT"
                       /\ tx[u].op = "reissue" /\ tx[u].pc = "portal" => quote'[p] = "SENT"
                       /\ tx[u].pc = "event" => portal'[p].status = "ACTIVE"
                       /\ tx[u].pc = "commit" =>
                            /\ quote'[p] = "SENT"
                            /\ portal'[p].status = "ACTIVE"
                            /\ portal'[p].token = tx[u].token
  BY FinishFacts, IdleFields DEF ReadsHold
<1>1. CASE tx[u].quote = q
  BY <1>1, OthersElsewhere
<1>2. CASE tx[u].quote # q
  <2>1. tx[u].pc # "idle" => tx[u].quote \in Quote
    BY DEF PortalInv, Shapes, Shape, TypeOK, Transaction, Public, Staff
  <2> QED
    BY <1>2, <2>1 DEF PortalInv, ReadsHold
<1> QED
  BY <1>1, <1>2

\* The fields of a quote that was marked.
LEMMA MarkFields ==
  ASSUME NEW row \in PortalRow, NEW status \in PortalStatus, NEW source \in Source
  PROVE  /\ Mark(row, status, source) \in PortalRow
         /\ Mark(row, status, source).status = status
         /\ Mark(row, status, source).source = source
         /\ Mark(row, status, source).token = row.token
BY DEF Mark, PortalRow

\* The tables' invariant, quote by quote.
GoodAt(q) ==
  /\ portal[q].status \in {"NONE", "ACTIVE"} => portal[q].source = None
  /\ quote[q] \in {"NONE", "DRAFT"} => portal[q].status = "NONE"
  /\ portal[q].status = "NONE" => portal[q].token = None
  /\ q \in converted => quote[q] = "ACCEPTED"
  /\ portal[q].status = "ACTIVE" => quote[q] = "SENT"
  /\ portal[q].status \in {"ACCEPTED", "REJECTED"} => quote[q] = portal[q].status
  /\ quote[q] = "SENT" => portal[q].status \in {"ACTIVE", "REVOKED"}
  /\ portal[q].status = "ACCEPTED" /\ portal[q].source = "CUSTOMER" =>
       quote[q] = "ACCEPTED" /\ q \in converted

\* The invariant, one quote at a time.
LEMMA EachQuoteGood ==
  ASSUME PortalInv
  PROVE  \A q \in Quote : GoodAt(q)
BY DEF PortalInv, GoodAt, Undecided, ReservedIsAccepted, PortalFollowsQuote,
       AcceptedOnlineIsReserved

\* A step that writes only q keeps the tables' invariant if q ends up good.
LEMMA WriterKeepsTables ==
  ASSUME PortalInv, NEW q \in Quote, GoodAt(q)',
         \A p \in Quote \ {q} : /\ quote'[p] = quote[p] /\ portal'[p] = portal[p]
                                /\ p \in converted' <=> p \in converted,
         converted' \subseteq Quote
  PROVE  TablesInv'
<1>1. \A p \in Quote : GoodAt(p)'
  BY EachQuoteGood DEF GoodAt
<1> QED
  BY <1>1 DEF TablesInv, GoodAt, Undecided, ReservedIsAccepted,
              PortalFollowsQuote, AcceptedOnlineIsReserved

-----------------------------------------------------------------------------
(* Transactions that write and end *)

\* Due dates are times.
LEMMA DueIsTime ==
  ASSUME TypeOK, NEW q \in Quote
  PROVE  Due(q) \in Time
BY PortalAssumption DEF TypeOK, Due, Time

\* Issuing a link keeps the invariant.
LEMMA CommitIssueKeeps ==
  ASSUME PortalInv, NEW t \in Txn, CommitIssue(t)
  PROVE  PortalInv'
<1>0. tx[t].quote \in Quote
  BY DEF CommitIssue, PortalInv, Shapes, Shape, Staff
<1> PICK q \in Quote : q = tx[t].quote
  BY <1>0
<1>1. /\ tx[t].token \in Token /\ tx[t].due \in Time
      /\ quoteLock[q] = t /\ portalLock[q] = None /\ Finish(t)
      /\ quote[q] \in {"DRAFT", "SENT"}
  BY DEF CommitIssue, PortalInv, TypeOK, Transaction, Shapes, Shape, Staff,
         LocksMatch, ReadsHold
<1>2. /\ quote' = [quote EXCEPT ![q] = "SENT"]
      /\ expires' = [expires EXCEPT ![q] = tx[t].due]
      /\ portal' = [portal EXCEPT ![q] =
           [status |-> "ACTIVE", token |-> tx[t].token,
            rejection |-> settings.rejection, source |-> None]]
      /\ issued' = issued \cup {tx[t].token}
      /\ settings' = settings /\ converted' = converted
  BY DEF CommitIssue
<1>3. TypeOK'
  <2>1. settings.rejection \in BOOLEAN
    BY PortalAssumption DEF PortalInv, TypeOK
  <2> QED
    BY <1>1, <1>2, <2>1, FinishFacts
    DEF PortalInv, TypeOK, PortalRow, PortalStatus, QuoteStatus
<1>4. GoodAt(q)'
  BY <1>1, <1>2, EachQuoteGood, PortalAssumption DEF GoodAt, PortalInv, TypeOK
<1>5. ReadsHold'
  BY <1>1, <1>2, WriterKeepsReads DEF PortalInv, TypeOK
<1>6. TablesInv'
  BY <1>2, <1>4, WriterKeepsTables DEF PortalInv, TypeOK
<1> QED
  BY <1>1, <1>3, <1>5, <1>6, FinishFacts DEF PortalInv, TablesInv

\* A transaction that marks the portal of q, and may write its quote.
LEMMA MarkerKeeps ==
  ASSUME PortalInv, NEW t \in Txn, Finish(t), NEW q \in Quote,
         quoteLock[q] \in {None, t}, portalLock[q] \in {None, t},
         NEW v \in QuoteStatus, NEW s \in PortalStatus, NEW source \in Source,
         quote' = [quote EXCEPT ![q] = v],
         portal' = [portal EXCEPT ![q] = Mark(@, s, source)],
         converted' \subseteq Quote,
         \A p \in Quote \ {q} : p \in converted' <=> p \in converted,
         UNCHANGED <<settings, expires, issued>>,
         GoodAt(q)'
  PROVE  PortalInv'
<1>1. portal[q] \in PortalRow
  BY DEF PortalInv, TypeOK
<1>2. TypeOK'
  BY <1>1, MarkFields, FinishFacts DEF PortalInv, TypeOK
<1>3. \A p \in Quote \ {q} : quote'[p] = quote[p] /\ portal'[p] = portal[p]
  BY DEF PortalInv, TypeOK
<1>4. ReadsHold'
  BY <1>3, WriterKeepsReads
<1>5. TablesInv'
  BY <1>3, WriterKeepsTables
<1> QED
  BY <1>2, <1>4, <1>5, FinishFacts DEF PortalInv, TablesInv

\* Revoking a link keeps the invariant.
LEMMA CommitRevokeKeeps ==
  ASSUME PortalInv, NEW t \in Txn, CommitRevoke(t)
  PROVE  PortalInv'
<1>0. tx[t].quote \in Quote
  BY DEF CommitRevoke, PortalInv, Shapes, Shape, TypeOK, Transaction, Public, Staff
<1> PICK q \in Quote : q = tx[t].quote
  BY <1>0
<1>1. /\ quoteLock[q] = None /\ portalLock[q] = t /\ Finish(t)
      /\ portal[q].status = "ACTIVE" /\ portal[q] \in PortalRow
      /\ quote[q] \in QuoteStatus /\ converted \subseteq Quote
  BY DEF CommitRevoke, PortalInv, TypeOK, LocksMatch, ReadsHold
<1>2. /\ portal' = [portal EXCEPT ![q] = Mark(@, "REVOKED", "ADMIN")]
      /\ UNCHANGED <<settings, quote, expires, converted, issued>>
  BY DEF CommitRevoke
<1>3. portal'[q].status = "REVOKED" /\ quote' = [quote EXCEPT ![q] = quote[q]]
  BY <1>1, <1>2, MarkFields DEF PortalInv, TypeOK, PortalStatus, Source
<1>4. GoodAt(q)'
  BY <1>1, <1>2, <1>3, EachQuoteGood DEF GoodAt
<1> QED
  BY <1>1, <1>2, <1>3, <1>4, MarkerKeeps DEF PortalStatus, Source

\* A decision of the customer keeps the invariant.
LEMMA CommitDecisionKeeps ==
  ASSUME PortalInv, NEW t \in Txn, CommitDecision(t)
  PROVE  PortalInv'
<1>0. tx[t].quote \in Quote
  BY DEF CommitDecision, PortalInv, Shapes, Shape, TypeOK, Transaction, Public, Staff
<1> PICK q \in Quote : q = tx[t].quote
  BY <1>0
<1> PICK v \in {"ACCEPTED", "REJECTED"} : v = Verdict(tx[t].op)
  BY DEF Verdict
<1>1. /\ quoteLock[q] = t /\ portalLock[q] = t /\ Finish(t)
      /\ portal[q] \in PortalRow /\ converted \subseteq Quote /\ quote[q] = "SENT"
      /\ q \in DOMAIN quote /\ q \in DOMAIN portal
  BY DEF CommitDecision, PortalInv, TypeOK, LocksMatch, ReadsHold
<1>2. /\ quote' = [quote EXCEPT ![q] = v]
      /\ portal' = [portal EXCEPT ![q] = Mark(@, v, "CUSTOMER")]
      /\ converted' = IF v = "ACCEPTED" THEN converted \cup {q} ELSE converted
      /\ UNCHANGED <<settings, expires, issued>>
  BY DEF CommitDecision
<1>3. portal'[q].status = v /\ portal'[q].source = "CUSTOMER" /\ quote'[q] = v
  BY <1>1, <1>2, MarkFields DEF PortalStatus, Source
<1>4. GoodAt(q)'
  BY <1>1, <1>2, <1>3, EachQuoteGood DEF GoodAt
<1> QED
  BY <1>1, <1>2, <1>4, MarkerKeeps DEF PortalStatus, Source, QuoteStatus, Decided

\* Expiry, by a view or by a decision that comes late.
LEMMA ExpiryKeeps ==
  ASSUME PortalInv, NEW t \in Txn, OpenPortal(t), Expire(tx[t].quote), Finish(t)
  PROVE  PortalInv'
<1>0. tx[t].quote \in Quote
  BY DEF OpenPortal, PortalInv, Shapes, Shape, TypeOK, Transaction, Public, Staff
<1> PICK q \in Quote : q = tx[t].quote
  BY <1>0
<1> PICK v : v = (IF quote[q] = "SENT" THEN "EXPIRED" ELSE quote[q])
  OBVIOUS
<1> PICK source : source = (IF portal[q].source = None THEN "SYSTEM" ELSE portal[q].source)
  OBVIOUS
<1>1. /\ quoteLock[q] = t /\ portalLock[q] = None
      /\ portal[q] \in PortalRow /\ converted \subseteq Quote
      /\ quote[q] \in QuoteStatus
      /\ q \in DOMAIN quote /\ q \in DOMAIN portal
  BY DEF OpenPortal, PortalInv, TypeOK, LocksMatch
<1>2. portal[q].status # "NONE"
  BY DEF PortalInv, OpenPortal, Undecided, Shapes, Shape
<1>3. /\ quote' = [quote EXCEPT ![q] = v]
      /\ portal' = [portal EXCEPT ![q] = Mark(@, "EXPIRED", source)]
      /\ UNCHANGED <<settings, expires, converted, issued>>
  BY DEF Expire
<1>4. v \in QuoteStatus \ {"SENT"} /\ source \in Source
  BY <1>1 DEF QuoteStatus, Decided, Source, PortalRow
<1>5. portal'[q].status = "EXPIRED" /\ quote'[q] = v
  <2>1. Mark(portal[q], "EXPIRED", source).status = "EXPIRED"
    BY <1>1 DEF Mark, PortalRow
  <2>2. portal'[q] = Mark(portal[q], "EXPIRED", source) /\ quote'[q] = v
    BY <1>1, <1>3
  <2> QED
    BY <2>1, <2>2
<1>a. v \notin {"NONE", "DRAFT", "SENT"} /\ (q \in converted => v = "ACCEPTED")
  BY <1>2, EachQuoteGood DEF GoodAt
<1>6. GoodAt(q)'
  BY <1>3, <1>5, <1>a DEF GoodAt
<1> QED
  BY <1>1, <1>3, <1>4, <1>6, MarkerKeeps DEF PortalStatus

-----------------------------------------------------------------------------
(* Statements of one request: staff transitions, conversion, drafts *)

\* A step that leaves the transactions and their locks alone.
LEMMA QuietKeeps ==
  ASSUME PortalInv, UNCHANGED <<locks, tx>>, NEW q \in Quote,
         quoteLock[q] = None,
         portalLock[q] = None \/ portal'[q] = portal[q],
         \A p \in Quote \ {q} : /\ quote'[p] = quote[p] /\ portal'[p] = portal[p]
                                /\ p \in converted' <=> p \in converted,
         converted' \subseteq Quote,
         TypeOK', GoodAt(q)'
  PROVE  PortalInv'
<1>1. Shapes' /\ LocksMatch'
  BY DEF PortalInv, Shapes, LocksMatch, locks
<1>2. ReadsHold'
  <2> SUFFICES ASSUME NEW u \in Txn
               PROVE  LET p == tx[u].quote
                      IN /\ tx[u].op = "send" /\ tx[u].pc = "portal" => quote'[p] = "DRAFT"
                         /\ tx[u].op = "reissue" /\ tx[u].pc = "portal" => quote'[p] = "SENT"
                         /\ tx[u].pc = "event" => portal'[p].status = "ACTIVE"
                         /\ tx[u].pc = "commit" =>
                              /\ quote'[p] = "SENT"
                              /\ portal'[p].status = "ACTIVE"
                              /\ portal'[p].token = tx[u].token
    BY DEF ReadsHold, locks
  <2>1. CASE tx[u].quote = q
    BY <2>1, PortalAssumption DEF PortalInv, LocksMatch, ReadsHold
  <2>2. CASE tx[u].quote # q
    <3>1. tx[u].pc # "idle" => tx[u].quote \in Quote
      BY DEF PortalInv, Shapes, Shape, TypeOK, Transaction, Public, Staff
    <3> QED
      BY <2>2, <3>1 DEF PortalInv, ReadsHold
  <2> QED
    BY <2>1, <2>2
<1>3. TablesInv'
  BY WriterKeepsTables
<1> QED
  BY <1>1, <1>2, <1>3 DEF PortalInv, TablesInv

\* A transition by staff keeps the invariant.
LEMMA TransitionKeeps ==
  ASSUME PortalInv, NEW q \in Quote, NEW allowed \in SUBSET {"DRAFT", "SENT"},
         NEW target \in {"ACCEPTED", "REJECTED", "CANCELLED"},
         Transition(q, allowed, target)
  PROVE  PortalInv'
<1>1. /\ portal[q] \in PortalRow /\ quote[q] \in {"DRAFT", "SENT"}
      /\ q \in DOMAIN quote /\ q \in DOMAIN portal
      /\ converted \subseteq Quote /\ quoteLock[q] = None
      /\ portal[q].status = "ACTIVE" => portalLock[q] = None
      /\ UNCHANGED <<now, settings, expires, converted, issued, locks, tx>>
      /\ quote' = [quote EXCEPT ![q] = target]
      /\ portal' = [portal EXCEPT ![q] = Sync(@, target)]
  BY DEF Transition, PortalInv, TypeOK
<1>2. quote'[q] = target /\ portal'[q] = Sync(portal[q], target)
  BY <1>1
<1>3. /\ Sync(portal[q], target) \in PortalRow
      /\ portal[q].status # "ACTIVE" => Sync(portal[q], target) = portal[q]
      /\ portal[q].status = "ACTIVE" =>
           /\ Sync(portal[q], target).status =
                IF target = "CANCELLED" THEN "REVOKED" ELSE target
           /\ Sync(portal[q], target).source = "ADMIN"
  <2>1. portal[q].status = "ACTIVE" => portal[q].source = None
    BY EachQuoteGood DEF GoodAt
  <2>2. CASE portal[q].status = "ACTIVE"
    <3>1. Sync(portal[q], target) =
            Mark(portal[q], IF target = "CANCELLED" THEN "REVOKED" ELSE target, "ADMIN")
      BY <2>1, <2>2 DEF Sync
    <3>2. (IF target = "CANCELLED" THEN "REVOKED" ELSE target) \in PortalStatus
      BY DEF PortalStatus
    <3>3. "ADMIN" \in Source
      BY DEF Source
    <3> QED
      BY <1>1, <2>2, <3>1, <3>2, <3>3, MarkFields
  <2>3. CASE portal[q].status # "ACTIVE"
    BY <1>1, <2>3 DEF Sync
  <2> QED
    BY <2>2, <2>3
<1>4. TypeOK'
  BY <1>1, <1>3 DEF PortalInv, TypeOK, locks, QuoteStatus, Decided
<1>5. GoodAt(q)'
  <2>1. q \notin converted
    BY <1>1, EachQuoteGood DEF GoodAt
  <2>2. portal[q].status \in {"NONE", "ACTIVE", "REVOKED", "EXPIRED"}
    BY <1>1, EachQuoteGood DEF GoodAt, PortalRow, PortalStatus
  <2>3. CASE portal[q].status = "ACTIVE"
    BY <1>1, <1>2, <1>3, <2>1, <2>3 DEF GoodAt
  <2>4. CASE portal[q].status # "ACTIVE"
    BY <1>1, <1>2, <1>3, <2>1, <2>2, <2>4, EachQuoteGood DEF GoodAt
  <2> QED
    BY <2>3, <2>4
<1>6. portalLock[q] = None \/ portal'[q] = portal[q]
  BY <1>1, <1>2, <1>3
<1>7. \A p \in Quote \ {q} : quote'[p] = quote[p] /\ portal'[p] = portal[p]
  BY <1>1 DEF PortalInv, TypeOK
<1> QED
  BY <1>1, <1>4, <1>5, <1>6, <1>7, QuietKeeps

\* A conversion keeps the invariant.
LEMMA ConvertKeeps ==
  ASSUME PortalInv, NEW q \in Quote, Convert(q)
  PROVE  PortalInv'
<1>1. /\ quote[q] = "ACCEPTED" /\ quoteLock[q] = None
      /\ converted' = converted \cup {q} /\ converted \subseteq Quote
      /\ UNCHANGED <<now, settings, quote, expires, portal, issued, locks, tx>>
  BY DEF Convert, PortalInv, TypeOK
<1>2. TypeOK'
  BY <1>1 DEF PortalInv, TypeOK, locks
<1>3. GoodAt(q)'
  BY <1>1, EachQuoteGood DEF GoodAt
<1> QED
  BY <1>1, <1>2, <1>3, QuietKeeps

\* Create writes a row nobody can have locked; Update only its expiry.
LEMMA DraftKeeps ==
  ASSUME PortalInv, NEW q \in Quote, NEW e \in Time \cup {None},
         Create(q, e) \/ Update(q, e)
  PROVE  PortalInv'
<1>1. CASE Update(q, e)
  <2>1. /\ expires' = [expires EXCEPT ![q] = e]
        /\ UNCHANGED <<now, settings, quote, converted, portal, issued, locks, tx>>
    BY <1>1 DEF Update
  <2>2. TypeOK'
    BY <2>1 DEF PortalInv, TypeOK, locks
  <2> QED
    BY <2>1, <2>2
    DEF PortalInv, Shapes, LocksMatch, locks, ReadsHold, Undecided,
        ReservedIsAccepted, PortalFollowsQuote, AcceptedOnlineIsReserved
<1>2. CASE Create(q, e)
  <2>1. /\ quote[q] = "NONE" /\ quote' = [quote EXCEPT ![q] = "DRAFT"]
        /\ expires' = [expires EXCEPT ![q] = e] /\ converted \subseteq Quote
        /\ UNCHANGED <<now, settings, converted, portal, issued, locks, tx>>
    BY <1>2 DEF Create, PortalInv, TypeOK
  <2>2. TypeOK'
    BY <2>1 DEF PortalInv, TypeOK, locks, QuoteStatus
  <2>3. quote'[q] = "DRAFT" /\ \A p \in Quote \ {q} : quote'[p] = quote[p]
    BY <2>1 DEF PortalInv, TypeOK
  <2>4. GoodAt(q)'
    BY <2>1, <2>3, EachQuoteGood DEF GoodAt
  <2>5. TablesInv'
    BY <2>1, <2>3, <2>4, WriterKeepsTables
  <2>6. ReadsHold'
    <3> SUFFICES ASSUME NEW u \in Txn
                 PROVE  LET p == tx[u].quote
                        IN /\ tx[u].op = "send" /\ tx[u].pc = "portal" => quote'[p] = "DRAFT"
                           /\ tx[u].op = "reissue" /\ tx[u].pc = "portal" => quote'[p] = "SENT"
                           /\ tx[u].pc = "event" => portal'[p].status = "ACTIVE"
                           /\ tx[u].pc = "commit" =>
                                /\ quote'[p] = "SENT"
                                /\ portal'[p].status = "ACTIVE"
                                /\ portal'[p].token = tx[u].token
      BY <2>1 DEF ReadsHold
    <3>1. tx[u].pc # "idle" => tx[u].quote \in Quote
      BY DEF PortalInv, Shapes, Shape, TypeOK, Transaction, Public, Staff
    <3> QED
      BY <2>1, <2>3, <3>1 DEF PortalInv, ReadsHold
  <2> QED
    BY <2>1, <2>2, <2>5, <2>6 DEF PortalInv, TablesInv, Shapes, LocksMatch, locks
<1> QED
  BY <1>1, <1>2

-----------------------------------------------------------------------------
(* Statements that take a lock and go on *)

\* Connection t goes on to another statement; tables are left as they are.
LEMMA GoingOnKeeps ==
  ASSUME PortalInv, NEW t \in Txn, NEW x \in Transaction,
         tx' = [tx EXCEPT ![t] = x], UNCHANGED <<now, tables>>,
         settingsLock' \in Txn \cup {None},
         quoteLock' \in [Quote -> Txn \cup {None}],
         portalLock' \in [Quote -> Txn \cup {None}],
         Shape(x), LocksMatch',
         x.op = "send" /\ x.pc = "portal" => quote[x.quote] = "DRAFT",
         x.op = "reissue" /\ x.pc = "portal" => quote[x.quote] = "SENT",
         x.pc = "event" => portal[x.quote].status = "ACTIVE",
         x.pc = "commit" =>
           /\ quote[x.quote] = "SENT"
           /\ portal[x.quote].status = "ACTIVE"
           /\ portal[x.quote].token = x.token
  PROVE  PortalInv'
<1>1. tx'[t] = x /\ \A u \in Txn \ {t} : tx'[u] = tx[u]
  BY DEF PortalInv, TypeOK
<1>2. TypeOK'
  BY DEF PortalInv, TypeOK, tables
<1>3. Shapes'
  BY <1>1 DEF PortalInv, Shapes
<1>4. ReadsHold'
  BY <1>1 DEF PortalInv, ReadsHold, tables
<1>5. TablesInv'
  BY DEF PortalInv, tables, TablesInv, Undecided, ReservedIsAccepted,
         PortalFollowsQuote, AcceptedOnlineIsReserved
<1> QED
  BY <1>2, <1>3, <1>4, <1>5 DEF PortalInv, TablesInv

\* A transaction that begins keeps the invariant.
LEMMA BeginKeeps ==
  ASSUME PortalInv, NEW t \in Txn, NEW q \in Quote, NEW k \in Token,
         \/ \E op \in Staff : BeginIssue(t, op, q, k)
         \/ \E op \in Public : BeginPublic(t, op, q, k)
  PROVE  PortalInv'
<1> PICK op \in Staff \cup Public : BeginIssue(t, op, q, k) \/ BeginPublic(t, op, q, k)
  OBVIOUS
<1> DEFINE x == [op |-> op, pc |-> "quote", quote |-> q, token |-> k, due |-> 0]
<1>1. /\ tx[t] = Idle /\ tx' = [tx EXCEPT ![t] = x]
      /\ settingsLock' \in Txn \cup {None}
      /\ UNCHANGED <<now, tables, quoteLock, portalLock>>
  BY DEF BeginIssue, BeginPublic, locks, PortalInv, TypeOK
<1>2. x \in Transaction
  BY PortalAssumption DEF Transaction, Time
<1>3. Shape(x)
  BY PortalAssumption DEF Shape, Public, Staff
<1>4. x.pc = "quote"
  OBVIOUS
<1> HIDE DEF x
<1>5. tx'[t] = x /\ \A u \in Txn \ {t} : tx'[u] = tx[u]
  BY <1>1 DEF PortalInv, TypeOK
<1>6. LocksMatch'
  BY <1>1, <1>4, <1>5, IdleFields DEF PortalInv, LocksMatch
<1> QED
  BY <1>1, <1>2, <1>3, <1>4, <1>6, GoingOnKeeps DEF PortalInv, TypeOK

\* t takes the row lock of q: the lock table and the statements agree after.
LEMMA QuoteLockMatches ==
  ASSUME PortalInv, NEW t \in Txn, NEW q \in Quote, tx[t].quote = q,
         tx[t].pc = "quote", NEW x \in Transaction, x.quote = q, x.pc = "portal",
         tx' = [tx EXCEPT ![t] = x], quoteLock[q] = None,
         quoteLock' = [quoteLock EXCEPT ![q] = t], portalLock' = portalLock
  PROVE  LocksMatch' /\ quoteLock' \in [Quote -> Txn \cup {None}]
<1>1. tx'[t] = x /\ \A u \in Txn \ {t} : tx'[u] = tx[u]
  BY DEF PortalInv, TypeOK
<1>2. quoteLock'[q] = t /\ \A p \in Quote \ {q} : quoteLock'[p] = quoteLock[p]
  BY DEF PortalInv, TypeOK
<1>3. LocksMatch'
  BY <1>1, <1>2, PortalAssumption DEF PortalInv, LocksMatch
<1> QED
  BY <1>3 DEF PortalInv, TypeOK

\* Locking the quote to decide keeps the invariant.
LEMMA LockQuoteKeeps ==
  ASSUME PortalInv, NEW t \in Txn, LockQuote(t)
  PROVE  PortalInv'
<1>0. tx[t].quote \in Quote
  BY DEF LockQuote, PortalInv, Shapes, Shape, TypeOK, Transaction, Public
<1> PICK q \in Quote : q = tx[t].quote
  BY <1>0
<1> DEFINE y == [tx[t] EXCEPT !.pc = "portal"]
<1> PICK x : x = y
  OBVIOUS
<1>1. /\ tx[t] \in Transaction /\ tx[t].op \in Public /\ tx[t].pc = "quote"
      /\ Shape(tx[t]) /\ quoteLock[q] = None
      /\ quoteLock' = [quoteLock EXCEPT ![q] = t] /\ tx' = [tx EXCEPT ![t] = y]
      /\ UNCHANGED <<now, tables, settingsLock, portalLock>>
  BY DEF LockQuote, Advance, PortalInv, TypeOK, Shapes
<1>2. /\ y \in Transaction /\ y.op = tx[t].op /\ y.pc = "portal"
      /\ y.quote = tx[t].quote /\ y.token = tx[t].token
  BY <1>1 DEF Transaction
<1> HIDE DEF y
<1>3. Shape(x)
  BY <1>1, <1>2 DEF Shape, Public, Staff
<1>4. LocksMatch' /\ quoteLock' \in [Quote -> Txn \cup {None}]
  BY <1>1, <1>2, QuoteLockMatches
<1> QED
  BY <1>1, <1>2, <1>3, <1>4, GoingOnKeeps DEF PortalInv, TypeOK, Public

\* Locking the quote to issue a link keeps the invariant.
LEMMA LockQuoteToIssueKeeps ==
  ASSUME PortalInv, NEW t \in Txn, LockQuoteToIssue(t)
  PROVE  PortalInv'
<1>0. tx[t].quote \in Quote
  BY DEF LockQuoteToIssue, PortalInv, Shapes, Shape, TypeOK, Transaction, Staff
<1> PICK q \in Quote : q = tx[t].quote
  BY <1>0
<1>1. CASE Rollback(t)
  BY <1>1, RollbackKeeps
<1>2. CASE ~Rollback(t)
  <2> DEFINE y == [tx[t] EXCEPT !.pc = "portal", !.due = Due(q)]
  <2> PICK x : x = y
    OBVIOUS
  <2>1. /\ tx[t] \in Transaction /\ tx[t].op \in Staff /\ tx[t].pc = "quote"
        /\ Shape(tx[t]) /\ quoteLock[q] = None
        /\ quote[q] = (IF tx[t].op = "send" THEN "DRAFT" ELSE "SENT")
        /\ quoteLock' = [quoteLock EXCEPT ![q] = t]
        /\ tx' = [tx EXCEPT ![t].pc = "portal", ![t].due = Due(q)]
        /\ UNCHANGED <<now, tables, settingsLock, portalLock>>
    BY <1>2 DEF LockQuoteToIssue, PortalInv, TypeOK, Shapes
  <2>2. tx' = [tx EXCEPT ![t] = y]
    BY <2>1 DEF PortalInv, TypeOK
  <2>3. /\ y \in Transaction /\ y.op = tx[t].op /\ y.pc = "portal"
        /\ y.quote = tx[t].quote /\ y.token = tx[t].token
    BY <2>1, DueIsTime DEF Transaction, PortalInv
  <2> HIDE DEF y
  <2>4. Shape(x)
    BY <2>1, <2>3 DEF Shape, Public, Staff
  <2>5. LocksMatch' /\ quoteLock' \in [Quote -> Txn \cup {None}]
    BY <2>1, <2>2, <2>3, QuoteLockMatches
  <2> QED
    BY <2>1, <2>2, <2>3, <2>4, <2>5, GoingOnKeeps DEF PortalInv, TypeOK, Staff
<1> QED
  BY <1>1, <1>2

\* Locking the link to revoke it keeps the invariant.
LEMMA BeginRevokeKeeps ==
  ASSUME PortalInv, NEW t \in Txn, NEW q \in Quote, BeginRevoke(t, q)
  PROVE  PortalInv'
<1> DEFINE x == [op |-> "revoke", pc |-> "event", quote |-> q, token |-> None, due |-> 0]
<1>1. /\ tx[t] = Idle /\ portal[q].status = "ACTIVE" /\ portalLock[q] = None
      /\ portalLock' = [portalLock EXCEPT ![q] = t] /\ tx' = [tx EXCEPT ![t] = x]
      /\ UNCHANGED <<now, tables, settingsLock, quoteLock>>
  BY DEF BeginRevoke
<1>2. x \in Transaction /\ x.op = "revoke" /\ x.pc = "event" /\ x.quote = q
  BY PortalAssumption DEF Transaction, Time
<1> HIDE DEF x
<1>3. Shape(x)
  BY <1>2 DEF Shape, Public, Staff
<1>4. tx'[t] = x /\ \A u \in Txn \ {t} : tx'[u] = tx[u]
  BY <1>1 DEF PortalInv, TypeOK
<1>5. portalLock'[q] = t /\ \A p \in Quote \ {q} : portalLock'[p] = portalLock[p]
  BY <1>1 DEF PortalInv, TypeOK
<1>6. LocksMatch'
  BY <1>1, <1>2, <1>4, <1>5, IdleFields, PortalAssumption DEF PortalInv, LocksMatch
<1> QED
  BY <1>1, <1>2, <1>3, <1>6, GoingOnKeeps DEF PortalInv, TypeOK

\* Reading the quote and deciding keeps the invariant.
LEMMA DecideKeeps ==
  ASSUME PortalInv, NEW t \in Txn, Decide(t)
  PROVE  PortalInv'
<1>0. tx[t].quote \in Quote
  BY DEF Decide, OpenPortal, PortalInv, Shapes, Shape, TypeOK, Transaction, Public
<1> PICK q \in Quote : q = tx[t].quote
  BY <1>0
<1>1. CASE Rollback(t)
  BY <1>1, RollbackKeeps
<1>2. CASE Expire(q) /\ Finish(t)
  BY <1>2, ExpiryKeeps DEF Decide
<1>3. CASE ~Rollback(t) /\ ~(Expire(q) /\ Finish(t))
  <2> DEFINE y == [tx[t] EXCEPT !.pc = "commit"]
  <2> PICK x : x = y
    OBVIOUS
  <2>1. /\ tx[t] \in Transaction /\ tx[t].op \in {"accept", "reject"}
        /\ tx[t].pc = "portal" /\ Shape(tx[t])
        /\ portalLock[q] = None /\ quote[q] = "SENT"
        /\ portal[q].status = "ACTIVE" /\ portal[q].token = tx[t].token
        /\ portalLock' = [portalLock EXCEPT ![q] = t] /\ tx' = [tx EXCEPT ![t] = y]
        /\ UNCHANGED <<now, tables, settingsLock, quoteLock>>
    BY <1>3 DEF Decide, OpenPortal, Advance, PortalInv, TypeOK, Shapes
  <2>2. /\ y \in Transaction /\ y.op = tx[t].op /\ y.pc = "commit"
        /\ y.quote = tx[t].quote /\ y.token = tx[t].token
    BY <2>1 DEF Transaction
  <2> HIDE DEF y
  <2>3. Shape(x)
    BY <2>1, <2>2 DEF Shape, Public, Staff
  <2>4. tx'[t] = x /\ \A u \in Txn \ {t} : tx'[u] = tx[u]
    BY <2>1 DEF PortalInv, TypeOK
  <2>5. portalLock'[q] = t /\ \A p \in Quote \ {q} : portalLock'[p] = portalLock[p]
    BY <2>1 DEF PortalInv, TypeOK
  <2>6. LocksMatch'
    BY <2>1, <2>2, <2>4, <2>5, PortalAssumption DEF PortalInv, LocksMatch
  <2> QED
    BY <2>1, <2>2, <2>3, <2>6, GoingOnKeeps DEF PortalInv, TypeOK
<1> QED
  BY <1>1, <1>2, <1>3

-----------------------------------------------------------------------------
(* Every step *)

\* Every step of a transaction keeps the invariant.
LEMMA StepKeeps ==
  ASSUME PortalInv, NEW t \in Txn, Step(t)
  PROVE  PortalInv'
<1>1. CASE LockQuoteToIssue(t)
  BY <1>1, LockQuoteToIssueKeeps
<1>2. CASE CommitIssue(t)
  BY <1>2, CommitIssueKeeps
<1>3. CASE CommitRevoke(t)
  BY <1>3, CommitRevokeKeeps
<1>4. CASE LockQuote(t)
  BY <1>4, LockQuoteKeeps
<1>5. CASE TokenReplaced(t)
  BY <1>5, RollbackKeeps DEF TokenReplaced
<1>6. CASE View(t)
  BY <1>6, ExpiryKeeps, RollbackKeeps DEF View
<1>7. CASE Decide(t)
  BY <1>7, DecideKeeps
<1>8. CASE CommitDecision(t)
  BY <1>8, CommitDecisionKeeps
<1>9. CASE AcceptanceBlocked(t)
  BY <1>9, RollbackKeeps DEF AcceptanceBlocked
<1> QED
  BY <1>1, <1>2, <1>3, <1>4, <1>5, <1>6, <1>7, <1>8, <1>9 DEF Step

\* The clock, the settings, and nothing at all.
LEMMA IdleStepKeeps ==
  ASSUME PortalInv,
         \/ Tick
         \/ \E s \in Settings : UpdateSettings(s)
         \/ UNCHANGED vars
  PROVE  PortalInv'
<1>1. /\ UNCHANGED <<quote, expires, converted, portal, issued, locks, tx>>
      /\ now' \in 0 .. Horizon /\ settings' \in Settings
  BY PortalAssumption DEF Tick, UpdateSettings, vars, tables, PortalInv, TypeOK
<1> QED
  BY <1>1
  DEF PortalInv, TypeOK, locks, Shapes, LocksMatch, ReadsHold, Undecided,
      ReservedIsAccepted, PortalFollowsQuote, AcceptedOnlineIsReserved

\* Every step keeps the invariant.
LEMMA NextKeeps == PortalInv /\ [Next]_vars => PortalInv'
<1> SUFFICES ASSUME PortalInv, [Next]_vars PROVE PortalInv'
  OBVIOUS
<1>1. CASE Tick \/ (\E s \in Settings : UpdateSettings(s)) \/ UNCHANGED vars
  BY <1>1, IdleStepKeeps
<1>2. ASSUME NEW q \in Quote, NEW e \in Time \cup {None}, Create(q, e) \/ Update(q, e)
      PROVE PortalInv'
  BY <1>2, DraftKeeps
<1>3. ASSUME NEW q \in Quote, StaffAccept(q) \/ StaffReject(q) \/ Cancel(q)
      PROVE PortalInv'
  BY <1>3, TransitionKeeps DEF StaffAccept, StaffReject, Cancel
<1>4. ASSUME NEW q \in Quote, Convert(q) PROVE PortalInv'
  BY <1>4, ConvertKeeps
<1>5. ASSUME NEW t \in Txn, NEW q \in Quote, NEW k \in Token,
             \/ \E op \in Staff : BeginIssue(t, op, q, k)
             \/ \E op \in Public : BeginPublic(t, op, q, k)
      PROVE PortalInv'
  BY <1>5, BeginKeeps
<1>6. ASSUME NEW t \in Txn, NEW q \in Quote, BeginRevoke(t, q) PROVE PortalInv'
  BY <1>6, BeginRevokeKeeps
<1>7. ASSUME NEW t \in Txn, Step(t) PROVE PortalInv'
  BY <1>7, StepKeeps
<1>8. ASSUME NEW t \in Txn, Abort(t) \/ Victim(t) PROVE PortalInv'
  BY <1>8, RollbackKeeps DEF Abort, Victim
<1> QED
  BY <1>1, <1>2, <1>3, <1>4, <1>5, <1>6, <1>7, <1>8 DEF Next

-----------------------------------------------------------------------------
(* Theorems *)

\* In every reachable state each transaction holds the locks of its statement
\* and what it read under them is still so (the FOR UPDATE order of the
\* repository: settings, quote, portal).
THEOREM PortalInductive == Spec => []PortalInv
BY InitPortalInv, NextKeeps, PTL DEF Spec

\* Quotes, portals, locks and transactions stay within their types (the CHECK
\* constraints of migration 009).
THEOREM PortalTypes == Spec => []TypeOK
<1>1. PortalInv => TypeOK
  BY DEF PortalInv
<1> QED
  BY <1>1, PortalInductive, PTL

\* The customer's page and the back office never contradict each other, for
\* any number of quotes, links and connections (lock order and trigger).
THEOREM PageFollowsQuote == Spec => []PortalFollowsQuote
<1>1. PortalInv => PortalFollowsQuote
  BY DEF PortalInv
<1> QED
  BY <1>1, PortalInductive, PTL

\* What a customer accepted online has its reservation (Accept and
\* CreateFromQuoteTx commit together).
THEOREM OnlineAcceptance == Spec => []AcceptedOnlineIsReserved
<1>1. PortalInv => AcceptedOnlineIsReserved
  BY DEF PortalInv
<1> QED
  BY <1>1, PortalInductive, PTL

\* Requests that wait in a circle include a Revoke, the one transaction that takes
\* the portal row before the quote row, and another that waits for it and for
\* which it waits: whoever holds a quote and waits, waits for its portal.
THEOREM DeadlocksRevoke == Spec => []OnlyRevokeDeadlocks
<1>1. PortalInv => OnlyRevokeDeadlocks
  <2> SUFFICES ASSUME PortalInv, NEW C \in SUBSET Txn, C # {},
                      \A t \in C : \E u \in C : WaitsFor(t, u)
               PROVE  \E t, u \in C : tx[t].op = "revoke" /\ WaitsFor(t, u) /\ WaitsFor(u, t)
    BY DEF OnlyRevokeDeadlocks
  <2>1. \A v \in Txn : /\ tx[v].pc = "event" => tx[v].op = "revoke"
                       /\ tx[v].pc # "idle" => tx[v].quote \in Quote
    BY DEF PortalInv, Shapes, Shape, TypeOK, Transaction, Public, Staff
  <2>2. ASSUME NEW t \in C
        PROVE  \/ tx[t].pc \in {"quote", "event"} /\ \E u \in C : quoteLock[tx[t].quote] = u
               \/ tx[t].pc = "portal" /\ \E u \in C : portalLock[tx[t].quote] = u
    BY DEF WaitsFor
  <2>3. ASSUME NEW t \in C, tx[t].pc = "portal"
        PROVE  \E u \in C : tx[u].op = "revoke" /\ WaitsFor(u, t) /\ WaitsFor(t, u)
    <3>1. PICK u \in C : portalLock[tx[t].quote] = u
      BY <2>2, <2>3
    <3>2. tx[u].pc \in {"commit", "event"} /\ tx[u].quote = tx[t].quote
      BY <2>1, <2>3, <3>1 DEF PortalInv, LocksMatch
    <3>3. tx[u].pc = "event"
      BY <2>2, <3>2
    <3>4. quoteLock[tx[u].quote] = t
      BY <2>1, <2>3, <3>2 DEF PortalInv, LocksMatch
    <3> QED BY <2>1, <2>3, <3>1, <3>3, <3>4 DEF WaitsFor
  <2>4. PICK t \in C : tx[t].pc = "portal"
    <3>1. PICK t \in C : TRUE
      OBVIOUS
    <3>2. CASE tx[t].pc \in {"quote", "event"}
      <4>1. PICK u \in C : quoteLock[tx[t].quote] = u
        BY <2>2, <3>2
      <4>2. tx[u].pc \in {"portal", "commit"}
        BY <2>1, <3>2, <4>1 DEF PortalInv, LocksMatch
      <4> QED BY <2>2, <4>2
    <3> QED BY <2>2, <3>2
  <2> QED BY <2>3, <2>4
<1> QED
  BY <1>1, PortalInductive, PTL

-----------------------------------------------------------------------------
(* What a step does to the quote and to its portal *)

\* The steps that write tables, told by what they write.
Silent ==
  \/ UNCHANGED <<quote, portal, converted>>
  \/ \E q \in Quote :
       /\ quote[q] = "NONE" /\ quote' = [quote EXCEPT ![q] = "DRAFT"]
       /\ UNCHANGED <<portal, converted>>
  \/ \E q \in Quote : Convert(q)

\* An error return changes nothing anybody sees.
LEMMA RollbackSilent == \A t \in Txn : Rollback(t) => Silent
BY DEF Rollback, Silent, tables

\* Every step is silent, or is one of the writers.
LEMMA StepWrites ==
  ASSUME PortalInv, [Next]_vars
  PROVE  \/ Silent
         \/ \E q \in Quote : StaffAccept(q) \/ StaffReject(q) \/ Cancel(q)
         \/ \E t \in Txn : \/ CommitIssue(t)
                           \/ CommitRevoke(t)
                           \/ CommitDecision(t)
                           \/ OpenPortal(t) /\ Expire(tx[t].quote) /\ Finish(t)
<1>1. CASE Tick \/ (\E s \in Settings : UpdateSettings(s)) \/ UNCHANGED vars
  BY <1>1 DEF Tick, UpdateSettings, vars, tables, Silent
<1>2. ASSUME NEW q \in Quote, NEW e \in Time \cup {None}, Create(q, e) \/ Update(q, e)
      PROVE Silent
  BY <1>2 DEF Create, Update, Silent
<1>3. ASSUME NEW t \in Txn, NEW q \in Quote, NEW k \in Token,
             \/ \E op \in Staff : BeginIssue(t, op, q, k)
             \/ \E op \in Public : BeginPublic(t, op, q, k)
      PROVE Silent
  BY <1>3 DEF BeginIssue, BeginPublic, tables, Silent
<1>4. ASSUME NEW t \in Txn, NEW q \in Quote, BeginRevoke(t, q) PROVE Silent
  BY <1>4 DEF BeginRevoke, tables, Silent
<1>5. ASSUME NEW t \in Txn, Abort(t) \/ Victim(t) PROVE Silent
  BY <1>5, RollbackSilent DEF Abort, Victim
<1>6. ASSUME NEW t \in Txn, Step(t)
      PROVE  \/ Silent
             \/ CommitIssue(t) \/ CommitRevoke(t) \/ CommitDecision(t)
             \/ OpenPortal(t) /\ Expire(tx[t].quote) /\ Finish(t)
  <2>1. CASE LockQuoteToIssue(t) \/ LockQuote(t)
    BY <2>1, RollbackSilent DEF LockQuoteToIssue, LockQuote, tables, Silent
  <2>2. CASE TokenReplaced(t) \/ AcceptanceBlocked(t)
    BY <2>2, RollbackSilent DEF TokenReplaced, AcceptanceBlocked
  <2>3. CASE View(t)
    BY <2>3, RollbackSilent DEF View
  <2>4. CASE Decide(t)
    BY <2>4, RollbackSilent DEF Decide, tables, Silent
  <2> QED
    BY <1>6, <2>1, <2>2, <2>3, <2>4 DEF Step
<1>7. ASSUME NEW q \in Quote, Convert(q) PROVE Silent
  BY <1>7 DEF Silent
<1> QED
  BY <1>1, <1>2, <1>3, <1>4, <1>5, <1>6, <1>7 DEF Next

\* Only the newest link decides: the decision is made with the token that opens
\* the portal at that moment (lockDecisionPortal looks it up under the locks).
THEOREM NewestLinkDecides == Spec => CurrentTokenDecides
<1> DEFINE A == \A q \in Quote :
                  portal'[q].source = "CUSTOMER" /\ portal[q].source # "CUSTOMER" =>
                    \E t \in Txn : /\ tx[t].quote = q /\ tx'[t] = Idle
                                   /\ tx[t].token = portal[q].token
<1>1. PortalInv /\ [Next]_vars => A
  <2> SUFFICES ASSUME PortalInv, [Next]_vars, NEW q \in Quote,
                      portal'[q].source = "CUSTOMER", portal[q].source # "CUSTOMER"
               PROVE  \E t \in Txn : /\ tx[t].quote = q /\ tx'[t] = Idle
                                     /\ tx[t].token = portal[q].token
    OBVIOUS
  <2>0. /\ portal[q] \in PortalRow /\ q \in DOMAIN portal
        /\ None # "CUSTOMER"
    BY PortalAssumption DEF PortalInv, TypeOK
  <2>1. CASE Silent
    BY <2>1 DEF Silent, Convert
  <2>2. ASSUME NEW p \in Quote, NEW target, portal' = [portal EXCEPT ![p] = Sync(@, target)]
        PROVE  FALSE
    <3>1. p = q
      BY <2>0, <2>2
    <3>2. portal'[q] = Sync(portal[q], target)
      BY <2>0, <2>2, <3>1
    <3>3. \A status, source : Mark(portal[q], status, source).source = source
      BY <2>0 DEF Mark, PortalRow
    <3> QED
      BY <2>0, <3>2, <3>3 DEF Sync
  <2>3. ASSUME NEW p \in Quote, NEW status, NEW source \in {"ADMIN", "SYSTEM", portal[q].source},
               portal' = [portal EXCEPT ![p] = Mark(@, status, source)]
        PROVE  FALSE
    <3>1. p = q /\ portal'[q] = Mark(portal[q], status, source)
      BY <2>0, <2>3
    <3>2. Mark(portal[q], status, source).source = source
      BY <2>0 DEF Mark, PortalRow
    <3> QED
      BY <3>1, <3>2
  <2>4. ASSUME NEW t \in Txn, CommitIssue(t) PROVE FALSE
    <3>1. tx[t].quote \in Quote
      BY <2>4 DEF CommitIssue, PortalInv, Shapes, Shape, Staff
    <3> PICK p \in Quote : p = tx[t].quote
      BY <3>1
    <3>2. portal'[q].source \in {None, portal[q].source}
      BY <2>0, <2>4 DEF CommitIssue
    <3> QED
      BY <2>0, <3>2
  <2>5. ASSUME NEW t \in Txn, CommitRevoke(t) PROVE FALSE
    <3>1. tx[t].quote \in Quote
      BY <2>5 DEF CommitRevoke, PortalInv, Shapes, Shape, TypeOK, Transaction, Public, Staff
    <3> QED
      BY <2>3, <2>5, <3>1 DEF CommitRevoke
  <2>6. ASSUME NEW t \in Txn, OpenPortal(t), Expire(tx[t].quote) PROVE FALSE
    <3>1. tx[t].quote \in Quote
      BY <2>6 DEF OpenPortal, PortalInv, Shapes, Shape, TypeOK, Transaction, Public
    <3> PICK p \in Quote : p = tx[t].quote
      BY <3>1
    <3> PICK source : source = (IF portal[p].source = None THEN "SYSTEM" ELSE portal[p].source)
      OBVIOUS
    <3>2. portal' = [portal EXCEPT ![p] = Mark(@, "EXPIRED", source)]
      BY <2>6 DEF Expire
    <3>3. p = q
      BY <2>0, <3>2
    <3> QED
      BY <2>3, <3>2, <3>3
  <2>7. ASSUME NEW t \in Txn, CommitDecision(t)
        PROVE  tx[t].quote = q /\ tx'[t] = Idle /\ tx[t].token = portal[q].token
    <3>1. tx[t].quote \in Quote
      BY <2>7 DEF CommitDecision, PortalInv, Shapes, Shape, TypeOK, Transaction, Public, Staff
    <3>2. tx[t].quote = q
      BY <2>0, <2>7 DEF CommitDecision
    <3> QED
      BY <2>7, <3>2, FinishFacts DEF CommitDecision, PortalInv, ReadsHold
  <2> QED
    BY <2>1, <2>2, <2>4, <2>5, <2>6, <2>7, StepWrites
    DEF StaffAccept, StaffReject, Cancel, Transition
<1> QED
  BY <1>1, PortalInductive, PTL DEF Spec, CurrentTokenDecides

-----------------------------------------------------------------------------
(* Implementation of the abstract offer *)

\* The initial tables are initial offers.
LEMMA OfferInit == Init => Offers!Init
BY DEF Init, Offers!Init

\* Every step is a step of the abstract offer, or stutters.
LEMMA OfferStep == PortalInv /\ [Next]_vars => [Offers!Next]_<<quote, converted>>
<1> SUFFICES ASSUME PortalInv, [Next]_vars
             PROVE  (\E q \in Quote :
                       \/ Offers!Draft(q) \/ Offers!Send(q) \/ Offers!Withdraw(q)
                       \/ \E d \in {"ACCEPTED", "REJECTED", "EXPIRED"} : Offers!Close(q, d)
                       \/ Offers!AcceptAndReserve(q) \/ Offers!Reserve(q))
                    \/ UNCHANGED <<quote, converted>>
  BY DEF Offers!Next
<1>1. CASE Silent
  BY <1>1 DEF Silent, Convert, Offers!Draft, Offers!Reserve
<1>2. ASSUME NEW q \in Quote, StaffAccept(q) \/ StaffReject(q) \/ Cancel(q)
      PROVE  Offers!Withdraw(q) \/ \E d \in {"ACCEPTED", "REJECTED"} : Offers!Close(q, d)
  BY <1>2 DEF StaffAccept, StaffReject, Cancel, Transition, Offers!Withdraw, Offers!Close
<1>3. ASSUME NEW t \in Txn, CommitIssue(t)
      PROVE  (\E q \in Quote : Offers!Send(q)) \/ UNCHANGED <<quote, converted>>
  <2>1. tx[t].quote \in Quote
    BY <1>3 DEF CommitIssue, PortalInv, Shapes, Shape, Staff
  <2> PICK q \in Quote : q = tx[t].quote
    BY <2>1
  <2>2. quote[q] \in {"DRAFT", "SENT"}
    BY <1>3 DEF CommitIssue, PortalInv, ReadsHold, Staff
  <2>3. quote' = [quote EXCEPT ![q] = "SENT"] /\ converted' = converted
    BY <1>3 DEF CommitIssue
  <2>4. CASE quote[q] = "DRAFT"
    BY <2>3, <2>4 DEF Offers!Send
  <2>5. CASE quote[q] = "SENT"
    BY <2>3, <2>5 DEF PortalInv, TypeOK
  <2> QED
    BY <2>2, <2>4, <2>5
<1>4. ASSUME NEW t \in Txn, CommitRevoke(t) PROVE UNCHANGED <<quote, converted>>
  BY <1>4 DEF CommitRevoke
<1>5. ASSUME NEW t \in Txn, CommitDecision(t)
      PROVE  \E q \in Quote : Offers!AcceptAndReserve(q) \/ Offers!Close(q, "REJECTED")
  <2>1. tx[t].quote \in Quote
    BY <1>5 DEF CommitDecision, PortalInv, Shapes, Shape, TypeOK, Transaction, Public, Staff
  <2>2. quote[tx[t].quote] = "SENT"
    BY <1>5 DEF CommitDecision, PortalInv, ReadsHold
  <2> QED
    BY <1>5, <2>1, <2>2 DEF CommitDecision, Verdict, Offers!AcceptAndReserve, Offers!Close
<1>6. ASSUME NEW t \in Txn, OpenPortal(t), Expire(tx[t].quote)
      PROVE  \/ \E q \in Quote : Offers!Close(q, "EXPIRED")
             \/ UNCHANGED <<quote, converted>>
  <2>1. tx[t].quote \in Quote
    BY <1>6 DEF OpenPortal, PortalInv, Shapes, Shape, TypeOK, Transaction, Public
  <2> PICK q \in Quote : q = tx[t].quote
    BY <2>1
  <2>2. /\ quote' = [quote EXCEPT ![q] = IF @ = "SENT" THEN "EXPIRED" ELSE @]
        /\ converted' = converted
    BY <1>6 DEF Expire
  <2>3. CASE quote[q] = "SENT"
    BY <2>2, <2>3 DEF Offers!Close
  <2>4. CASE quote[q] # "SENT"
    BY <2>2, <2>4 DEF PortalInv, TypeOK
  <2> QED
    BY <2>3, <2>4
<1> QED
  BY <1>1, <1>2, <1>3, <1>4, <1>5, <1>6, StepWrites

\* The locked transactions implement the offer that is drafted, sent and
\* decided once by single steps, and reserved only when accepted.
THEOREM OfferImplemented == Spec => ImplementsOffer
BY OfferInit, OfferStep, PortalInductive, PTL DEF Spec, ImplementsOffer, Offers!Spec
=============================================================================
