--------------------------------- MODULE Inbox ---------------------------------
(***************************************************************************)
(* One conversation of the assistant's inbox, on whichever channel it      *)
(* began: assistant/repository.go, meta_repository.go and                  *)
(* webchat_repository.go for what staff do and what WhatsApp's webhook     *)
(* brings, webchat/service.go, repository.go and message_repository.go for *)
(* the public chat.                                                        *)
(*                                                                         *)
(* A request is one step where the lock of the conversation covers it, and *)
(* several where it reads before it locks, waits for Meta, or holds one    *)
(* lock while it waits for another.                                        *)
(***************************************************************************)
EXTENDS Naturals, FiniteSets

CONSTANTS
  Message,      \* the customer's messages, by the identifier their sender gave them
  Kind,         \* what a message says: "text", "stop" or "start"
  MaxReplies,   \* a bound on the outbound rows of assistant_messages
  MaxSends,     \* a bound on the messages handed to Meta
  MaxPerHour,   \* MaximumMessagesPerHour
  Txn,          \* requests being served
  None

ASSUME InboxAssumption ==
  /\ Kind \in [Message -> {"text", "stop", "start"}]
  /\ MaxReplies \in Nat \ {0} /\ MaxSends \in Nat /\ MaxPerHour \in Nat \ {0}
  /\ None \notin Message \cup Txn

VARIABLES
  channel,      \* assistant_conversations.channel, chosen by the first contact
  conv,         \* its status and consent_status
  session,      \* assistant_web_chat_sessions, and whether its seven days are over
  site,         \* public_catalog_settings: the chat is switched on
  said,         \* what the customer has sent through WhatsApp
  inbound,      \* inbound rows of assistant_messages
  out,          \* outbound rows, in the order of their creation
  acked,        \* web chat messages whose sender was told that they arrived
  meta,         \* what became of each message handed to Meta
  reported,     \* the delivery statuses Meta has sent, to arrive any number of times
  proposal,     \* assistant_proposals, with the quote made of it
  quotes,       \* how many quotes approvals have made
  lock,         \* who holds the row locks
  tx            \* the requests under way

data == <<conv, session, site, inbound, out, proposal, quotes>>
world == <<channel, said, acked, meta, reported>>
vars == <<data, world, lock, tx>>

Reply == 1 .. MaxReplies
Sent == 1 .. MaxSends
Row == {"conversation", "session", "proposal"}
NoReply == [status |-> "NONE", source |-> None, sent |-> 0]
NoRequest == [op |-> "idle", pc |-> "idle", message |-> None, reply |-> 0, sent |-> 0, stale |-> {}]

Init ==
  /\ channel \in {"DEMO", "WHATSAPP", "WEB_CHAT"}
  /\ conv = [status |-> "NONE", consent |-> "UNKNOWN"]
  /\ session = [status |-> "NONE", expired |-> FALSE]
  /\ site = TRUE /\ said = {} /\ inbound = {} /\ acked = {}
  /\ out = [r \in Reply |-> NoReply]
  /\ meta = [x \in Sent |-> "none"] /\ reported = {}
  /\ proposal = [status |-> "NONE", quote |-> 0] /\ quotes = 0
  /\ lock = [row \in Row |-> None]
  /\ tx = [t \in Txn |-> NoRequest]

-----------------------------------------------------------------------------
(* Requests and rows *)

Free(row) == lock[row] = None
Begin(t, request) == tx[t] = NoRequest /\ tx' = [tx EXCEPT ![t] = request]
At(t, op, pc) == tx[t].op = op /\ tx[t].pc = pc
Go(t, pc) == tx' = [tx EXCEPT ![t].pc = pc]
Unlocked(t) == [row \in Row |-> IF lock[row] = t THEN None ELSE lock[row]]
Finish(t) == tx' = [tx EXCEPT ![t] = NoRequest] /\ lock' = Unlocked(t)
Rollback(t) == Finish(t) /\ UNCHANGED <<data, world>>

Waiting == {r \in Reply : out[r].status \in {"DRAFT", "APPROVED"}}

\* The next outbound row, with the given fields.
NewReply(rows, status, source, sent) ==
  LET r == CHOOSE r \in Reply : rows[r].status = "NONE" /\ \A s \in Reply : s < r => rows[s].status # "NONE"
  IN  [rows EXCEPT ![r] = [status |-> status, source |-> source, sent |-> sent]]
Room == out[MaxReplies].status = "NONE"

-----------------------------------------------------------------------------
(* Simulated conversations *)

\* Simulate: a conversation, its proposal and the draft of an answer.
CreateDemo ==
  /\ channel = "DEMO" /\ conv.status = "NONE" /\ Room
  /\ conv' = [status |-> "HUMAN_REVIEW", consent |-> "DEMO"]
  /\ proposal' = [status |-> "PROPOSED", quote |-> 0]
  /\ out' = NewReply(out, "DRAFT", None, 0)
  /\ UNCHANGED <<session, site, inbound, quotes, world, lock, tx>>

ReceiveDemo ==
  /\ channel = "DEMO" /\ conv.status # "NONE" /\ Free("conversation") /\ Room
  /\ out' = NewReply(out, "DRAFT", None, 0)
  /\ conv' = [conv EXCEPT !.status = "HUMAN_REVIEW"]
  /\ UNCHANGED <<session, site, inbound, proposal, quotes, world, lock, tx>>

\* Sends a waiting row, or (r = 0) a new one.
Publish(r) == IF r = 0 THEN NewReply(out, "SENT", None, 0) ELSE [out EXCEPT ![r].status = "SENT"]

StatusWhenSent == IF proposal.quote # 0 THEN "QUOTE_DRAFTED" ELSE "OPEN"

SendDemo(r) ==
  /\ channel = "DEMO" /\ conv.status # "NONE" /\ Free("conversation")
  /\ r \in Waiting \/ (r = 0 /\ Room)
  /\ out' = Publish(r)
  /\ conv' = [conv EXCEPT !.status = StatusWhenSent]
  /\ UNCHANGED <<session, site, inbound, proposal, quotes, world, lock, tx>>

\* ShareQuoteDemo: the link is issued by the portal; here, the row that records it.
RecordQuoteShared ==
  /\ channel = "DEMO" /\ proposal.quote # 0 /\ Free("conversation") /\ Room
  /\ out' = NewReply(out, "SENT", None, 0)
  /\ conv' = [conv EXCEPT !.status = "QUOTE_DRAFTED"]
  /\ UNCHANGED <<session, site, inbound, proposal, quotes, world, lock, tx>>

\* Approve: the proposal is read, and a draft quote made of its package by a
\* transaction of the quote service; the number is the quote's.
BeginApprove(t) ==
  /\ proposal.status = "PROPOSED"
  /\ quotes < Cardinality(Txn)                          \* a bound
  /\ quotes' = quotes + 1
  /\ Begin(t, [NoRequest EXCEPT !.op = "approve", !.pc = "proposal", !.sent = quotes + 1])
  /\ UNCHANGED <<conv, session, site, inbound, out, proposal, world, lock>>

\* UPDATE of the proposal; one that is no longer open leaves the quote by itself.
ApproveProposal(t) ==
  /\ At(t, "approve", "proposal") /\ Free("proposal")
  /\ IF proposal.status = "PROPOSED"
     THEN /\ Go(t, "commit") /\ lock' = [lock EXCEPT !["proposal"] = t]
          /\ UNCHANGED <<data, world>>
     ELSE Rollback(t)

CommitApprove(t) ==
  /\ At(t, "approve", "commit") /\ Free("conversation")
  /\ proposal' = [status |-> "QUOTE_CREATED", quote |-> tx[t].sent]
  /\ conv' = [conv EXCEPT !.status = "QUOTE_DRAFTED"]
  /\ LET drafts == {r \in Reply : out[r].status = "DRAFT"}
     IN  out' = [r \in Reply |-> IF r \in drafts /\ \A s \in drafts : s <= r
                                 THEN [out[r] EXCEPT !.status = "APPROVED"] ELSE out[r]]
  /\ Finish(t)
  /\ UNCHANGED <<session, site, inbound, quotes, world>>

-----------------------------------------------------------------------------
(* WhatsApp *)

\* The customer writes; Meta will deliver it, late and more than once perhaps.
Say(m) ==
  /\ channel = "WHATSAPP" /\ m \notin said
  /\ said' = said \cup {m}
  /\ UNCHANGED <<data, channel, acked, meta, reported, lock, tx>>

\* ClassifyConsent
Asked(m) == CASE Kind[m] = "stop" -> "OPTED_OUT" [] Kind[m] = "start" -> "OPTED_IN" [] OTHER -> "UNKNOWN"

\* The conversation after the upsert of applyMetaInbound.
Upserted(m) ==
  [consent |-> IF Asked(m) = "UNKNOWN" THEN conv.consent ELSE Asked(m),
   status |-> CASE Asked(m) = "OPTED_OUT" -> "CLOSED"
                [] Asked(m) = "OPTED_IN" \/ (Asked(m) = "UNKNOWN" /\ conv.status = "NONE") -> "HUMAN_REVIEW"
                [] OTHER -> conv.status]

\* Mutant of ApplyMetaInbound: a message that is there already is answered again.
ApplyMetaInboundTwice(m) ==
  /\ m \in said /\ Free("conversation") /\ Room
  /\ inbound' = inbound \cup {m}
  /\ out' = IF Upserted(m).consent = "OPTED_OUT" THEN out ELSE NewReply(out, "DRAFT", m, 0)
  /\ conv' = [Upserted(m) EXCEPT !.status = IF Upserted(m).consent = "OPTED_OUT" THEN "CLOSED"
                                            ELSE "HUMAN_REVIEW"]
  /\ UNCHANGED <<session, site, proposal, quotes, world, lock, tx>>

\* The upsert commits even where the message is a duplicate.
ApplyMetaInbound(m) ==
  /\ m \in said /\ Free("conversation") /\ Room
  /\ IF m \in inbound
     THEN conv' = Upserted(m) /\ UNCHANGED <<inbound, out>>
     ELSE /\ inbound' = inbound \cup {m}
          /\ out' = IF Upserted(m).consent = "OPTED_OUT" THEN out ELSE NewReply(out, "DRAFT", m, 0)
          /\ conv' = [Upserted(m) EXCEPT !.status = IF Upserted(m).consent = "OPTED_OUT" THEN "CLOSED"
                                                    ELSE "HUMAN_REVIEW"]
  /\ UNCHANGED <<session, site, proposal, quotes, world, lock, tx>>

\* Send: consent is read; the row is the one the user saw waiting.
BeginSend(t, r) ==
  /\ channel = "WHATSAPP" /\ conv.status # "NONE" /\ conv.consent # "OPTED_OUT"
  /\ r \in Waiting \cup {0}
  /\ Begin(t, [NoRequest EXCEPT !.op = "send", !.pc = "deliver", !.reply = r])
  /\ UNCHANGED <<data, world, lock>>

\* Meta takes the message and gives it an identifier.
SendText(t) ==
  /\ At(t, "send", "deliver")
  /\ \E x \in Sent :
       /\ meta[x] = "none" /\ \A y \in Sent : y < x => meta[y] # "none"
       /\ meta' = [meta EXCEPT ![x] = "sent"]
       /\ tx' = [tx EXCEPT ![t].pc = "record", ![t].sent = x]
  /\ UNCHANGED <<data, channel, said, acked, reported, lock>>

\* A row that somebody else has sent meanwhile: ErrMessageNotReady.
RecordWhatsAppSent(t) ==
  /\ At(t, "send", "record") /\ Free("conversation")
  /\ \/ /\ tx[t].reply \in Waiting \/ (tx[t].reply = 0 /\ Room)
        /\ out' = IF tx[t].reply = 0 THEN NewReply(out, "SENT", None, tx[t].sent)
                  ELSE [out EXCEPT ![tx[t].reply].status = "SENT", ![tx[t].reply].sent = tx[t].sent]
        /\ conv' = [conv EXCEPT !.status = IF @ = "HUMAN_REVIEW" THEN "OPEN" ELSE @]
        /\ Finish(t) /\ UNCHANGED <<session, site, inbound, proposal, quotes, world>>
     \/ tx[t].reply \notin Waiting \cup {0} /\ Rollback(t)

\* Meta delivers, shows or gives up a message, and reports each.
Progress(x, status) ==
  /\ <<meta[x], status>> \in {<<"sent", "sent">>, <<"sent", "delivered">>, <<"delivered", "read">>,
                              <<"sent", "failed">>, <<"delivered", "failed">>}
  /\ meta' = [meta EXCEPT ![x] = status]
  /\ reported' = reported \cup {<<x, status>>}
  /\ UNCHANGED <<data, channel, said, acked, lock, tx>>

\* NormalizeDeliveryStatus
Normalized(status) ==
  CASE status = "sent" -> "SENT" [] status = "delivered" -> "DELIVERED"
    [] status = "read" -> "READ" [] status = "failed" -> "FAILED"

\* Mutant of Later: the last report to arrive counts.
LaterArrived(old, new) == new

\* The status kept where a row has one and another is reported.
Later(old, new) ==
  CASE old = "READ" -> "READ"
    [] old = "DELIVERED" /\ new = "SENT" -> "DELIVERED"
    [] old = "FAILED" -> "FAILED"
    [] OTHER -> new

\* A report of a message that is not recorded yet changes no row.
ApplyMetaStatus(x, status) ==
  /\ <<x, status>> \in reported
  /\ \E r \in Reply :
       /\ out[r].sent = x
       /\ out' = [out EXCEPT ![r].status = Later(@, Normalized(status))]
  /\ UNCHANGED <<conv, session, site, inbound, proposal, quotes, world, lock, tx>>

-----------------------------------------------------------------------------
(* The public chat *)

\* The settings of the public site.
SwitchSite ==
  /\ channel = "WEB_CHAT" /\ site' = ~ site
  /\ UNCHANGED <<conv, session, inbound, out, proposal, quotes, world, lock, tx>>

\* CreateSession: conversation, session, first message and its draft.
CreateSession(m) ==
  /\ channel = "WEB_CHAT" /\ session.status = "NONE" /\ site /\ Room
  /\ conv' = [status |-> "HUMAN_REVIEW", consent |-> "OPTED_IN"]
  /\ session' = [session EXCEPT !.status = "ACTIVE"]
  /\ inbound' = {m} /\ acked' = {m}
  /\ out' = NewReply(out, "DRAFT", m, 0)
  /\ UNCHANGED <<site, proposal, quotes, channel, said, meta, reported, lock, tx>>

Expire ==
  /\ session.status = "ACTIVE" /\ ~ session.expired
  /\ session' = [session EXCEPT !.expired = TRUE]
  /\ UNCHANGED <<conv, site, inbound, out, proposal, quotes, world, lock, tx>>

\* GetSession closes a session it finds expired.
GetSession ==
  /\ session.status = "ACTIVE" /\ session.expired /\ site /\ Free("session")
  /\ session' = [session EXCEPT !.status = "CLOSED"]
  /\ UNCHANGED <<conv, site, inbound, out, proposal, quotes, world, lock, tx>>

\* SendMessage up to the draft of the answer: what PrepareInboundDraft refuses
\* is answered with an error.
BeginMessage(t, m) ==
  /\ session.status = "ACTIVE" /\ ~ session.expired /\ site
  /\ m \in inbound \/ Cardinality(inbound) < MaxPerHour
  /\ Begin(t, [NoRequest EXCEPT !.op = "message", !.pc = "session", !.message = m])
  /\ UNCHANGED <<data, world, lock>>

\* The answer to SendMessage is a success from here on: the error of
\* AddInboundMessage is assigned and not returned.
Answer(t) ==
  /\ acked' = acked \cup {tx[t].message}
  /\ Finish(t)
  /\ UNCHANGED <<channel, said, meta, reported>>

\* Mutant of LockSession: the limit was checked before the draft was made.
LockSessionUncounted(t) ==
  /\ At(t, "message", "session") /\ Free("session")
  /\ IF site /\ session.status = "ACTIVE" /\ tx[t].message \notin inbound
     THEN /\ Go(t, "commit") /\ lock' = [lock EXCEPT !["session"] = t]
          /\ UNCHANGED <<data, world>>
     ELSE Answer(t) /\ UNCHANGED data

\* FOR UPDATE OF session, and the checks behind it: the session, whether the
\* message is a duplicate, the messages of the last hour.
LockSession(t) ==
  /\ At(t, "message", "session") /\ Free("session")
  /\ IF site /\ session.status = "ACTIVE" /\ tx[t].message \notin inbound
        /\ Cardinality(inbound) < MaxPerHour
     THEN /\ Go(t, "commit") /\ lock' = [lock EXCEPT !["session"] = t]
          /\ UNCHANGED <<data, world>>
     ELSE Answer(t) /\ UNCHANGED data

\* The message, the draft, and the conversation under review.
CommitMessage(t) ==
  /\ At(t, "message", "commit") /\ Free("conversation") /\ Room
  /\ inbound' = inbound \cup {tx[t].message}
  /\ out' = NewReply(out, "DRAFT", tx[t].message, 0)
  /\ conv' = [conv EXCEPT !.status = "HUMAN_REVIEW"]
  /\ Answer(t)
  /\ UNCHANGED <<session, site, proposal, quotes>>

\* A statement of AddInboundMessage fails: rolled back, and answered the same.
FailMessage(t) ==
  /\ tx[t].op = "message"
  /\ Answer(t) /\ UNCHANGED data

\* RecordWebChatSent
BeginPublish(t, r) ==
  /\ channel = "WEB_CHAT" /\ conv.status # "NONE" /\ r \in Waiting \cup {0}
  /\ Begin(t, [NoRequest EXCEPT !.op = "publish", !.pc = "conversation", !.reply = r])
  /\ UNCHANGED <<data, world, lock>>

\* Mutant of MarkPublished: the conversation is not locked.
MarkPublishedUnlocked(t) ==
  /\ At(t, "publish", "conversation") /\ tx[t].reply \in Waiting \cup {0}
  /\ tx' = [tx EXCEPT ![t].pc = "commit", ![t].stale = Waiting \ {tx[t].reply}]
  /\ UNCHANGED <<data, world, lock>>

\* The conversation is locked, the row is sent, and every other one that waits
\* is superseded.
MarkPublished(t) ==
  /\ At(t, "publish", "conversation") /\ Free("conversation")
  /\ IF tx[t].reply \in Waiting \cup {0}
     THEN /\ tx' = [tx EXCEPT ![t].pc = "commit", ![t].stale = Waiting \ {tx[t].reply}]
          /\ lock' = [lock EXCEPT !["conversation"] = t]
          /\ UNCHANGED <<data, world>>
     ELSE Rollback(t)

CommitPublished(t) ==
  /\ At(t, "publish", "commit") /\ (tx[t].reply = 0 => Room)
  /\ out' = [r \in Reply |-> IF r \in tx[t].stale THEN [out[r] EXCEPT !.status = "FAILED"]
                             ELSE Publish(tx[t].reply)[r]]
  /\ conv' = [conv EXCEPT !.status = StatusWhenSent]
  /\ Finish(t)
  /\ UNCHANGED <<session, site, inbound, proposal, quotes, world>>

-----------------------------------------------------------------------------
Step(t) ==
  \/ ApproveProposal(t) \/ CommitApprove(t)
  \/ SendText(t) \/ RecordWhatsAppSent(t)
  \/ LockSession(t) \/ CommitMessage(t)
  \/ MarkPublished(t) \/ CommitPublished(t)

\* Any request but a message from the public chat fails with an error; an
\* answer of Meta may be lost with it.
GiveUp(t) == tx[t].op \in {"approve", "send", "publish"} /\ Rollback(t)

Next ==
  \/ CreateDemo \/ ReceiveDemo \/ RecordQuoteShared
  \/ \E r \in Reply \cup {0} : SendDemo(r)
  \/ \E m \in Message : Say(m) \/ ApplyMetaInbound(m) \/ CreateSession(m)
  \/ \E x \in Sent, s \in {"sent", "delivered", "read", "failed"} : Progress(x, s) \/ ApplyMetaStatus(x, s)
  \/ SwitchSite \/ Expire \/ GetSession
  \/ \E t \in Txn :
       \/ BeginApprove(t) \/ Step(t) \/ FailMessage(t) \/ GiveUp(t)
       \/ \E m \in Message : BeginMessage(t, m)
       \/ \E r \in Reply \cup {0} : BeginSend(t, r) \/ BeginPublish(t, r)

Spec == Init /\ [][Next]_vars

-----------------------------------------------------------------------------
(* Properties *)

\* However often a message is delivered or retried, and whatever requests run at
\* once, it is answered by one draft: the unique index and the locks of
\* applyMetaInbound and AddInboundMessage; VALIDATION-0.21.0.md promises it.
OneDraftPerMessage ==
  \A r, s \in Reply : (r # s /\ out[r].source # None) => out[r].source # out[s].source

\* The status of a conversation says what is waiting: a web chat is not OPEN
\* while a draft waits for review, so no new message is buried by a reply that
\* was under way; a WhatsApp contact who opted out is CLOSED, and no other; a
\* conversation with a quote never falls back to OPEN.
StatusTellsWhatWaits ==
  CASE channel = "WEB_CHAT" -> conv.status = "OPEN" => Waiting = {}
    [] channel = "WHATSAPP" -> conv.consent = "OPTED_OUT" <=> conv.status = "CLOSED"
    [] OTHER -> proposal.quote # 0 => conv.status \in {"QUOTE_DRAFTED", "HUMAN_REVIEW"}

\* Delivery reports arrive twice, late and out of order: a message read or
\* failed stays so, one delivered is never merely sent again, and none is shown
\* delivered, read or failed before Meta said so.
DeliveryOnlyForward ==
  [][\A r \in Reply : out[r].sent # 0 =>
       /\ out[r].status \in {"READ", "FAILED"} => out'[r] = out[r]
       /\ out[r].status = "DELIVERED" => out'[r].status # "SENT"
       /\ out'[r].status # out[r].status =>
            \E s \in {"sent", "delivered", "read", "failed"} :
              <<out[r].sent, s>> \in reported /\ out'[r].status = Normalized(s)]_vars

\* A session never has more messages in an hour than its limit, although the
\* first count is taken before the draft is made.
HourlyLimit == channel = "WEB_CHAT" => Cardinality(inbound) <= MaxPerHour

\* README.md: visitor-message retries keep the client message identifier "until
\* delivery succeeds", so a message answered with success must be stored.  The
\* code violates it.
AcknowledgedIsStored == acked \subseteq inbound

\* README.md: "processes duplicate webhook deliveries idempotently", so a message
\* that is stored already changes nobody's consent.  The code violates it.
RedeliveryKeepsConsent == [][inbound' = inbound => conv'.consent = conv.consent]_vars

-----------------------------------------------------------------------------
(* The inductive invariant: which channel writes what, and what a request  *)
(* holds and knows while it waits for its next lock.                       *)

MessageStatus == {"NONE", "DRAFT", "APPROVED", "SENT", "DELIVERED", "READ", "FAILED"}
Reported == {"sent", "delivered", "read", "failed"}

OutboundRow == [status : MessageStatus, source : Message \cup {None}, sent : Nat]
Request ==
  [op : {"idle", "approve", "send", "message", "publish"},
   pc : {"idle", "proposal", "deliver", "record", "session", "conversation", "commit"},
   message : Message \cup {None}, reply : Reply \cup {0}, sent : Nat, stale : SUBSET Reply]

TypeOK ==
  /\ channel \in {"DEMO", "WHATSAPP", "WEB_CHAT"}
  /\ conv \in [status : {"NONE", "HUMAN_REVIEW", "OPEN", "QUOTE_DRAFTED", "CLOSED"},
               consent : {"UNKNOWN", "DEMO", "OPTED_IN", "OPTED_OUT"}]
  /\ session \in [status : {"NONE", "ACTIVE", "CLOSED"}, expired : BOOLEAN]
  /\ site \in BOOLEAN
  /\ said \subseteq Message /\ inbound \subseteq Message /\ acked \subseteq Message
  /\ IsFiniteSet(inbound)
  /\ out \in [Reply -> OutboundRow]
  /\ meta \in [Sent -> Reported \cup {"none"}] /\ reported \subseteq Sent \X Reported
  /\ proposal \in [status : {"NONE", "PROPOSED", "QUOTE_CREATED"}, quote : Nat]
  /\ quotes \in Nat
  /\ lock \in [Row -> Txn \cup {None}]
  /\ tx \in [Txn -> Request]

\* What is written only on one channel, by requests of that channel.
ChannelsApart ==
  /\ said # {} => channel = "WHATSAPP"
  /\ session.status # "NONE" => channel = "WEB_CHAT"
  /\ proposal.status # "NONE" => channel = "DEMO"
  /\ channel = "WEB_CHAT" /\ session.status = "NONE" => conv.status = "NONE" /\ inbound = {}
  /\ \A r \in Reply : out[r].sent # 0 => channel = "WHATSAPP"
  /\ \A t \in Txn :
       /\ tx[t].op = "approve" => channel = "DEMO" /\ tx[t].sent # 0
       /\ tx[t].op = "send" => channel = "WHATSAPP"
       /\ tx[t].op \in {"message", "publish"} => session.status # "NONE"
       /\ tx[t].op = "message" => tx[t].message \in Message

\* Nothing is answered that is not stored, and what Meta has is no draft.
RowsStand ==
  \A r \in Reply :
    /\ out[r].source # None => out[r].source \in inbound
    /\ out[r].sent # 0 => out[r].status \in {"SENT", "DELIVERED", "READ", "FAILED"}

\* A message about to be stored is new and within the limit: the session is locked.
MessagesNew ==
  \A t \in Txn : At(t, "message", "commit") =>
    /\ lock["session"] = t
    /\ tx[t].message \notin inbound /\ Cardinality(inbound) < MaxPerHour

\* A reply about to be published supersedes whatever waits beside it: the
\* conversation is locked.
PublishesAll ==
  \A t \in Txn : At(t, "publish", "commit") =>
    /\ lock["conversation"] = t
    /\ Waiting \subseteq tx[t].stale \cup {tx[t].reply}

InboxInv ==
  /\ TypeOK /\ ChannelsApart /\ RowsStand /\ MessagesNew /\ PublishesAll
  /\ OneDraftPerMessage /\ StatusTellsWhatWaits /\ HourlyLimit

-----------------------------------------------------------------------------
(* Waiting *)

\* The row lock the next statement of a request needs.
Awaits(t, row) ==
  \/ row = "proposal" /\ At(t, "approve", "proposal")
  \/ row = "session" /\ At(t, "message", "session")
  \/ /\ row = "conversation"
     /\ \/ At(t, "approve", "commit") \/ At(t, "send", "record")
        \/ At(t, "message", "commit") \/ At(t, "publish", "conversation")

WaitsFor(t, u) == \E row \in Row : Awaits(t, row) /\ lock[row] = u

\* Of any requests there is one that waits for none of them: an approval locks
\* its proposal, and a message its session, before the conversation.
NoDeadlock == \A C \in SUBSET Txn : C # {} => \E t \in C : \A u \in C : ~ WaitsFor(t, u)

\* The inductive form: who holds a row is before the statement that frees it.
HoldersCommit ==
  \A t \in Txn :
    /\ lock["proposal"] = t => At(t, "approve", "commit")
    /\ lock["session"] = t => At(t, "message", "commit")
    /\ lock["conversation"] = t => At(t, "publish", "commit")
===============================================================================
