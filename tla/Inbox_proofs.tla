------------------------------ MODULE Inbox_proofs ------------------------------
(***************************************************************************)
(* Proofs about Inbox for any messages, bounds and numbers of requests.  A *)
(* web chat that stores a message has its session locked, one that         *)
(* publishes a reply has its conversation locked; the other channels never *)
(* run beside it.                                                          *)
(***************************************************************************)
EXTENDS Inbox, SumTheorems

\* What the tables alone satisfy.
Tables ==
  /\ said # {} => channel = "WHATSAPP"
  /\ session.status # "NONE" => channel = "WEB_CHAT"
  /\ proposal.status # "NONE" => channel = "DEMO"
  /\ channel = "WEB_CHAT" /\ session.status = "NONE" => conv.status = "NONE" /\ inbound = {}
  /\ \A r \in Reply : out[r].sent # 0 => channel = "WHATSAPP"
  /\ RowsStand /\ OneDraftPerMessage /\ StatusTellsWhatWaits /\ HourlyLimit

\* How one request stands to them.
Sound(t) ==
  /\ tx[t].op = "approve" => channel = "DEMO" /\ tx[t].sent # 0
  /\ tx[t].op = "send" => channel = "WHATSAPP"
  /\ tx[t].op \in {"message", "publish"} => session.status # "NONE"
  /\ tx[t].op = "message" => tx[t].message \in Message
  /\ At(t, "message", "commit") =>
       /\ lock["session"] = t
       /\ tx[t].message \notin inbound /\ Cardinality(inbound) < MaxPerHour
  /\ At(t, "publish", "commit") =>
       /\ lock["conversation"] = t
       /\ Waiting \subseteq tx[t].stale \cup {tx[t].reply}

\* The invariant is about the types, the tables and each request.
LEMMA InvParts ==
  /\ InboxInv <=> TypeOK /\ Tables /\ \A t \in Txn : Sound(t)
  /\ InboxInv' <=> TypeOK' /\ Tables' /\ \A t \in Txn : Sound(t)'
BY DEF InboxInv, ChannelsApart, MessagesNew, PublishesAll, Tables, Sound

\* An idle connection.
LEMMA IdleRequest ==
  /\ NoRequest \in Request
  /\ NoRequest.op = "idle" /\ NoRequest.pc = "idle"
BY DEF NoRequest, Request

\* The next outbound row is one that was not used before.
LEMMA NewReplyRow ==
  ASSUME TypeOK, Room, NEW status, NEW source, NEW sent
  PROVE  \E r \in Reply : /\ out[r].status = "NONE"
                          /\ NewReply(out, status, source, sent) =
                               [out EXCEPT ![r] = [status |-> status, source |-> source, sent |-> sent]]
<1> DEFINE free == {r \in Reply : out[r].status = "NONE"}
<1>1. MaxReplies \in free /\ free \in SUBSET Nat
  BY InboxAssumption DEF Reply, Room
<1>2. \E r \in free : \A s \in free : r <= s
  BY <1>1, LeastElement
<1>3. \E r \in Reply : out[r].status = "NONE" /\ \A s \in Reply : s < r => out[s].status # "NONE"
  BY <1>2 DEF Reply
<1>4. PICK n \in Reply : n = CHOOSE r \in Reply : /\ out[r].status = "NONE"
                                                  /\ \A s \in Reply : s < r => out[s].status # "NONE"
  BY <1>3
<1>5. out[n].status = "NONE"
  BY <1>3, <1>4
<1> QED BY <1>4, <1>5 DEF NewReply

\* The end of a request leaves the locks of the others.
LEMMA FinishFacts ==
  ASSUME TypeOK, NEW t \in Txn, Finish(t)
  PROVE  /\ tx'[t] = NoRequest /\ \A u \in Txn \ {t} : tx'[u] = tx[u]
         /\ \A u \in Txn \ {t}, row \in Row : lock[row] = u => lock'[row] = u
         /\ tx' \in [Txn -> Request] /\ lock' \in [Row -> Txn \cup {None}]
BY IdleRequest DEF TypeOK, Finish, Unlocked

\* An idle request is sound.
LEMMA IdleSound == ASSUME NEW t \in Txn, tx'[t] = NoRequest PROVE Sound(t)'
BY IdleRequest DEF Sound, At

\* A request that waits stays sound if nobody stores a message behind its lock
\* of the session, or adds a draft behind its lock of the conversation.
LEMMA SoundFrame ==
  ASSUME NEW u \in Txn, Sound(u), tx'[u] = tx[u], channel' = channel,
         session.status # "NONE" => session'.status # "NONE",
         \A row \in Row : lock[row] = u => lock'[row] = u,
         lock["session"] = u /\ session.status # "NONE" => inbound' = inbound,
         lock["conversation"] = u /\ session.status # "NONE" => Waiting' \subseteq Waiting
  PROVE  Sound(u)'
BY DEF Sound, At, Row

\* The tables as they were.
LEMMA TablesFrame ==
  ASSUME Tables, UNCHANGED <<channel, said, session, proposal, conv, inbound, out>>
  PROVE  Tables'
BY DEF Tables, RowsStand, OneDraftPerMessage, StatusTellsWhatWaits, HourlyLimit, Waiting

-----------------------------------------------------------------------------
(* Requests that change no table *)

\* A request that begins takes no lock and finds its fields sound.
LEMMA BeginsKeeps ==
  ASSUME InboxInv, NEW t \in Txn, NEW x \in Request, Begin(t, x),
         UNCHANGED <<conv, session, site, inbound, out, proposal, world, lock>>,
         quotes' \in Nat, Sound(t)'
  PROVE  InboxInv'
<1>1. tx' \in [Txn -> Request] /\ \A u \in Txn \ {t} : tx'[u] = tx[u]
  BY InvParts DEF Begin, TypeOK
<1>2. TypeOK'
  BY <1>1, InvParts DEF TypeOK, world
<1>3. Tables'
  BY InvParts, TablesFrame DEF world
<1>4. ASSUME NEW u \in Txn \ {t} PROVE Sound(u)'
  BY <1>1, InvParts, SoundFrame DEF world, Waiting
<1> QED BY <1>2, <1>3, <1>4, InvParts

\* Approve begins with the proposal still to lock.
LEMMA BeginApproveKeeps == ASSUME InboxInv, NEW t \in Txn, BeginApprove(t) PROVE InboxInv'
<1> DEFINE x == [NoRequest EXCEPT !.op = "approve", !.pc = "proposal", !.sent = quotes + 1]
<1>1. quotes \in Nat /\ channel = "DEMO" /\ channel' = channel
  BY InvParts DEF TypeOK, Tables, BeginApprove, world
<1>2. x \in Request /\ x.op = "approve" /\ x.pc = "proposal" /\ x.sent = quotes + 1
  <2>1. PICK n \in Nat : n = quotes + 1
    BY <1>1
  <2> QED BY <2>1 DEF NoRequest, Request
<1>3. Begin(t, x) /\ tx'[t] = x
  BY InvParts DEF BeginApprove, Begin, TypeOK
<1> HIDE DEF x
<1>4. Sound(t)'
  BY <1>1, <1>2, <1>3 DEF Sound, At
<1> QED BY <1>1, <1>2, <1>3, <1>4, BeginsKeeps DEF BeginApprove

\* Send begins with the message still to deliver.
LEMMA BeginSendKeeps ==
  ASSUME InboxInv, NEW t \in Txn, NEW r \in Reply \cup {0}, BeginSend(t, r) PROVE InboxInv'
<1> DEFINE x == [NoRequest EXCEPT !.op = "send", !.pc = "deliver", !.reply = r]
<1>1. x \in Request /\ x.op = "send" /\ x.pc = "deliver"
  BY DEF NoRequest, Request
<1>2. Begin(t, x) /\ tx'[t] = x
  BY InvParts DEF BeginSend, Begin, TypeOK
<1> HIDE DEF x
<1>3. Sound(t)'
  BY <1>1, <1>2 DEF Sound, At, BeginSend, world
<1> QED BY <1>1, <1>2, <1>3, BeginsKeeps, InvParts DEF BeginSend, data, TypeOK

\* SendMessage begins with the session still to lock.
LEMMA BeginMessageKeeps ==
  ASSUME InboxInv, NEW t \in Txn, NEW m \in Message, BeginMessage(t, m) PROVE InboxInv'
<1> DEFINE x == [NoRequest EXCEPT !.op = "message", !.pc = "session", !.message = m]
<1>1. x \in Request /\ x.op = "message" /\ x.pc = "session" /\ x.message = m
  BY DEF NoRequest, Request
<1>2. Begin(t, x) /\ tx'[t] = x
  BY InvParts DEF BeginMessage, Begin, TypeOK
<1> HIDE DEF x
<1>3. Sound(t)'
  BY <1>1, <1>2 DEF Sound, At, BeginMessage, data
<1> QED BY <1>1, <1>2, <1>3, BeginsKeeps, InvParts DEF BeginMessage, data, TypeOK

\* RecordWebChatSent begins with the conversation still to lock.
LEMMA BeginPublishKeeps ==
  ASSUME InboxInv, NEW t \in Txn, NEW r \in Reply \cup {0}, BeginPublish(t, r) PROVE InboxInv'
<1> DEFINE x == [NoRequest EXCEPT !.op = "publish", !.pc = "conversation", !.reply = r]
<1>1. x \in Request /\ x.op = "publish" /\ x.pc = "conversation"
  BY DEF NoRequest, Request
<1>2. Begin(t, x) /\ tx'[t] = x
  BY InvParts DEF BeginPublish, Begin, TypeOK
<1>3. session.status # "NONE"
  BY InvParts DEF Tables, BeginPublish
<1> HIDE DEF x
<1>4. Sound(t)'
  BY <1>1, <1>2, <1>3 DEF Sound, At, BeginPublish, data
<1> QED BY <1>1, <1>2, <1>4, BeginsKeeps, InvParts DEF BeginPublish, data, TypeOK

\* A request that ends without a trace in the tables.
LEMMA EndsKeeps ==
  ASSUME InboxInv, NEW t \in Txn, Finish(t), UNCHANGED <<data, channel, said, meta, reported>>,
         acked' \in SUBSET Message
  PROVE  InboxInv'
<1>1. TypeOK'
  BY InvParts, FinishFacts DEF TypeOK, data
<1>2. Tables'
  BY InvParts, TablesFrame DEF data
<1>3. ASSUME NEW u \in Txn PROVE Sound(u)'
  <2>1. CASE u = t
    BY <2>1, InvParts, FinishFacts, IdleSound
  <2>2. CASE u # t
    BY <2>2, InvParts, FinishFacts, SoundFrame DEF data, Waiting
  <2> QED BY <2>1, <2>2
<1> QED BY <1>1, <1>2, <1>3, InvParts

\* An error return keeps the invariant.
LEMMA RollbackKeeps == ASSUME InboxInv, NEW t \in Txn, Rollback(t) PROVE InboxInv'
BY EndsKeeps, InvParts DEF Rollback, world, TypeOK

\* The answer to SendMessage, whether the message was stored or not.
LEMMA AnswerKeeps ==
  ASSUME InboxInv, NEW t \in Txn, tx[t].op = "message", Answer(t), UNCHANGED data
  PROVE  InboxInv'
<1>1. acked' \in SUBSET Message
  BY InvParts DEF Sound, Answer, TypeOK
<1> QED BY <1>1, EndsKeeps DEF Answer

\* A request goes on, perhaps with one more lock, and Meta may hear of it.
LEMMA GoesOnKeeps ==
  ASSUME InboxInv, NEW t \in Txn, UNCHANGED <<data, channel, said, acked, reported>>,
         meta' \in [Sent -> Reported \cup {"none"}],
         tx' \in [Txn -> Request], \A u \in Txn \ {t} : tx'[u] = tx[u],
         UNCHANGED lock \/ \E row \in Row : Free(row) /\ lock' = [lock EXCEPT ![row] = t],
         Sound(t)'
  PROVE  InboxInv'
<1>1. lock' \in [Row -> Txn \cup {None}] /\ \A u \in Txn, row \in Row : lock[row] = u => lock'[row] = u
  BY InvParts, InboxAssumption DEF TypeOK, Free
<1>2. TypeOK'
  BY <1>1, InvParts DEF TypeOK, data
<1>3. Tables'
  BY InvParts, TablesFrame DEF data
<1>4. ASSUME NEW u \in Txn \ {t} PROVE Sound(u)'
  BY <1>1, InvParts, SoundFrame DEF data, Waiting
<1> QED BY <1>2, <1>3, <1>4, InvParts

\* Approve keeps the invariant: the proposal becomes a quote, and the status says so.
LEMMA ApproveProposalKeeps == ASSUME InboxInv, NEW t \in Txn, ApproveProposal(t) PROVE InboxInv'
<1>1. CASE proposal.status = "PROPOSED"
  <2>1. tx[t] \in Request /\ Sound(t)
    BY InvParts DEF TypeOK
  <2>2. tx' \in [Txn -> Request] /\ \A u \in Txn \ {t} : tx'[u] = tx[u]
    BY <1>1, <2>1, InvParts DEF ApproveProposal, Go, TypeOK, Request
  <2>3. tx'[t].op = "approve" /\ tx'[t].sent = tx[t].sent
    BY <1>1, <2>1, InvParts DEF ApproveProposal, At, Go, TypeOK, Request
  <2>4. Sound(t)'
    BY <1>1, <2>1, <2>3 DEF Sound, At, ApproveProposal, world
  <2> QED BY <1>1, <2>2, <2>4, GoesOnKeeps, InvParts DEF ApproveProposal, world, TypeOK, Row
<1> QED BY <1>1, RollbackKeeps DEF ApproveProposal

\* A text goes to Meta and no row changes.
LEMMA SendTextKeeps == ASSUME InboxInv, NEW t \in Txn, SendText(t) PROVE InboxInv'
<1>1. PICK x \in Sent : /\ meta' = [meta EXCEPT ![x] = "sent"]
                        /\ tx' = [tx EXCEPT ![t].pc = "record", ![t].sent = x]
  BY DEF SendText
<1>2. tx[t] \in Request /\ Sound(t) /\ x \in Nat
  BY InvParts DEF TypeOK, Sent
<1>3. tx' \in [Txn -> Request] /\ \A u \in Txn \ {t} : tx'[u] = tx[u]
  <2>1. [tx[t] EXCEPT !.pc = "record", !.sent = x] \in Request
    BY <1>2 DEF Request
  <2>2. tx' = [tx EXCEPT ![t] = [tx[t] EXCEPT !.pc = "record", !.sent = x]]
    BY <1>1, InvParts DEF TypeOK
  <2> QED BY <2>1, <2>2, InvParts DEF TypeOK
<1>4. tx'[t].op = "send"
  BY <1>1, <1>2, InvParts DEF SendText, At, TypeOK, Request
<1>5. Sound(t)'
  BY <1>2, <1>4 DEF Sound, At, SendText
<1>6. meta' \in [Sent -> Reported \cup {"none"}]
  BY <1>1, InvParts DEF TypeOK, Reported
<1> QED BY <1>3, <1>5, <1>6, GoesOnKeeps, InvParts DEF SendText, TypeOK

\* The checks under the lock of the session.
LEMMA LockSessionKeeps == ASSUME InboxInv, NEW t \in Txn, LockSession(t) PROVE InboxInv'
<1>1. tx[t] \in Request /\ Sound(t) /\ tx[t].op = "message"
  BY InvParts DEF TypeOK, LockSession, At
<1>2. CASE Answer(t) /\ UNCHANGED data
  BY <1>1, <1>2, AnswerKeeps
<1>3. CASE ~ (Answer(t) /\ UNCHANGED data)
  <2>1. /\ tx[t].message \notin inbound /\ Cardinality(inbound) < MaxPerHour
        /\ tx' = [tx EXCEPT ![t].pc = "commit"] /\ lock' = [lock EXCEPT !["session"] = t]
        /\ UNCHANGED <<data, world>> /\ Free("session")
    BY <1>3 DEF LockSession, Go
  <2>2. tx' \in [Txn -> Request] /\ \A u \in Txn \ {t} : tx'[u] = tx[u]
    BY <1>1, <2>1, InvParts DEF TypeOK, Request
  <2>3. tx'[t].op = "message" /\ tx'[t].message = tx[t].message
    BY <1>1, <2>1, InvParts DEF TypeOK, Request
  <2>4. lock'["session"] = t
    BY <2>1, InvParts DEF TypeOK, Row
  <2>5. Sound(t)'
    BY <1>1, <2>1, <2>3, <2>4 DEF Sound, At, data
  <2> QED BY <2>1, <2>2, <2>5, GoesOnKeeps, InvParts DEF world, TypeOK, Row
<1> QED BY <1>2, <1>3

\* What waits is noted under the lock of the conversation.
LEMMA MarkPublishedKeeps == ASSUME InboxInv, NEW t \in Txn, MarkPublished(t) PROVE InboxInv'
<1>1. tx[t] \in Request /\ Sound(t) /\ tx[t].op = "publish"
  BY InvParts DEF TypeOK, MarkPublished, At
<1>2. CASE tx[t].reply \in Waiting \cup {0}
  <2>1. /\ tx' = [tx EXCEPT ![t].pc = "commit", ![t].stale = Waiting \ {tx[t].reply}]
        /\ lock' = [lock EXCEPT !["conversation"] = t]
        /\ UNCHANGED <<data, world>> /\ Free("conversation")
    BY <1>2 DEF MarkPublished
  <2>2. Waiting \subseteq Reply
    BY DEF Waiting
  <2>3. tx' \in [Txn -> Request] /\ \A u \in Txn \ {t} : tx'[u] = tx[u]
    <3>1. [tx[t] EXCEPT !.pc = "commit", !.stale = Waiting \ {tx[t].reply}] \in Request
      BY <1>1, <2>2 DEF Request
    <3>2. tx' = [tx EXCEPT ![t] = [tx[t] EXCEPT !.pc = "commit",
                                               !.stale = Waiting \ {tx[t].reply}]]
      BY <2>1, InvParts DEF TypeOK
    <3> QED BY <3>1, <3>2, InvParts DEF TypeOK
  <2>4. /\ tx'[t].op = "publish" /\ tx'[t].reply = tx[t].reply
        /\ tx'[t].stale = Waiting \ {tx[t].reply}
    BY <1>1, <2>1, InvParts DEF TypeOK, Request
  <2>5. lock'["conversation"] = t
    BY <2>1, InvParts DEF TypeOK, Row
  <2>6. Waiting' = Waiting
    BY <2>1 DEF Waiting, data
  <2>7. Sound(t)'
    BY <1>1, <2>1, <2>4, <2>5, <2>6 DEF Sound, At, data
  <2> QED BY <2>1, <2>3, <2>7, GoesOnKeeps, InvParts DEF world, TypeOK, Row
<1> QED BY <1>2, RollbackKeeps DEF MarkPublished

-----------------------------------------------------------------------------
(* Rows *)

\* The statuses of a message that Meta has.
AtMeta == {"SENT", "DELIVERED", "READ", "FAILED"}

\* Requests stay sound in steps of others that store no message, and add no
\* draft, beside a public chat.
LEMMA SoundsStay ==
  ASSUME InboxInv, UNCHANGED <<tx, lock, channel>>,
         session.status # "NONE" => session'.status # "NONE" /\ inbound' = inbound
                                    /\ Waiting' \subseteq Waiting
  PROVE  \A u \in Txn : Sound(u)'
BY InvParts, SoundFrame

\* When a request ends, the others stay sound: what they read is locked by them, so
\* it did not change.
LEMMA SoundsAfter ==
  ASSUME InboxInv, NEW t \in Txn, Finish(t), UNCHANGED <<channel, session>>,
         session.status # "NONE" /\ lock["session"] # t => inbound' = inbound,
         session.status # "NONE" /\ lock["conversation"] \in Txn \ {t} => Waiting' \subseteq Waiting
  PROVE  \A u \in Txn : Sound(u)'
<1> SUFFICES ASSUME NEW u \in Txn PROVE Sound(u)'
  OBVIOUS
<1>1. CASE u = t
  BY <1>1, InvParts, FinishFacts, IdleSound
<1>2. CASE u # t
  BY <1>2, InvParts, FinishFacts, SoundFrame
<1> QED BY <1>1, <1>2

\* A new row answers a message that was not stored before, or none.
LEMMA NewRow ==
  ASSUME TypeOK, RowsStand, OneDraftPerMessage, Room,
         NEW status \in MessageStatus, NEW source \in Message \cup {None}, NEW sent \in Nat,
         out' = NewReply(out, status, source, sent), sent # 0 => status \in AtMeta,
         inbound \subseteq inbound', source # None => source \notin inbound /\ source \in inbound'
  PROVE  /\ out' \in [Reply -> OutboundRow] /\ RowsStand' /\ OneDraftPerMessage'
         /\ \A r \in Reply : out[r].sent # 0 => out'[r] = out[r]
         /\ \A r \in Reply : out'[r].sent # 0 => out[r].sent # 0 \/ sent # 0
         /\ status \in AtMeta => Waiting' = Waiting
<1>1. PICK n \in Reply : /\ out[n].status = "NONE"
                         /\ out' = [out EXCEPT ![n] = [status |-> status, source |-> source, sent |-> sent]]
  BY NewReplyRow
<1>2. out \in [Reply -> OutboundRow]
  BY DEF TypeOK
<1>3. [status |-> status, source |-> source, sent |-> sent] \in OutboundRow
  BY DEF OutboundRow
<1>4. out' \in [Reply -> OutboundRow]
  BY <1>1, <1>2, <1>3
<1>5. /\ out'[n].status = status /\ out'[n].source = source /\ out'[n].sent = sent
      /\ \A r \in Reply \ {n} : out'[r] = out[r]
  BY <1>1, <1>2
<1>6. out[n].sent = 0
  BY <1>1 DEF RowsStand
<1>7. RowsStand'
  BY <1>5 DEF RowsStand, AtMeta
<1>8. OneDraftPerMessage'
  BY <1>5 DEF RowsStand, OneDraftPerMessage
<1>9. status \in AtMeta => Waiting' = Waiting
  BY <1>1, <1>5 DEF Waiting, AtMeta
<1> QED BY <1>4, <1>5, <1>6, <1>7, <1>8, <1>9

\* A change of status keeps the sources of rows.
LEMMA NewStatus ==
  ASSUME TypeOK, RowsStand, OneDraftPerMessage, inbound' = inbound,
         \A r \in Reply : /\ out'[r].source = out[r].source
                          /\ out'[r].sent # 0 => out'[r].status \in AtMeta
  PROVE  RowsStand' /\ OneDraftPerMessage'
BY DEF RowsStand, OneDraftPerMessage, AtMeta

\* What Publish does to the rows.
LEMMA PublishRows ==
  ASSUME TypeOK, RowsStand, OneDraftPerMessage, inbound' = inbound,
         NEW r \in Reply \cup {0}, r = 0 => Room, out' = Publish(r)
  PROVE  /\ out' \in [Reply -> OutboundRow] /\ RowsStand' /\ OneDraftPerMessage'
         /\ \A s \in Reply : out'[s].sent # 0 => out[s].sent # 0
         /\ Waiting' = Waiting \ {r}
<1>1. CASE r = 0
  <2>1. out' = NewReply(out, "SENT", None, 0)
    BY <1>1 DEF Publish
  <2>2. 0 \notin Reply
    BY DEF Reply
  <2>3. Waiting \ {0} = Waiting
    BY <2>2 DEF Waiting
  <2> QED BY <1>1, <2>1, <2>3, NewRow DEF MessageStatus, AtMeta
<1>2. CASE r # 0
  <2>1. /\ out' = [out EXCEPT ![r].status = "SENT"] /\ out \in [Reply -> OutboundRow]
        /\ r \in Reply
    BY <1>2 DEF Publish, TypeOK
  <2>2. out' \in [Reply -> OutboundRow]
    BY <2>1 DEF OutboundRow, MessageStatus
  <2>3. /\ \A s \in Reply \ {r} : out'[s] = out[s]
        /\ out'[r].status = "SENT" /\ out'[r].source = out[r].source /\ out'[r].sent = out[r].sent
    BY <2>1 DEF OutboundRow
  <2>4. RowsStand' /\ OneDraftPerMessage'
    BY <2>3, NewStatus DEF RowsStand, AtMeta
  <2>5. Waiting' = Waiting \ {r}
    BY <2>1, <2>3 DEF Waiting
  <2> QED BY <2>2, <2>3, <2>4, <2>5
<1> QED BY <1>1, <1>2

-----------------------------------------------------------------------------
(* Steps outside the requests *)

\* The world moves, the site is switched, a session runs out.
LEMMA WorldKeeps ==
  ASSUME InboxInv,
         \/ \E m \in Message : Say(m)
         \/ \E x \in Sent, s \in {"sent", "delivered", "read", "failed"} : Progress(x, s)
         \/ SwitchSite \/ Expire \/ GetSession
  PROVE  InboxInv'
<1>1. ASSUME NEW m \in Message, Say(m) PROVE InboxInv'
  <2>1. TypeOK' /\ Tables'
    BY <1>1, InvParts DEF Say, data, TypeOK, Tables, RowsStand, OneDraftPerMessage,
       StatusTellsWhatWaits, HourlyLimit, Waiting
  <2>2. \A u \in Txn : Sound(u)'
    BY <1>1, SoundsStay DEF Say, data, Waiting
  <2> QED BY <2>1, <2>2, InvParts
<1>2. ASSUME NEW x \in Sent, NEW s \in {"sent", "delivered", "read", "failed"}, Progress(x, s)
      PROVE  InboxInv'
  <2>1. TypeOK'
    BY <1>2, InvParts DEF Progress, data, TypeOK, Reported
  <2>2. Tables' /\ \A u \in Txn : Sound(u)'
    BY <1>2, InvParts, TablesFrame, SoundsStay DEF Progress, data, Waiting
  <2> QED BY <2>1, <2>2, InvParts
<1>3. CASE SwitchSite
  <2>1. TypeOK'
    BY <1>3, InvParts DEF SwitchSite, world, TypeOK
  <2>2. Tables' /\ \A u \in Txn : Sound(u)'
    BY <1>3, InvParts, TablesFrame, SoundsStay DEF SwitchSite, world, Waiting
  <2> QED BY <2>1, <2>2, InvParts
<1>4. CASE Expire \/ GetSession
  <2>1. /\ session.status # "NONE" /\ session'.status # "NONE"
        /\ session' \in [status : {"NONE", "ACTIVE", "CLOSED"}, expired : BOOLEAN]
        /\ UNCHANGED <<conv, site, inbound, out, proposal, quotes, world, lock, tx>>
    BY <1>4, InvParts DEF Expire, GetSession, TypeOK
  <2>2. TypeOK'
    BY <2>1, InvParts DEF world, TypeOK
  <2>3. Tables'
    BY <2>1, InvParts DEF world, Tables, RowsStand, OneDraftPerMessage,
       StatusTellsWhatWaits, HourlyLimit, Waiting
  <2>4. \A u \in Txn : Sound(u)'
    BY <2>1, SoundsStay DEF world, Waiting
  <2> QED BY <2>2, <2>3, <2>4, InvParts
<1> QED BY <1>1, <1>2, <1>3, <1>4

\* Rows of assistant_conversations and of assistant_proposals.
ConvRow == [status : {"NONE", "HUMAN_REVIEW", "OPEN", "QUOTE_DRAFTED", "CLOSED"},
            consent : {"UNKNOWN", "DEMO", "OPTED_IN", "OPTED_OUT"}]
ProposalRow == [status : {"NONE", "PROPOSED", "QUOTE_CREATED"}, quote : Nat]

\* A change of status leaves the consent of a conversation alone.
LEMMA StatusType ==
  ASSUME TypeOK, NEW s \in {"NONE", "HUMAN_REVIEW", "OPEN", "QUOTE_DRAFTED", "CLOSED"}
  PROVE  /\ [conv EXCEPT !.status = s] \in ConvRow
         /\ [conv EXCEPT !.status = s].status = s
         /\ [conv EXCEPT !.status = s].consent = conv.consent
BY DEF TypeOK, ConvRow

\* A sent message leaves its conversation open, or drafted if it has a quote.
LEMMA WhenSent ==
  /\ StatusWhenSent \in {"QUOTE_DRAFTED", "OPEN"}
  /\ proposal.quote # 0 => StatusWhenSent = "QUOTE_DRAFTED"
BY DEF StatusWhenSent

\* A simulated conversation has no requests beside it that hold a lock for rows.
LEMMA DemoTables ==
  ASSUME InboxInv, channel = "DEMO", UNCHANGED <<session, site, inbound, world>>,
         conv' \in ConvRow, proposal' \in ProposalRow,
         out' \in [Reply -> OutboundRow], RowsStand', OneDraftPerMessage',
         \A r \in Reply : out'[r].sent # 0 => out[r].sent # 0,
         proposal'.quote # 0 => conv'.status \in {"QUOTE_DRAFTED", "HUMAN_REVIEW"}
  PROVE  Tables'
BY InvParts DEF Tables, world, StatusTellsWhatWaits, HourlyLimit

\* Steps of a simulated conversation keep the invariant if they keep its tables.
LEMMA DemoStep ==
  ASSUME InboxInv, channel = "DEMO", UNCHANGED <<session, site, inbound, quotes, world, lock, tx>>,
         conv' \in ConvRow, proposal' \in ProposalRow,
         out' \in [Reply -> OutboundRow], RowsStand', OneDraftPerMessage',
         \A r \in Reply : out'[r].sent # 0 => out[r].sent # 0,
         proposal'.quote # 0 => conv'.status \in {"QUOTE_DRAFTED", "HUMAN_REVIEW"}
  PROVE  InboxInv'
<1>1. TypeOK'
  BY InvParts DEF TypeOK, world, ConvRow, ProposalRow
<1>2. \A u \in Txn : Sound(u)'
  BY InvParts, SoundsStay DEF Tables, world
<1> QED BY <1>1, <1>2, DemoTables, InvParts

\* CreateDemo, ReceiveDemo, SendDemo and RecordQuoteShared keep the invariant.
LEMMA DemoKeeps ==
  ASSUME InboxInv,
         \/ CreateDemo \/ ReceiveDemo \/ RecordQuoteShared
         \/ \E r \in Reply \cup {0} : SendDemo(r)
  PROVE  InboxInv'
<1>0. TypeOK /\ RowsStand /\ OneDraftPerMessage
  BY InvParts DEF Tables
<1>1. ASSUME CreateDemo \/ ReceiveDemo
      PROVE  out' \in [Reply -> OutboundRow] /\ RowsStand' /\ OneDraftPerMessage'
             /\ \A r \in Reply : out'[r].sent # 0 => out[r].sent # 0
  BY <1>0, <1>1, NewRow DEF CreateDemo, ReceiveDemo, MessageStatus
<1>2. CASE CreateDemo
  <2>1. /\ conv' \in ConvRow /\ proposal' \in ProposalRow /\ proposal'.quote = 0
        /\ channel = "DEMO" /\ UNCHANGED <<session, site, inbound, quotes, world, lock, tx>>
    BY <1>2 DEF CreateDemo, ConvRow, ProposalRow
  <2> QED BY <1>1, <1>2, <2>1, DemoStep
<1>3. CASE ReceiveDemo
  <2>1. conv' \in ConvRow /\ conv'.status = "HUMAN_REVIEW" /\ proposal' \in ProposalRow
    BY <1>0, <1>3, StatusType DEF ReceiveDemo, TypeOK, ProposalRow
  <2> QED BY <1>1, <1>3, <2>1, DemoStep DEF ReceiveDemo
<1>4. CASE RecordQuoteShared
  <2>1. conv' \in ConvRow /\ conv'.status = "QUOTE_DRAFTED" /\ proposal' \in ProposalRow
    BY <1>0, <1>4, StatusType DEF RecordQuoteShared, TypeOK, ProposalRow
  <2>2. /\ out' \in [Reply -> OutboundRow] /\ RowsStand' /\ OneDraftPerMessage'
        /\ \A r \in Reply : out'[r].sent # 0 => out[r].sent # 0
    BY <1>0, <1>4, NewRow DEF RecordQuoteShared, MessageStatus, AtMeta
  <2> QED BY <1>4, <2>1, <2>2, DemoStep DEF RecordQuoteShared
<1>5. ASSUME NEW r \in Reply \cup {0}, SendDemo(r) PROVE InboxInv'
  <2>1. /\ conv' \in ConvRow /\ conv'.status = StatusWhenSent
        /\ proposal' \in ProposalRow /\ proposal' = proposal
    BY <1>0, <1>5, StatusType, WhenSent DEF SendDemo, TypeOK, ProposalRow
  <2>2. r = 0 => Room
    BY <1>5 DEF SendDemo, Waiting, Reply
  <2>3. /\ out' \in [Reply -> OutboundRow] /\ RowsStand' /\ OneDraftPerMessage'
        /\ \A s \in Reply : out'[s].sent # 0 => out[s].sent # 0
    BY <1>0, <1>5, <2>2, PublishRows DEF SendDemo
  <2> QED BY <1>5, <2>1, <2>3, WhenSent, DemoStep DEF SendDemo
<1> QED BY <1>2, <1>3, <1>4, <1>5

\* The proposal is approved once its quote is there.
LEMMA CommitApproveKeeps == ASSUME InboxInv, NEW t \in Txn, CommitApprove(t) PROVE InboxInv'
<1>0. TypeOK /\ Tables /\ RowsStand /\ OneDraftPerMessage /\ tx[t] \in Request /\ Sound(t)
  BY InvParts DEF Tables, TypeOK
<1>1. /\ channel = "DEMO" /\ session.status = "NONE" /\ UNCHANGED <<session, site, inbound, quotes, world>>
      /\ Finish(t)
  BY <1>0 DEF CommitApprove, At, Sound, Tables
<1>2. /\ conv' \in ConvRow /\ conv'.status = "QUOTE_DRAFTED" /\ proposal' \in ProposalRow
  <2>1. tx[t].sent \in Nat
    BY <1>0 DEF Request
  <2> QED BY <1>0, <2>1, StatusType DEF CommitApprove, ProposalRow
<1>3. \A r \in Reply : \/ out'[r] = out[r]
                       \/ out[r].status = "DRAFT" /\ out'[r] = [out[r] EXCEPT !.status = "APPROVED"]
  BY DEF CommitApprove
<1>4. out' = [r \in Reply |-> out'[r]]
  BY DEF CommitApprove
<1>5. ASSUME NEW r \in Reply
      PROVE  /\ out'[r] \in OutboundRow /\ out'[r].source = out[r].source
             /\ out'[r].sent = out[r].sent /\ (out'[r].sent # 0 => out'[r].status \in AtMeta)
  <2>1. out[r] \in OutboundRow
    BY <1>0 DEF TypeOK
  <2>2. CASE out'[r] = out[r]
    BY <1>0, <2>1, <2>2 DEF RowsStand, AtMeta
  <2>3. CASE out[r].status = "DRAFT" /\ out'[r] = [out[r] EXCEPT !.status = "APPROVED"]
    <3>1. out[r].sent = 0
      BY <1>0, <2>3 DEF RowsStand
    <3> QED BY <2>1, <2>3, <3>1 DEF OutboundRow, MessageStatus
  <2> QED BY <1>3, <2>2, <2>3
<1>6. out' \in [Reply -> OutboundRow] /\ RowsStand' /\ OneDraftPerMessage'
  BY <1>0, <1>1, <1>4, <1>5, NewStatus
<1>7. Tables'
  BY <1>1, <1>2, <1>5, <1>6, DemoTables
<1>8. \A u \in Txn : Sound(u)'
  BY <1>1, SoundsAfter DEF world
<1>9. TypeOK'
  BY <1>0, <1>1, <1>2, <1>6, FinishFacts DEF TypeOK, world, ConvRow, ProposalRow
<1> QED BY <1>7, <1>8, <1>9, InvParts

-----------------------------------------------------------------------------
(* WhatsApp *)

\* Beside a WhatsApp conversation no request holds a lock for its rows.
LEMMA WhatsAppTables ==
  ASSUME InboxInv, channel = "WHATSAPP", UNCHANGED <<session, site, proposal, quotes, world>>,
         RowsStand', OneDraftPerMessage',
         conv'.consent = "OPTED_OUT" <=> conv'.status = "CLOSED"
  PROVE  Tables'
BY InvParts DEF Tables, world, StatusTellsWhatWaits, HourlyLimit

\* The upsert closes the conversation of whoever opts out.
LEMMA UpsertedRow ==
  ASSUME InboxInv, channel = "WHATSAPP", NEW m \in Message
  PROVE  /\ Upserted(m) \in ConvRow
         /\ Upserted(m).consent = "OPTED_OUT" <=> Upserted(m).status = "CLOSED"
         /\ LET c == [Upserted(m) EXCEPT !.status = IF Upserted(m).consent = "OPTED_OUT" THEN "CLOSED"
                                                    ELSE "HUMAN_REVIEW"]
            IN  c \in ConvRow /\ (c.consent = "OPTED_OUT" <=> c.status = "CLOSED")
<1>1. conv \in ConvRow /\ (conv.consent = "OPTED_OUT" <=> conv.status = "CLOSED")
  BY InvParts DEF TypeOK, ConvRow, Tables, StatusTellsWhatWaits
<1>2. Asked(m) \in {"OPTED_OUT", "OPTED_IN", "UNKNOWN"}
  BY DEF Asked
<1>3. PICK consent : consent = IF Asked(m) = "UNKNOWN" THEN conv.consent ELSE Asked(m)
  OBVIOUS
<1>4. PICK status : status = CASE Asked(m) = "OPTED_OUT" -> "CLOSED"
                              [] \/ Asked(m) = "OPTED_IN"
                                 \/ Asked(m) = "UNKNOWN" /\ conv.status = "NONE" -> "HUMAN_REVIEW"
                              [] OTHER -> conv.status
  OBVIOUS
<1>5. Upserted(m) = [consent |-> consent, status |-> status]
  BY <1>3, <1>4 DEF Upserted
<1>6. /\ consent \in {"UNKNOWN", "DEMO", "OPTED_IN", "OPTED_OUT"}
      /\ status \in {"NONE", "HUMAN_REVIEW", "OPEN", "QUOTE_DRAFTED", "CLOSED"}
  BY <1>1, <1>2, <1>3, <1>4 DEF ConvRow
<1>7. consent = "OPTED_OUT" <=> status = "CLOSED"
  <2>1. CASE Asked(m) = "OPTED_OUT"
    BY <1>3, <1>4, <2>1
  <2>2. CASE Asked(m) = "OPTED_IN"
    BY <1>3, <1>4, <2>2
  <2>3. CASE Asked(m) = "UNKNOWN" /\ conv.status = "NONE"
    BY <1>1, <1>3, <1>4, <2>3
  <2>4. CASE Asked(m) = "UNKNOWN" /\ conv.status # "NONE"
    BY <1>1, <1>3, <1>4, <2>4
  <2> QED BY <1>2, <2>1, <2>2, <2>3, <2>4
<1> QED BY <1>5, <1>6, <1>7 DEF ConvRow

\* A delivery of the webhook, the first or another, keeps the invariant.
LEMMA ApplyMetaInboundKeeps ==
  ASSUME InboxInv, NEW m \in Message, ApplyMetaInbound(m) PROVE InboxInv'
<1>0. /\ TypeOK /\ RowsStand /\ OneDraftPerMessage /\ channel = "WHATSAPP" /\ session.status = "NONE"
      /\ UNCHANGED <<session, site, proposal, quotes, world, lock, tx>> /\ Room
  BY InvParts DEF Tables, ApplyMetaInbound
<1>1. conv' \in ConvRow /\ (conv'.consent = "OPTED_OUT" <=> conv'.status = "CLOSED")
  BY <1>0, UpsertedRow DEF ApplyMetaInbound
<1>2. /\ inbound' \subseteq Message /\ IsFiniteSet(inbound')
      /\ out' \in [Reply -> OutboundRow] /\ RowsStand' /\ OneDraftPerMessage'
  <2>1. CASE UNCHANGED <<inbound, out>>
    BY <1>0, <2>1 DEF TypeOK, RowsStand, OneDraftPerMessage
  <2>2. CASE /\ m \notin inbound /\ inbound' = inbound \cup {m}
             /\ out' = out \/ out' = NewReply(out, "DRAFT", m, 0)
    <3>1. inbound' \subseteq Message /\ IsFiniteSet(inbound')
      BY <1>0, <2>2, FS_AddElement DEF TypeOK
    <3>2. CASE out' = out
      BY <1>0, <2>2, <3>1, <3>2 DEF TypeOK, RowsStand, OneDraftPerMessage
    <3>3. CASE out' = NewReply(out, "DRAFT", m, 0)
      <4>1. RowsStand' /\ OneDraftPerMessage' /\ out' \in [Reply -> OutboundRow]
        BY <1>0, <2>2, <3>3, NewRow DEF MessageStatus
      <4> QED BY <3>1, <4>1
    <3> QED BY <2>2, <3>1, <3>2, <3>3
  <2> QED BY <2>1, <2>2 DEF ApplyMetaInbound
<1>3. TypeOK'
  BY <1>0, <1>1, <1>2 DEF TypeOK, world, ConvRow
<1>4. Tables'
  BY <1>0, <1>1, <1>2, WhatsAppTables
<1>5. \A u \in Txn : Sound(u)'
  BY <1>0, SoundsStay DEF world
<1> QED BY <1>3, <1>4, <1>5, InvParts

\* The reply Meta took is recorded in the row that was waiting, or in a new one.
LEMMA RecordRows ==
  ASSUME InboxInv, NEW t \in Txn, At(t, "send", "record"),
         tx[t].reply \in Waiting \/ (tx[t].reply = 0 /\ Room), inbound' = inbound,
         out' = IF tx[t].reply = 0 THEN NewReply(out, "SENT", None, tx[t].sent)
                ELSE [out EXCEPT ![tx[t].reply].status = "SENT", ![tx[t].reply].sent = tx[t].sent]
  PROVE  /\ out' \in [Reply -> OutboundRow] /\ RowsStand' /\ OneDraftPerMessage'
         /\ \A r \in Reply : out[r].sent # 0 => out'[r] = out[r]
<1>0. TypeOK /\ RowsStand /\ OneDraftPerMessage /\ tx[t] \in Request
  BY InvParts DEF Tables, TypeOK
<1>1. CASE tx[t].reply = 0
  <2>1. Room
    BY <1>1 DEF Waiting, Reply
  <2>2. tx[t].sent \in Nat
    BY <1>0 DEF Request
  <2> QED BY <1>0, <1>1, <2>1, <2>2, NewRow DEF MessageStatus, AtMeta
<1>2. CASE tx[t].reply # 0
  <2> DEFINE r == tx[t].reply
             row == [out[r] EXCEPT !.status = "SENT", !.sent = tx[t].sent]
  <2>1. r \in Reply /\ out[r].status \in {"DRAFT", "APPROVED"} /\ out[r] \in OutboundRow
    BY <1>0, <1>2 DEF Waiting, TypeOK
  <2>2. row \in OutboundRow /\ row.status = "SENT" /\ row.source = out[r].source
    BY <1>0, <2>1 DEF OutboundRow, MessageStatus, Request
  <2>3. out' = [out EXCEPT ![r] = row]
    BY <1>0, <1>2 DEF TypeOK
  <2>4. out[r].sent = 0
    BY <1>0, <2>1 DEF RowsStand
  <2> HIDE DEF r, row
  <2>5. out' \in [Reply -> OutboundRow] /\ out'[r] = row /\ \A s \in Reply \ {r} : out'[s] = out[s]
    BY <1>0, <2>1, <2>2, <2>3 DEF TypeOK
  <2>6. RowsStand' /\ OneDraftPerMessage'
    BY <1>0, <2>2, <2>5, NewStatus DEF RowsStand, AtMeta
  <2> QED BY <2>4, <2>5, <2>6
<1> QED BY <1>1, <1>2

\* The record of a reply keeps the invariant.
LEMMA RecordWhatsAppSentKeeps ==
  ASSUME InboxInv, NEW t \in Txn, RecordWhatsAppSent(t) PROVE InboxInv'
<1>1. CASE Rollback(t)
  BY <1>1, RollbackKeeps
<1>2. CASE ~ Rollback(t)
  <2>0. /\ TypeOK /\ Tables /\ Sound(t) /\ Finish(t) /\ At(t, "send", "record")
        /\ UNCHANGED <<session, site, inbound, proposal, quotes, world>>
        /\ conv' = [conv EXCEPT !.status = IF @ = "HUMAN_REVIEW" THEN "OPEN" ELSE @]
    BY <1>2, InvParts DEF RecordWhatsAppSent
  <2>1. channel = "WHATSAPP" /\ session.status = "NONE"
    BY <2>0 DEF Sound, Tables, At
  <2>2. out' \in [Reply -> OutboundRow] /\ RowsStand' /\ OneDraftPerMessage'
    BY <1>2, <2>0, RecordRows DEF RecordWhatsAppSent
  <2>3. conv' \in ConvRow /\ (conv'.consent = "OPTED_OUT" <=> conv'.status = "CLOSED")
    BY <2>0, <2>1 DEF TypeOK, ConvRow, Tables, StatusTellsWhatWaits
  <2>4. TypeOK'
    BY <2>0, <2>2, <2>3, FinishFacts DEF TypeOK, world, ConvRow
  <2>5. Tables'
    BY <2>0, <2>1, <2>2, <2>3, WhatsAppTables
  <2>6. \A u \in Txn : Sound(u)'
    BY <2>0, <2>1, SoundsAfter DEF world
  <2> QED BY <2>4, <2>5, <2>6, InvParts
<1> QED BY <1>1, <1>2

\* A report only moves a row along the statuses of what Meta has.
LEMMA LaterStatus ==
  ASSUME NEW s \in Reported, NEW old \in MessageStatus
  PROVE  Later(old, Normalized(s)) \in AtMeta
<1>1. Normalized(s) \in AtMeta
  BY DEF Normalized, Reported, AtMeta
<1> QED BY <1>1 DEF Later, AtMeta

\* A report of a delivery keeps the invariant.
LEMMA ApplyMetaStatusKeeps ==
  ASSUME InboxInv, NEW x \in Sent, NEW s \in Reported, ApplyMetaStatus(x, s) PROVE InboxInv'
<1>0. /\ TypeOK /\ RowsStand /\ OneDraftPerMessage
      /\ UNCHANGED <<conv, session, site, inbound, proposal, quotes, world, lock, tx>>
  BY InvParts DEF Tables, ApplyMetaStatus
<1>1. PICK r \in Reply : /\ out[r].sent = x
                         /\ out' = [out EXCEPT ![r].status = Later(@, Normalized(s))]
  BY DEF ApplyMetaStatus
<1>2. x # 0 /\ out[r] \in OutboundRow
  BY <1>0 DEF Sent, TypeOK
<1>3. channel = "WHATSAPP" /\ session.status = "NONE"
  BY <1>1, <1>2, InvParts DEF Tables
<1>4. PICK status : status = Later(out[r].status, Normalized(s))
  OBVIOUS
<1>5. status \in AtMeta
  BY <1>2, <1>4, LaterStatus DEF OutboundRow
<1>6. /\ out' \in [Reply -> OutboundRow]
      /\ \A u \in Reply \ {r} : out'[u] = out[u]
      /\ out'[r].status = status /\ out'[r].source = out[r].source
  <2>1. out' = [out EXCEPT ![r] = [out[r] EXCEPT !.status = status]]
    BY <1>0, <1>1, <1>4 DEF TypeOK
  <2>2. [out[r] EXCEPT !.status = status] \in OutboundRow
    BY <1>2, <1>5 DEF OutboundRow, MessageStatus, AtMeta
  <2> QED BY <1>0, <1>2, <2>1, <2>2 DEF TypeOK, OutboundRow
<1>7. RowsStand' /\ OneDraftPerMessage'
  BY <1>0, <1>5, <1>6, NewStatus DEF RowsStand, AtMeta
<1>8. TypeOK'
  BY <1>0, <1>6 DEF TypeOK, world
<1>9. Tables'
  BY <1>0, <1>3, <1>7, InvParts, WhatsAppTables DEF Tables, StatusTellsWhatWaits
<1>10. \A u \in Txn : Sound(u)'
  BY <1>0, <1>3, SoundsStay DEF world
<1> QED BY <1>8, <1>9, <1>10, InvParts

-----------------------------------------------------------------------------
(* The public chat *)

\* Beside a public chat only its own requests run.
LEMMA WebTables ==
  ASSUME InboxInv, channel = "WEB_CHAT", UNCHANGED <<proposal, channel, said, meta, reported>>,
         session'.status # "NONE", RowsStand', OneDraftPerMessage',
         \A r \in Reply : out'[r].sent # 0 => out[r].sent # 0,
         conv'.status = "OPEN" => Waiting' = {}, Cardinality(inbound') <= MaxPerHour
  PROVE  Tables'
BY InvParts DEF Tables, StatusTellsWhatWaits, HourlyLimit

\* The first contact stores the first message.
LEMMA CreateSessionKeeps == ASSUME InboxInv, NEW m \in Message, CreateSession(m) PROVE InboxInv'
<1>0. TypeOK /\ RowsStand /\ OneDraftPerMessage /\ Tables /\ channel = "WEB_CHAT" /\ inbound = {} /\ Room
  BY InvParts DEF Tables, CreateSession
<1>1. m # None
  BY InboxAssumption
<1>2. /\ out' \in [Reply -> OutboundRow] /\ RowsStand' /\ OneDraftPerMessage'
      /\ \A r \in Reply : out'[r].sent # 0 => out[r].sent # 0
  BY <1>0, <1>1, NewRow DEF CreateSession, MessageStatus
<1>3. IsFiniteSet({m}) /\ Cardinality({m}) = 1
  BY FS_Singleton
<1>4. session' \in [status : {"NONE", "ACTIVE", "CLOSED"}, expired : BOOLEAN] /\ session'.status # "NONE"
  BY <1>0 DEF CreateSession, TypeOK
<1>5. conv' \in ConvRow /\ conv'.status # "OPEN"
  BY DEF CreateSession, ConvRow
<1>6. TypeOK'
  BY <1>0, <1>2, <1>3, <1>4, <1>5 DEF TypeOK, CreateSession, ConvRow
<1>7. Cardinality(inbound') <= MaxPerHour
  BY <1>3, InboxAssumption DEF CreateSession
<1>8. Tables'
  BY <1>0, <1>2, <1>4, <1>5, <1>7, WebTables DEF CreateSession
<1>9. \A u \in Txn : Sound(u)'
  BY <1>0, SoundsStay DEF CreateSession
<1> QED BY <1>6, <1>8, <1>9, InvParts

\* A message of the public chat is stored under the lock of its session.
LEMMA CommitMessageKeeps == ASSUME InboxInv, NEW t \in Txn, CommitMessage(t) PROVE InboxInv'
<1> DEFINE m == tx[t].message
<1>0. /\ TypeOK /\ RowsStand /\ OneDraftPerMessage /\ Tables /\ Sound(t) /\ Room
      /\ Finish(t) /\ UNCHANGED <<channel, said, meta, reported, session, site, proposal, quotes>>
      /\ tx[t].op = "message" /\ At(t, "message", "commit") /\ acked' = acked \cup {m}
  BY InvParts DEF Tables, CommitMessage, Answer, At
<1>1. /\ session.status # "NONE" /\ channel = "WEB_CHAT" /\ m \in Message /\ m \notin inbound
      /\ Cardinality(inbound) < MaxPerHour /\ lock["session"] = t
  BY <1>0 DEF Sound, Tables
<1>2. /\ out' \in [Reply -> OutboundRow] /\ RowsStand' /\ OneDraftPerMessage'
      /\ \A r \in Reply : out'[r].sent # 0 => out[r].sent # 0
  BY <1>0, <1>1, NewRow DEF CommitMessage, MessageStatus
<1>3. IsFiniteSet(inbound') /\ Cardinality(inbound') = Cardinality(inbound) + 1
  BY <1>0, <1>1, FS_AddElement DEF CommitMessage, TypeOK
<1>4. Cardinality(inbound) \in Nat
  BY <1>0, FS_CardinalityType DEF TypeOK
<1>5. conv' \in ConvRow /\ conv'.status # "OPEN"
  BY <1>0, StatusType DEF CommitMessage
<1>6. inbound' \subseteq Message /\ acked' \subseteq Message
  BY <1>0, <1>1 DEF CommitMessage, TypeOK
<1>7. TypeOK'
  BY <1>0, <1>2, <1>3, <1>5, <1>6, FinishFacts DEF TypeOK, ConvRow
<1>8. Cardinality(inbound') <= MaxPerHour
  BY <1>1, <1>3, <1>4, InboxAssumption
<1>9. Tables'
  BY <1>0, <1>1, <1>2, <1>5, <1>8, WebTables
<1>10. lock["conversation"] \notin Txn
  BY InboxAssumption DEF CommitMessage, Free
<1>11. \A u \in Txn : Sound(u)'
  BY <1>0, <1>1, <1>10, SoundsAfter
<1> QED BY <1>7, <1>9, <1>11, InvParts

\* Publish changes one row: the one named, or the next.
LEMMA PublishedRow ==
  ASSUME TypeOK, NEW r \in Reply \cup {0}, r = 0 => Room
  PROVE  /\ Publish(r) \in [Reply -> OutboundRow]
         /\ \E n \in Reply :
              /\ r # 0 => n = r
              /\ Publish(r)[n].status = "SENT" /\ Publish(r)[n].source \in {out[n].source, None}
              /\ Publish(r)[n].sent \in {out[n].sent, 0}
              /\ \A s \in Reply \ {n} : Publish(r)[s] = out[s]
<1>0. out \in [Reply -> OutboundRow]
  BY DEF TypeOK
<1>1. CASE r = 0
  <2> DEFINE row == [status |-> "SENT", source |-> None, sent |-> 0]
  <2>1. PICK n \in Reply : Publish(r) = [out EXCEPT ![n] = row]
    BY <1>1, NewReplyRow DEF Publish
  <2>2. row \in OutboundRow /\ row.status = "SENT" /\ row.source = None /\ row.sent = 0
    BY DEF OutboundRow, MessageStatus
  <2> HIDE DEF row
  <2> QED BY <1>0, <1>1, <2>1, <2>2
<1>2. CASE r # 0
  <2> DEFINE row == [out[r] EXCEPT !.status = "SENT"]
  <2>1. r \in Reply /\ out[r] \in OutboundRow /\ Publish(r) = [out EXCEPT ![r] = row]
    BY <1>0, <1>2 DEF Publish
  <2>2. row \in OutboundRow /\ row.status = "SENT" /\ row.source = out[r].source /\ row.sent = out[r].sent
    BY <2>1 DEF OutboundRow, MessageStatus
  <2> HIDE DEF row
  <2> QED BY <1>0, <1>2, <2>1, <2>2
<1> QED BY <1>1, <1>2

\* A reply is published, and what waited beside it is superseded.
LEMMA CommitPublishedKeeps == ASSUME InboxInv, NEW t \in Txn, CommitPublished(t) PROVE InboxInv'
<1> DEFINE r == tx[t].reply
           stale == tx[t].stale
           rows == Publish(r)
<1>0. /\ TypeOK /\ RowsStand /\ OneDraftPerMessage /\ Tables /\ Sound(t)
      /\ Finish(t) /\ UNCHANGED <<session, site, inbound, proposal, quotes, world>>
      /\ tx[t].op = "publish" /\ At(t, "publish", "commit") /\ tx[t] \in Request
      /\ conv' = [conv EXCEPT !.status = StatusWhenSent] /\ (r = 0 => Room)
  BY InvParts DEF Tables, CommitPublished, At, TypeOK
<1>1. /\ session.status # "NONE" /\ channel = "WEB_CHAT" /\ lock["conversation"] = t
      /\ Waiting \subseteq stale \cup {r}
  BY <1>0 DEF Sound, Tables
<1>2. r \in Reply \cup {0} /\ stale \subseteq Reply
  BY <1>0 DEF Request
<1>3. /\ rows \in [Reply -> OutboundRow]
      /\ \E n \in Reply :
           /\ r # 0 => n = r
           /\ rows[n].status = "SENT" /\ rows[n].source \in {out[n].source, None}
           /\ rows[n].sent \in {out[n].sent, 0}
           /\ \A s \in Reply \ {n} : rows[s] = out[s]
  BY <1>0, <1>2, PublishedRow
<1>4. out' = [s \in Reply |-> IF s \in stale THEN [out[s] EXCEPT !.status = "FAILED"] ELSE rows[s]]
  BY DEF CommitPublished
<1> HIDE DEF r, stale, rows
<1>5. PICK n \in Reply : /\ r # 0 => n = r
                         /\ rows[n].status = "SENT" /\ rows[n].source \in {out[n].source, None}
                         /\ rows[n].sent \in {out[n].sent, 0}
                         /\ \A s \in Reply \ {n} : rows[s] = out[s]
  BY <1>3
<1>6. \A s \in Reply : out[s].sent = 0
  BY <1>0, <1>1 DEF Tables
<1>7. ASSUME NEW s \in Reply
      PROVE  /\ out'[s] \in OutboundRow /\ out'[s].source \in {out[s].source, None} /\ out'[s].sent = 0
             /\ ~ (out'[s].status \in {"DRAFT", "APPROVED"})
  <2>1. out[s] \in OutboundRow /\ rows[s] \in OutboundRow
    BY <1>0, <1>3 DEF TypeOK
  <2>2. CASE s \in stale
    <3>1. out'[s] = [out[s] EXCEPT !.status = "FAILED"]
      BY <1>4, <2>2
    <3> QED BY <1>6, <2>1, <3>1 DEF OutboundRow, MessageStatus
  <2>3. CASE s \notin stale
    <3>1. out'[s] = rows[s]
      BY <1>4, <2>3
    <3>2. CASE s = n
      BY <1>5, <1>6, <2>1, <3>1, <3>2
    <3>3. CASE s # n
      <4>1. out'[s] = out[s]
        BY <1>5, <3>1, <3>3
      <4>2. s # r
        BY <1>5, <3>3 DEF Reply
      <4>3. s \notin Waiting
        BY <1>1, <2>3, <4>2
      <4> QED BY <1>6, <2>1, <4>1, <4>3 DEF Waiting
    <3> QED BY <3>2, <3>3
  <2> QED BY <2>2, <2>3
<1>8. out' \in [Reply -> OutboundRow]
  <2>1. out' = [s \in Reply |-> out'[s]]
    BY <1>4
  <2> QED BY <1>7, <2>1
<1>9. RowsStand' /\ OneDraftPerMessage' /\ Waiting' = {}
  BY <1>0, <1>7 DEF RowsStand, OneDraftPerMessage, Waiting
<1>10. conv' \in ConvRow
  BY <1>0, StatusType, WhenSent
<1>11. TypeOK'
  BY <1>0, <1>8, <1>10, FinishFacts DEF TypeOK, world, ConvRow
<1>12. Cardinality(inbound') <= MaxPerHour
  BY <1>0, <1>1 DEF Tables, HourlyLimit
<1>13. Tables'
  BY <1>0, <1>1, <1>7, <1>9, <1>12, WebTables DEF world
<1>14. \A u \in Txn : Sound(u)'
  BY <1>0, <1>9, SoundsAfter DEF world
<1> QED BY <1>11, <1>13, <1>14, InvParts

-----------------------------------------------------------------------------
(* The invariant *)

\* The inbox is empty at first.
LEMMA InitInv == ASSUME Init PROVE InboxInv
<1>1. TypeOK
  <2>1. IsFiniteSet({}) /\ NoReply \in OutboundRow
    BY FS_EmptySet DEF NoReply, OutboundRow, MessageStatus
  <2> QED BY <2>1, IdleRequest DEF Init, TypeOK, Reported, Row
<1>2. Tables
  <2>1. Cardinality({}) = 0
    BY FS_EmptySet
  <2>2. \A r \in Reply : out[r].source = None /\ out[r].sent = 0 /\ out[r].status = "NONE"
    BY DEF Init, NoReply
  <2>3. HourlyLimit /\ RowsStand /\ OneDraftPerMessage
    BY <2>1, <2>2, InboxAssumption DEF Init, HourlyLimit, RowsStand, OneDraftPerMessage
  <2>4. StatusTellsWhatWaits
    BY DEF Init, StatusTellsWhatWaits
  <2> QED BY <2>2, <2>3, <2>4 DEF Init, Tables
<1>3. \A t \in Txn : Sound(t)
  BY IdleRequest DEF Init, Sound, At
<1> QED BY <1>1, <1>2, <1>3, InvParts

\* A step of a request.
LEMMA StepKeeps == ASSUME InboxInv, NEW t \in Txn, Step(t) PROVE InboxInv'
BY ApproveProposalKeeps, CommitApproveKeeps, SendTextKeeps, RecordWhatsAppSentKeeps,
   LockSessionKeeps, CommitMessageKeeps, MarkPublishedKeeps, CommitPublishedKeeps DEF Step

\* A failure of a request.
LEMMA FailureKeeps == ASSUME InboxInv, NEW t \in Txn, FailMessage(t) \/ GiveUp(t) PROVE InboxInv'
BY AnswerKeeps, RollbackKeeps DEF FailMessage, GiveUp

\* Every step keeps the invariant.
LEMMA NextKeeps == ASSUME InboxInv, [Next]_vars PROVE InboxInv'
<1>1. CASE UNCHANGED vars
  BY <1>1 DEF vars, data, world, InboxInv, TypeOK, ChannelsApart, RowsStand, MessagesNew, PublishesAll,
     OneDraftPerMessage, StatusTellsWhatWaits, HourlyLimit, Waiting, At
<1>2. CASE Next
  <2>1. CASE CreateDemo \/ ReceiveDemo \/ RecordQuoteShared \/ \E r \in Reply \cup {0} : SendDemo(r)
    BY <2>1, DemoKeeps
  <2>2. CASE \E m \in Message : Say(m) \/ ApplyMetaInbound(m) \/ CreateSession(m)
    BY <2>2, WorldKeeps, ApplyMetaInboundKeeps, CreateSessionKeeps
  <2>3. CASE \E x \in Sent, s \in {"sent", "delivered", "read", "failed"} : Progress(x, s) \/ ApplyMetaStatus(x, s)
    BY <2>3, WorldKeeps, ApplyMetaStatusKeeps DEF Reported
  <2>4. CASE SwitchSite \/ Expire \/ GetSession
    BY <2>4, WorldKeeps
  <2>5. CASE \E t \in Txn :
               \/ BeginApprove(t) \/ Step(t) \/ FailMessage(t) \/ GiveUp(t)
               \/ \E m \in Message : BeginMessage(t, m)
               \/ \E r \in Reply \cup {0} : BeginSend(t, r) \/ BeginPublish(t, r)
    BY <2>5, BeginApproveKeeps, StepKeeps, FailureKeeps, BeginMessageKeeps, BeginSendKeeps, BeginPublishKeeps
  <2> QED BY <1>2, <2>1, <2>2, <2>3, <2>4, <2>5 DEF Next
<1> QED BY <1>1, <1>2

\* The invariant holds whatever messages, bounds and requests there are.
THEOREM InboxInductive == Spec => []InboxInv
<1>1. Init => InboxInv
  BY InitInv
<1>2. InboxInv /\ [Next]_vars => InboxInv'
  BY NextKeeps
<1> QED BY <1>1, <1>2, PTL DEF Spec

\* However often a message is delivered, retried or answered at the same time, it
\* has one draft: CreateSession, applyMetaInbound and AddInboundMessage store it
\* behind the check that it is new.
THEOREM MessagesAnsweredOnce == Spec => []OneDraftPerMessage
<1>1. InboxInv => OneDraftPerMessage
  BY DEF InboxInv
<1> QED BY <1>1, InboxInductive, PTL

\* The status of a conversation tells what waits in it, on every channel:
\* RecordWebChatSent supersedes the drafts it saw under the lock of the
\* conversation, and applyMetaInbound closes whoever opts out.
THEOREM StatusIsTrue == Spec => []StatusTellsWhatWaits
<1>1. InboxInv => StatusTellsWhatWaits
  BY DEF InboxInv
<1> QED BY <1>1, InboxInductive, PTL

\* Any number of messages sent at once leaves a session within its hourly limit:
\* AddInboundMessage counts again behind the lock of the session.
THEOREM LimitHolds == Spec => []HourlyLimit
<1>1. InboxInv => HourlyLimit
  BY DEF InboxInv
<1> QED BY <1>1, InboxInductive, PTL

-----------------------------------------------------------------------------
(* Delivery reports *)

\* What a step may do to a row Meta has.
RowForward(r) ==
  out[r].sent # 0 =>
    /\ out[r].status \in {"READ", "FAILED"} => out'[r] = out[r]
    /\ out[r].status = "DELIVERED" => out'[r].status # "SENT"
    /\ out'[r].status # out[r].status =>
         \E s \in Reported : <<out[r].sent, s>> \in reported /\ out'[r].status = Normalized(s)

\* A step that leaves the rows Meta has is forward.
LEMMA SameForward ==
  ASSUME \A r \in Reply : out[r].sent # 0 => out'[r] = out[r]
  PROVE  \A r \in Reply : RowForward(r)
BY DEF RowForward

\* A report moves its row forward, to the status reported.
LEMMA ReportForward ==
  ASSUME InboxInv, NEW x \in Sent, NEW s \in Reported, ApplyMetaStatus(x, s)
  PROVE  \A r \in Reply : RowForward(r)
<1>1. PICK n \in Reply : out[n].sent = x /\ out' = [out EXCEPT ![n].status = Later(@, Normalized(s))]
  BY DEF ApplyMetaStatus
<1>2. <<x, s>> \in reported /\ out \in [Reply -> OutboundRow]
  BY InvParts DEF ApplyMetaStatus, TypeOK
<1>3. /\ out'[n].status = Later(out[n].status, Normalized(s))
      /\ out'[n] = [out[n] EXCEPT !.status = Later(out[n].status, Normalized(s))]
      /\ \A r \in Reply \ {n} : out'[r] = out[r]
  BY <1>1, <1>2 DEF OutboundRow
<1>4. /\ out[n].status \in {"READ", "FAILED"} => out'[n].status = out[n].status
      /\ out[n].status = "DELIVERED" => out'[n].status # "SENT"
      /\ out'[n].status # out[n].status => out'[n].status = Normalized(s)
  BY <1>3 DEF Later
<1>5. out'[n].status = out[n].status => out'[n] = out[n]
  BY <1>2, <1>3 DEF OutboundRow
<1>6. RowForward(n)
  BY <1>1, <1>2, <1>4, <1>5 DEF RowForward
<1> QED BY <1>3, <1>6 DEF RowForward

\* A new row is none of Meta's yet.
LEMMA NewReplyForward ==
  ASSUME TypeOK, RowsStand, Room, NEW status, NEW source, NEW sent,
         out' = NewReply(out, status, source, sent)
  PROVE  \A r \in Reply : RowForward(r)
<1>1. PICK n \in Reply : /\ out[n].status = "NONE"
                         /\ out' = [out EXCEPT ![n] = [status |-> status, source |-> source, sent |-> sent]]
  BY NewReplyRow
<1>2. out[n].sent = 0 /\ \A r \in Reply \ {n} : out'[r] = out[r]
  BY <1>1 DEF RowsStand, TypeOK
<1> QED BY <1>2, SameForward

\* Only reports change the status of what Meta has, and only forward.
LEMMA RowsForward == ASSUME InboxInv, Next PROVE \A r \in Reply : RowForward(r)
<1>0. TypeOK /\ Tables /\ RowsStand
  BY InvParts DEF Tables
<1>1. CASE out' = out
  BY <1>1, SameForward
<1>2. CASE channel # "WHATSAPP"
  BY <1>0, <1>2, SameForward DEF Tables
<1>3. ASSUME channel = "WHATSAPP", out' # out PROVE \A r \in Reply : RowForward(r)
  <2>1. session.status = "NONE" /\ proposal.status = "NONE" /\ TypeOK
    BY <1>0, <1>3 DEF Tables
  <2>2. \A t \in Txn : tx[t].op \in {"idle", "send"}
    BY <1>3, <2>1, InvParts DEF Sound, TypeOK, Request
  <2>3. CASE \E m \in Message : ApplyMetaInbound(m)
    BY <1>0, <1>3, <2>3, NewReplyForward DEF ApplyMetaInbound
  <2>4. CASE \E x \in Sent, s \in Reported : ApplyMetaStatus(x, s)
    BY <2>4, ReportForward
  <2>5. ASSUME NEW t \in Txn, RecordWhatsAppSent(t) PROVE \A r \in Reply : RowForward(r)
    <3>1. CASE Rollback(t)
      BY <1>3, <3>1 DEF Rollback, data
    <3>2. CASE ~ Rollback(t)
      <4>1. \A r \in Reply : out[r].sent # 0 => out'[r] = out[r]
        BY <2>5, <3>2, RecordRows DEF RecordWhatsAppSent
      <4> QED BY <4>1, SameForward
    <3> QED BY <3>1, <3>2
  <2>6. \/ \E m \in Message : ApplyMetaInbound(m)
        \/ \E x \in Sent, s \in Reported : ApplyMetaStatus(x, s)
        \/ \E t \in Txn : RecordWhatsAppSent(t)
    BY <1>3, <2>1, <2>2 DEF Next, Step, CreateDemo, ReceiveDemo, RecordQuoteShared, SendDemo, Say,
       CreateSession, Progress, SwitchSite, Expire, GetSession, BeginApprove, ApproveProposal, CommitApprove,
       SendText, LockSession, CommitMessage, MarkPublished, CommitPublished, FailMessage, GiveUp,
       BeginMessage, BeginSend, BeginPublish, Rollback, At, data, world, Reported
  <2> QED BY <2>3, <2>4, <2>5, <2>6
<1> QED BY <1>1, <1>2, <1>3

\* Late, doubled and reordered reports never take a message back, and none is
\* shown further than Meta said: applyMetaStatus keeps the status that is later.
THEOREM ReportsOnlyForward == Spec => DeliveryOnlyForward
<1>1. InboxInv /\ [Next]_vars =>
        [\A r \in Reply : out[r].sent # 0 =>
           /\ out[r].status \in {"READ", "FAILED"} => out'[r] = out[r]
           /\ out[r].status = "DELIVERED" => out'[r].status # "SENT"
           /\ out'[r].status # out[r].status =>
                \E s \in {"sent", "delivered", "read", "failed"} :
                  <<out[r].sent, s>> \in reported /\ out'[r].status = Normalized(s)]_vars
  BY RowsForward DEF RowForward, Reported
<1> QED BY <1>1, InboxInductive, PTL DEF Spec, DeliveryOnlyForward

-----------------------------------------------------------------------------
(* Waiting *)

\* What the lock table says of one request.
Committing(t) ==
  /\ lock["proposal"] = t => At(t, "approve", "commit")
  /\ lock["session"] = t => At(t, "message", "commit")
  /\ lock["conversation"] = t => At(t, "publish", "commit")

\* A request that ends holds nothing, and leaves the others what they hold.
LEMMA FinishCommits ==
  ASSUME InboxInv, HoldersCommit, NEW t \in Txn, Finish(t)
  PROVE  HoldersCommit'
<1>1. /\ tx' = [tx EXCEPT ![t] = NoRequest]
      /\ lock' = [row \in Row |-> IF lock[row] = t THEN None ELSE lock[row]]
      /\ tx \in [Txn -> Request]
  BY InvParts DEF Finish, Unlocked, TypeOK
<1>2. ASSUME NEW u \in Txn PROVE Committing(u)'
  <2>1. /\ u # None
        /\ \A row \in Row : lock'[row] = u => lock[row] = u /\ u # t
    BY <1>1, InboxAssumption
  <2>2. u # t => tx'[u] = tx[u]
    BY <1>1
  <2> QED BY <2>1, <2>2 DEF HoldersCommit, Committing, At, Row
<1> QED BY <1>2 DEF HoldersCommit, Committing

\* A request that goes on and holds none of the others' rows.
LEMMA OthersCommit ==
  ASSUME InboxInv, HoldersCommit, NEW t \in Txn, NEW x,
         tx' = [tx EXCEPT ![t] = x],
         \A u \in Txn \ {t}, row \in Row : lock'[row] = u => lock[row] = u,
         Committing(t)'
  PROVE  HoldersCommit'
<1>1. tx \in [Txn -> Request]
  BY InvParts DEF TypeOK
<1>2. \A u \in Txn \ {t} : tx'[u] = tx[u]
  BY <1>1
<1>3. \A u \in Txn \ {t} : Committing(u)'
  BY <1>2 DEF HoldersCommit, Committing, At, Row
<1> QED BY <1>3 DEF HoldersCommit, Committing

\* A request that begins, or goes on without a lock.
LEMMA UnlockedCommits ==
  ASSUME InboxInv, HoldersCommit, NEW t \in Txn, NEW x, tx' = [tx EXCEPT ![t] = x], lock' = lock,
         \/ tx[t].pc # "commit" \/ tx[t].op = "idle"
  PROVE  HoldersCommit'
<1>1. Committing(t)'
  BY DEF HoldersCommit, Committing, At
<1> QED BY <1>1, OthersCommit

\* A request that takes a free row is before the statement that frees it.
LEMMA LockedCommits ==
  ASSUME InboxInv, HoldersCommit, NEW t \in Txn, NEW x \in Request, NEW row \in Row,
         tx' = [tx EXCEPT ![t] = x], lock' = [lock EXCEPT ![row] = t],
         tx[t].pc # "commit", x.pc = "commit",
         <<row, x.op>> \in {<<"proposal", "approve">>, <<"session", "message">>, <<"conversation", "publish">>}
  PROVE  HoldersCommit'
<1>1. tx \in [Txn -> Request] /\ lock \in [Row -> Txn \cup {None}]
  BY InvParts DEF TypeOK
<1>2. tx'[t] = x /\ \A r \in Row \ {row} : lock'[r] # t
  BY <1>1 DEF HoldersCommit, At, Row
<1>3. Committing(t)'
  BY <1>2 DEF Committing, At, Row
<1> QED BY <1>1, <1>3, OthersCommit

\* Every step of a request.
LEMMA StepCommits == ASSUME InboxInv, HoldersCommit, NEW t \in Txn, Step(t) PROVE HoldersCommit'
<1>0. tx \in [Txn -> Request]
  BY InvParts DEF TypeOK
<1>1. CASE Finish(t)
  BY <1>1, FinishCommits
<1>2. CASE SendText(t)
  <2>1. PICK x \in Sent : tx' = [tx EXCEPT ![t].pc = "record", ![t].sent = x]
    BY <1>2 DEF SendText
  <2>2. tx' = [tx EXCEPT ![t] = [@ EXCEPT !.pc = "record", !.sent = x]]
    BY <2>1, <1>0
  <2> QED BY <1>2, <2>2, UnlockedCommits DEF SendText, At
<1>3. CASE ApproveProposal(t) /\ ~ Finish(t)
  <2>1. Go(t, "commit") /\ lock' = [lock EXCEPT !["proposal"] = t] /\ At(t, "approve", "proposal")
    BY <1>3 DEF ApproveProposal, Rollback
  <2>2. /\ tx' = [tx EXCEPT ![t] = [tx[t] EXCEPT !.pc = "commit"]]
        /\ [tx[t] EXCEPT !.pc = "commit"] \in Request
        /\ [tx[t] EXCEPT !.pc = "commit"].pc = "commit" /\ [tx[t] EXCEPT !.pc = "commit"].op = "approve"
    BY <1>0, <2>1 DEF Go, At, Request
  <2> QED BY <2>1, <2>2, LockedCommits DEF Row, At
<1>4. CASE LockSession(t) /\ ~ Finish(t)
  <2>1. Go(t, "commit") /\ lock' = [lock EXCEPT !["session"] = t] /\ At(t, "message", "session")
    BY <1>4 DEF LockSession, Answer
  <2>2. /\ tx' = [tx EXCEPT ![t] = [tx[t] EXCEPT !.pc = "commit"]]
        /\ [tx[t] EXCEPT !.pc = "commit"] \in Request
        /\ [tx[t] EXCEPT !.pc = "commit"].pc = "commit" /\ [tx[t] EXCEPT !.pc = "commit"].op = "message"
    BY <1>0, <2>1 DEF Go, At, Request
  <2> QED BY <2>1, <2>2, LockedCommits DEF Row, At
<1>5. CASE MarkPublished(t) /\ ~ Finish(t)
  <2> DEFINE stale == Waiting \ {tx[t].reply}
             x == [tx[t] EXCEPT !.pc = "commit", !.stale = stale]
  <2>1. /\ tx' = [tx EXCEPT ![t].pc = "commit", ![t].stale = stale]
        /\ lock' = [lock EXCEPT !["conversation"] = t] /\ At(t, "publish", "conversation")
    BY <1>5 DEF MarkPublished, Rollback
  <2>2. stale \subseteq Reply
    BY DEF Waiting
  <2>3. tx' = [tx EXCEPT ![t] = x] /\ x \in Request /\ x.pc = "commit" /\ x.op = "publish"
    BY <1>0, <2>1, <2>2 DEF At, Request
  <2> QED BY <2>1, <2>3, LockedCommits DEF Row, At
<1> QED BY <1>1, <1>2, <1>3, <1>4, <1>5 DEF Step, CommitApprove, RecordWhatsAppSent, CommitMessage,
     CommitPublished, Rollback, Answer

\* Every step.
LEMMA NextCommits == ASSUME InboxInv, HoldersCommit, [Next]_vars PROVE HoldersCommit'
<1>1. CASE UNCHANGED <<tx, lock>>
  BY <1>1 DEF HoldersCommit, At
<1>2. ASSUME NEW t \in Txn, NEW x, Begin(t, x), lock' = lock PROVE HoldersCommit'
  BY <1>2, IdleRequest, UnlockedCommits DEF Begin
<1>3. CASE \E t \in Txn : Step(t)
  BY <1>3, StepCommits
<1>4. CASE \E t \in Txn : FailMessage(t) \/ GiveUp(t)
  BY <1>4, FinishCommits DEF FailMessage, GiveUp, Answer, Rollback
<1>5. CASE \E t \in Txn : \/ BeginApprove(t) \/ \E m \in Message : BeginMessage(t, m)
                          \/ \E r \in Reply \cup {0} : BeginSend(t, r) \/ BeginPublish(t, r)
  BY <1>5, <1>2 DEF BeginApprove, BeginMessage, BeginSend, BeginPublish
<1>6. CASE UNCHANGED vars
  BY <1>1, <1>6 DEF vars
<1>7. CASE CreateDemo \/ ReceiveDemo \/ RecordQuoteShared \/ \E r \in Reply \cup {0} : SendDemo(r)
  BY <1>1, <1>7 DEF CreateDemo, ReceiveDemo, RecordQuoteShared, SendDemo
<1>8. CASE \E m \in Message : Say(m) \/ ApplyMetaInbound(m) \/ CreateSession(m)
  BY <1>1, <1>8 DEF Say, ApplyMetaInbound, CreateSession
<1>9. CASE \E x \in Sent, s \in {"sent", "delivered", "read", "failed"} : Progress(x, s) \/ ApplyMetaStatus(x, s)
  BY <1>1, <1>9 DEF Progress, ApplyMetaStatus
<1>10. CASE SwitchSite \/ Expire \/ GetSession
  BY <1>1, <1>10 DEF SwitchSite, Expire, GetSession
<1> QED BY <1>3, <1>4, <1>5, <1>6, <1>7, <1>8, <1>9, <1>10 DEF Next

\* Who holds a row is about to commit: Approve holds its proposal, and
\* AddInboundMessage its session, only while it waits for the conversation.
THEOREM HoldersInductive == Spec => []HoldersCommit
<1>1. Init => HoldersCommit
  BY InboxAssumption DEF Init, HoldersCommit, Row
<1>2. InboxInv /\ HoldersCommit /\ [Next]_vars => HoldersCommit'
  BY NextCommits
<1> QED BY <1>1, <1>2, InboxInductive, PTL DEF Spec

\* NoDeadlock: who holds the conversation waits for no row, and who holds
\* another row waits for the conversation, so that no circle closes.
THEOREM NobodyDeadlocks == Spec => []NoDeadlock
<1>1. HoldersCommit => NoDeadlock
  <2> SUFFICES ASSUME HoldersCommit, NEW C \in SUBSET Txn, C # {},
                      \A t \in C : \E u \in C : WaitsFor(t, u)
               PROVE  FALSE
    BY DEF NoDeadlock
  <2>1. ASSUME NEW u \in Txn, lock["conversation"] = u PROVE \A v \in Txn : ~ WaitsFor(u, v)
    <3>1. At(u, "publish", "commit")
      BY <2>1 DEF HoldersCommit
    <3> QED BY <3>1 DEF WaitsFor, Awaits, At
  <2>2. PICK t \in C : TRUE
    OBVIOUS
  <2>3. PICK u \in C : WaitsFor(t, u)
    OBVIOUS
  <2>4. PICK v \in C : WaitsFor(u, v)
    OBVIOUS
  <2>5. lock["conversation"] = u \/ At(u, "approve", "commit") \/ At(u, "message", "commit")
    BY <2>3 DEF WaitsFor, HoldersCommit, Row
  <2>6. lock["conversation"] = v
    BY <2>1, <2>4, <2>5 DEF WaitsFor, Awaits, At
  <2> QED BY <2>1, <2>6
<1> QED BY <1>1, HoldersInductive, PTL
===============================================================================
