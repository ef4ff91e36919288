---------------------------------- MODULE Team ----------------------------------
(***************************************************************************)
(* The people of an organization: identity/service.go and repository.go.   *)
(* An invitation names an e-mail address, and here that is the user who    *)
(* signs in with it.  A request reads the role of its actor as it arrives  *)
(* and not again (tenantMiddleware), and holds a connection of its own.    *)
(***************************************************************************)
EXTENDS Naturals, FiniteSets

CONSTANTS
  User,         \* people who can sign in
  Founder,      \* the one who created the organization
  Invitation,   \* a bound on the rows of tenant_invitations
  Txn,          \* requests being served
  None

ASSUME TeamAssumption ==
  /\ Founder \in User /\ None \notin User \cup Invitation \cup Txn

VARIABLES
  member,       \* tenant_memberships: role and status of each user
  invitation,   \* tenant_invitations, and whether the seven days are over
  lock,         \* who holds the row locks and the advisory locks
  tx            \* the requests under way

team == <<member, invitation>>

Role == {"OWNER", "ADMIN", "MANAGER", "STAFF"}
Invitable == {"ADMIN", "MANAGER", "STAFF"}
NoMember == [role |-> "NONE", status |-> "NONE"]
NoInvitation == [user |-> None, role |-> "NONE", status |-> "NONE", lapsed |-> FALSE]
NoRequest == [op |-> "idle", pc |-> "idle", key |-> None, role |-> None, status |-> None, flag |-> None,
              price |-> 0, lines |-> <<>>, at |-> 0]

\* CreateOrganization, and whoever joined before the run begins.
InitTeam ==
  /\ member \in [User -> {NoMember} \cup [role : Invitable, status : {"ACTIVE", "SUSPENDED"}]
                                    \cup {[role |-> "OWNER", status |-> "ACTIVE"]}]
  /\ \A u \in User : member[u].role = "OWNER" <=> u = Founder
  /\ invitation = [i \in Invitation |-> NoInvitation]
  /\ tx = [t \in Txn |-> NoRequest]

-----------------------------------------------------------------------------
(* Requests and roles *)

Free(row) == lock[row] = None
Begin(t, request) == tx[t] = NoRequest /\ tx' = [tx EXCEPT ![t] = request]
At(t, op, pc) == tx[t].op = op /\ tx[t].pc = pc
Go(t, pc) == tx' = [tx EXCEPT ![t].pc = pc]
Lock(t, row) == Free(row) /\ lock' = [lock EXCEPT ![row] = t]
Finish(t) ==
  /\ tx' = [tx EXCEPT ![t] = NoRequest]
  /\ lock' = [row \in DOMAIN lock |-> IF lock[row] = t THEN None ELSE lock[row]]

\* The role under which the middleware lets a user in.
RoleOf(u) == IF member[u].status = "ACTIVE" THEN member[u].role ELSE "NONE"

\* The permissions that the modelled operations ask for; "catalog.manage" stands
\* for package.manage and public_catalog.manage too, which the same roles have.
HasPermission(role, permission) ==
  CASE permission \in {"team.manage", "catalog.manage"} -> role \in {"OWNER", "ADMIN"}
    [] permission = "quote_request.manage" -> role \in {"OWNER", "ADMIN", "MANAGER"}

May(u, permission) == HasPermission(RoleOf(u), permission)

CanManageMember(actor, target) ==
  actor = "OWNER" \/ (actor = "ADMIN" /\ target \in {"MANAGER", "STAFF"})

-----------------------------------------------------------------------------
(* Invitations *)

Lapse(i) ==
  /\ invitation[i].status = "PENDING" /\ ~ invitation[i].lapsed
  /\ invitation' = [invitation EXCEPT ![i].lapsed = TRUE]
  /\ UNCHANGED <<member, lock, tx>>

Pending(user) == {i \in Invitation : invitation[i].user = user /\ invitation[i].status = "PENDING"}

\* CreateInvitation: the role is checked, and pending invitations of the address
\* whose days are over are marked.
BeginInvite(t, actor, user, role) ==
  LET over == {i \in Pending(user) : invitation[i].lapsed}
  IN  /\ May(actor, "team.manage") /\ role \in Invitable
      /\ ~ (RoleOf(actor) = "ADMIN" /\ role = "ADMIN")
      /\ \A i \in over : Free(i)
      /\ Begin(t, [NoRequest EXCEPT !.op = "invite", !.pc = "check", !.key = user, !.role = role])
      /\ invitation' = [i \in Invitation |-> IF i \in over THEN [invitation[i] EXCEPT !.status = "EXPIRED"]
                                              ELSE invitation[i]]
      /\ UNCHANGED <<member, lock>>

\* The rest of EnsureInvitationAllowed.
CheckInvitation(t) ==
  /\ At(t, "invite", "check")
  /\ IF member[tx[t].key] # NoMember \/ \E i \in Pending(tx[t].key) : ~ invitation[i].lapsed
     THEN Finish(t)
     ELSE Go(t, "insert") /\ UNCHANGED lock
  /\ UNCHANGED team

\* The unique index allows one pending row for an address, over or not.
InsertInvitation(t) ==
  /\ At(t, "invite", "insert")
  /\ IF Pending(tx[t].key) # {} THEN UNCHANGED invitation
     ELSE \E i \in Invitation :
            /\ invitation[i] = NoInvitation
            /\ invitation' = [invitation EXCEPT ![i] = [user |-> tx[t].key, role |-> tx[t].role,
                                                        status |-> "PENDING", lapsed |-> FALSE]]
  /\ Finish(t) /\ UNCHANGED member

RevokeInvitation(actor, i) ==
  /\ May(actor, "team.manage")
  /\ invitation[i].status = "PENDING" /\ Free(i)
  /\ invitation' = [invitation EXCEPT ![i].status = "REVOKED"]
  /\ UNCHANGED <<member, lock, tx>>

Acceptable(i) == invitation[i].status = "PENDING" /\ ~ invitation[i].lapsed

\* Mutant of BeginAccept: the row is read without FOR UPDATE.
BeginAcceptUnlocked(t, i) ==
  /\ Acceptable(i)
  /\ Begin(t, [NoRequest EXCEPT !.op = "accept", !.pc = "member", !.key = i])
  /\ UNCHANGED <<team, lock>>

BeginAccept(t, i) ==
  /\ Acceptable(i) /\ Lock(t, i)
  /\ Begin(t, [NoRequest EXCEPT !.op = "accept", !.pc = "member", !.key = i])
  /\ UNCHANGED team

CheckMembership(t) ==
  /\ At(t, "accept", "member")
  /\ IF member[invitation[tx[t].key].user] # NoMember
     THEN Finish(t)
     ELSE Go(t, "join") /\ UNCHANGED lock
  /\ UNCHANGED team

\* The membership is inserted, or takes the role of the invitation.
CommitAccept(t) ==
  LET i == tx[t].key
  IN  /\ At(t, "accept", "join")
      /\ member' = [member EXCEPT ![invitation[i].user] = [role |-> invitation[i].role, status |-> "ACTIVE"]]
      /\ invitation' = [invitation EXCEPT ![i].status = "ACCEPTED"]
      /\ Finish(t)

-----------------------------------------------------------------------------
(* Members *)

\* UpdateMember: the hierarchy is checked against the target's role as it is read
\* here; None stands for a field left out of the request.
BeginUpdateMember(t, actor, target, role, status) ==
  /\ May(actor, "team.manage") /\ member[target] # NoMember
  /\ CanManageMember(RoleOf(actor), member[target].role)
  /\ role \in Invitable \cup {None} /\ ~ (RoleOf(actor) = "ADMIN" /\ role = "ADMIN")
  /\ ~ (actor = target /\ status = "SUSPENDED")
  /\ Begin(t, [NoRequest EXCEPT !.op = "member", !.pc = "write", !.key = target, !.role = role, !.status = status])
  /\ UNCHANGED <<team, lock>>

LastOwner(u) == {v \in User : member[v] = [role |-> "OWNER", status |-> "ACTIVE"]} \subseteq {u}

\* The locked row decides whether the last owner would go.
WriteMember(t) ==
  LET u == tx[t].key
      new == [role |-> IF tx[t].role = None THEN member[u].role ELSE tx[t].role,
              status |-> IF tx[t].status = None THEN member[u].status ELSE tx[t].status]
  IN  /\ At(t, "member", "write")
      /\ IF /\ member[u].role = "OWNER" /\ LastOwner(u)
            /\ tx[t].role # None \/ tx[t].status = "SUSPENDED"
         THEN UNCHANGED member
         ELSE member' = [member EXCEPT ![u] = new]
      /\ Finish(t) /\ UNCHANGED invitation

-----------------------------------------------------------------------------
BeginTeam(t) ==
  \/ \E actor, user \in User, role \in Invitable : BeginInvite(t, actor, user, role)
  \/ \E i \in Invitation : BeginAccept(t, i)
  \/ \E actor, target \in User, role \in Invitable \cup {None}, status \in {"ACTIVE", "SUSPENDED", None} :
       BeginUpdateMember(t, actor, target, role, status)

TeamStep(t) ==
  \/ CheckInvitation(t) \/ InsertInvitation(t)
  \/ CheckMembership(t) \/ CommitAccept(t)
  \/ WriteMember(t)

TeamNext ==
  \/ \E i \in Invitation : Lapse(i)
  \/ \E actor \in User, i \in Invitation : RevokeInvitation(actor, i)

-----------------------------------------------------------------------------
(* Properties *)

\* An invitation is settled once and says what happened: it admits somebody who
\* was not a member, in the role it offered, or it was revoked or ran out and
\* admits nobody.  Not two requests with the same link, nor a link revoked or
\* issued again while it is being accepted, give a member a role twice.
JoinsOnce ==
  [][ /\ \A i \in Invitation :
           /\ invitation[i].status \in {"ACCEPTED", "REVOKED", "EXPIRED"} => invitation'[i] = invitation[i]
           /\ invitation'[i].status = "ACCEPTED" /\ invitation[i].status # "ACCEPTED" =>
                member[invitation[i].user] = NoMember
      /\ \A u \in User : member[u] = NoMember /\ member'[u] # NoMember =>
           \E i \in Invitation : /\ invitation[i].status = "PENDING" /\ invitation'[i].status = "ACCEPTED"
                                 /\ invitation[i].user = u /\ invitation[i].role = member'[u].role ]_team

\* The organization keeps its founder as its owner, active, and has no other: no
\* acceptance replaces a membership, and a request to demote or suspend the last
\* owner is refused once the row is locked, whatever its actor could do when it
\* began (UpdateMember, ErrLastOwner).
OwnerStands ==
  \A u \in User : IF u = Founder THEN member[u] = [role |-> "OWNER", status |-> "ACTIVE"]
                               ELSE member[u].role # "OWNER"

=================================================================================
