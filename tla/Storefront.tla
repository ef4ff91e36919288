------------------------------- MODULE Storefront -------------------------------
(***************************************************************************)
(* The public site of an organization: the catalog it shows and the quote  *)
(* requests a visitor sends (publiccatalog), over the resources (catalog)  *)
(* and the packages (packages) that staff change meanwhile, and who of the *)
(* team may.  Prices add up here; how they are divided is in Money.        *)
(*                                                                         *)
(* The requests are those of one visitor, under one submitter hash, with   *)
(* one address to write to.  There is one package, priced by its items.    *)
(***************************************************************************)
EXTENDS Team, Sums

CONSTANTS
  Resource,     \* what the organization rents
  Price,        \* base prices of resources
  Request,      \* a bound on the rows of quote_requests
  Limit,        \* how many requests of a visitor an hour takes
  Hour,         \* its length
  MaxTime,      \* a bound on the clock
  MaxEdits      \* a bound on the changes of the catalog

ASSUME StorefrontAssumption ==
  /\ Limit \in Nat \ {0} /\ Hour \in Nat \ {0} /\ MaxTime \in Nat /\ MaxEdits \in Nat
  /\ Price \subseteq Nat /\ Price # {} /\ IsFiniteSet(Request) /\ IsFiniteSet(Resource)
  /\ None \notin Resource \cup Request

VARIABLES
  site,         \* public_catalog_settings: the site is on, and takes requests
  resource,     \* resources: price, active, public_visible
  package,      \* the package: its items, active, public_visible
  request,      \* quote_requests: status, when, estimated_total, and charged, the
                \* line_total of its row of quote_request_packages
  quotes,       \* how many quotes conversions have made of each
  customers,    \* how many customers they have made of the address
  clock, edits

catalog == <<site, resource, package, edits>>
desk == <<request, quotes, customers>>
vars == <<team, catalog, desk, clock, lock, tx>>

NoQuoteRequest == [status |-> "NONE", created |-> 0, charged |-> 0, total |-> 0]

Init ==
  /\ InitTeam
  /\ lock = [row \in Invitation \cup Request \cup {"visitor"} |-> None]
  /\ site = [enabled |-> TRUE, requests |-> TRUE]
  /\ resource = [r \in Resource |-> [price |-> CHOOSE p \in Price : TRUE, active |-> TRUE, visible |-> FALSE]]
  /\ package = [items |-> Resource, active |-> TRUE, visible |-> TRUE]
  /\ request = [q \in Request |-> NoQuoteRequest]
  /\ quotes = [q \in Request |-> 0] /\ customers = 0 /\ clock = 0 /\ edits = 0

Tick == clock < MaxTime /\ clock' = clock + 1 /\ UNCHANGED <<team, catalog, desk, lock, tx>>

-----------------------------------------------------------------------------
(* The catalog *)

Edit == edits < MaxEdits /\ edits' = edits + 1

\* UpdateSettings
UpdateSettings(actor, enabled, requests) ==
  /\ May(actor, "catalog.manage") /\ Edit
  /\ site' = [enabled |-> enabled, requests |-> requests]
  /\ UNCHANGED <<resource, package, team, desk, clock, lock, tx>>

\* UpdateResource: the row is read, patched in memory (None: not in the patch)
\* and written back whole; an inactive one is withdrawn from the site.
BeginUpdateResource(t, actor, r, price, active) ==
  /\ May(actor, "catalog.manage") /\ Edit
  /\ Begin(t, [NoRequest EXCEPT !.op = "resource", !.pc = "write", !.key = r,
                 !.price = IF price = None THEN resource[r].price ELSE price,
                 !.flag = IF active = None THEN resource[r].active ELSE active])
  /\ UNCHANGED <<site, resource, package, team, desk, clock, lock>>

WriteResource(t) ==
  LET r == tx[t].key
  IN  /\ At(t, "resource", "write")
      /\ resource' = [resource EXCEPT ![r] = [price |-> tx[t].price, active |-> tx[t].flag,
                                              visible |-> tx[t].flag /\ @.visible]]
      /\ Finish(t) /\ UNCHANGED <<site, package, edits, team, desk, clock>>

\* UpdateResourcePublication: whether it is active is read before, and checked by
\* the table (resources_public_visible_requires_active) when it is written.
BeginPublish(t, actor, r, visible) ==
  /\ May(actor, "catalog.manage") /\ Edit
  /\ visible => resource[r].active
  /\ Begin(t, [NoRequest EXCEPT !.op = "publish", !.pc = "write", !.key = r, !.flag = visible])
  /\ UNCHANGED <<site, resource, package, team, desk, clock, lock>>

WritePublication(t) ==
  LET r == tx[t].key
      visible == tx[t].flag
  IN  /\ At(t, "publish", "write")
      /\ resource' = IF visible => resource[r].active
                     THEN [resource EXCEPT ![r].visible = visible] ELSE resource
      /\ Finish(t) /\ UNCHANGED <<site, package, edits, team, desk, clock>>

\* Update of a package: replaceItems finds active resources only, or all is undone.
UpdatePackage(actor, items, active) ==
  /\ May(actor, "catalog.manage") /\ Edit
  /\ items # {} /\ \A r \in items : resource[r].active
  /\ package' = [items |-> items, active |-> active, visible |-> active /\ package.visible]
  /\ UNCHANGED <<site, resource, team, desk, clock, lock, tx>>

ArchivePackage(actor) ==
  /\ May(actor, "catalog.manage") /\ Edit
  /\ package' = [package EXCEPT !.active = FALSE, !.visible = FALSE]
  /\ UNCHANGED <<site, resource, team, desk, clock, lock, tx>>

Ready == package.active /\ package.items # {} /\ \A r \in package.items : resource[r].active

\* UpdatePackagePublication, likewise.
BeginPublishPackage(t, actor, visible) ==
  /\ May(actor, "catalog.manage") /\ Edit
  /\ visible => Ready
  /\ Begin(t, [NoRequest EXCEPT !.op = "publish package", !.pc = "write", !.flag = visible])
  /\ UNCHANGED <<site, resource, package, team, desk, clock, lock>>

WritePackagePublication(t) ==
  /\ At(t, "publish package", "write")
  /\ package' = IF tx[t].flag => package.active THEN [package EXCEPT !.visible = tx[t].flag] ELSE package
  /\ Finish(t) /\ UNCHANGED <<site, resource, edits, team, desk, clock>>

-----------------------------------------------------------------------------
(* A visitor's request *)

Recent(since) == {q \in Request : request[q].status # "NONE" /\ request[q].created >= since}
Ago(time) == IF time > Hour THEN time - Hour ELSE 0

Lines == [r \in package.items |-> resource[r].price]
Cost(lines) == SumOver(lines, DOMAIN lines)

\* SubmitQuoteRequest up to the package: the site's settings and the first count.
BeginSubmit(t) ==
  /\ site.enabled /\ site.requests
  /\ Cardinality(Recent(Ago(clock))) < Limit
  /\ Begin(t, [NoRequest EXCEPT !.op = "submit", !.pc = "summary"])
  /\ UNCHANGED <<team, catalog, desk, clock, lock>>

\* The first query of packages' Get: the effective price, and the snapshot of
\* the items for the second.
ReadSummary(t) ==
  /\ At(t, "submit", "summary")
  /\ tx' = [tx EXCEPT ![t] = IF Ready /\ package.visible
                             THEN [@ EXCEPT !.pc = "items", !.price = Cost(Lines), !.lines = Lines]
                             ELSE NoRequest]
  /\ UNCHANGED <<team, catalog, desk, clock, lock>>

\* Mutant of Snapshot: the transaction is not a repeatable read.
SnapshotNow(t) == Lines

Snapshot(t) == tx[t].lines

\* Its second query, and the begin of CreateQuoteRequest, whose NOW() is this.
ReadItems(t) ==
  /\ At(t, "submit", "items")
  /\ tx' = [tx EXCEPT ![t].pc = "lock", ![t].lines = Snapshot(t), ![t].at = clock]
  /\ UNCHANGED <<team, catalog, desk, clock, lock>>

\* Mutant of LockSubmitter: the first count is relied on.
LockSubmitterUncounted(t) ==
  /\ At(t, "submit", "lock")
  /\ Lock(t, "visitor") /\ Go(t, "insert")
  /\ UNCHANGED <<team, catalog, desk, clock>>

\* The advisory lock of the submitter, and the count under it.
LockSubmitter(t) ==
  /\ At(t, "submit", "lock") /\ Free("visitor")
  /\ IF Cardinality(Recent(Ago(tx[t].at))) < Limit
     THEN Lock(t, "visitor") /\ Go(t, "insert")
     ELSE Finish(t)
  /\ UNCHANGED <<team, catalog, desk, clock>>

\* The package's row has the price of the summary; the estimated total is added up
\* from the lines of the items, with no discount or charge on a package priced so.
CommitRequest(t) ==
  /\ At(t, "submit", "insert")
  /\ \E q \in Request :
       /\ request[q] = NoQuoteRequest
       /\ request' = [request EXCEPT ![q] = [status |-> "NEW", created |-> tx[t].at,
                                             charged |-> tx[t].price, total |-> Cost(tx[t].lines)]]
  /\ Finish(t) /\ UNCHANGED <<team, catalog, quotes, customers, clock>>

-----------------------------------------------------------------------------
(* What staff do with it *)

UpdateQuoteRequestStatus(actor, q, status) ==
  /\ May(actor, "quote_request.manage")
  /\ request[q].status \notin {"NONE", "CONVERTED"} /\ Free(q)
  /\ request' = [request EXCEPT ![q].status = status]
  /\ UNCHANGED <<team, catalog, quotes, customers, clock, lock, tx>>

Convertible(q) == request[q].status \in {"NEW", "IN_REVIEW"}

\* Mutant of BeginConvert: the row is read without FOR UPDATE.
BeginConvertUnlocked(t, actor, q) ==
  /\ May(actor, "quote_request.manage") /\ Convertible(q)
  /\ Begin(t, [NoRequest EXCEPT !.op = "convert", !.pc = "customer", !.key = q])
  /\ UNCHANGED <<team, catalog, desk, clock, lock>>

BeginConvert(t, actor, q) ==
  /\ May(actor, "quote_request.manage") /\ Convertible(q)
  /\ Lock(t, q)
  /\ Begin(t, [NoRequest EXCEPT !.op = "convert", !.pc = "customer", !.key = q])
  /\ UNCHANGED <<team, catalog, desk, clock>>

\* A customer with this address, or a new one.
ResolveCustomer(t) ==
  /\ At(t, "convert", "customer")
  /\ tx' = [tx EXCEPT ![t].pc = "commit", ![t].flag = (customers = 0)]
  /\ UNCHANGED <<team, catalog, desk, clock, lock>>

CommitConvert(t) ==
  LET q == tx[t].key
  IN  /\ At(t, "convert", "commit")
      /\ quotes' = [quotes EXCEPT ![q] = @ + 1]
      /\ customers' = IF tx[t].flag THEN customers + 1 ELSE customers
      /\ request' = [request EXCEPT ![q].status = "CONVERTED"]
      /\ Finish(t) /\ UNCHANGED <<team, catalog, clock>>

-----------------------------------------------------------------------------
\* A request fails, or its connection is lost, before anything is committed.
GiveUp(t) == tx[t] # NoRequest /\ Finish(t) /\ UNCHANGED <<team, catalog, desk, clock>>

\* Bounds: the team changes while the site is as it was at first; the site while
\* no invitation was made and whoever else is in the team is an active manager,
\* for a role is only read when a request begins.
SiteQuiet == edits = 0 /\ clock = 0 /\ \A q \in Request : request[q] = NoQuoteRequest
TeamQuiet ==
  /\ \A i \in Invitation : invitation[i] = NoInvitation
  /\ \A u \in User \ {Founder} : member[u] = [role |-> "MANAGER", status |-> "ACTIVE"]
Elsewhere == UNCHANGED <<catalog, desk, clock>>

BeginStorefront(t) ==
  \/ BeginSubmit(t)
  \/ \E actor \in User, r \in Resource, price \in Price \cup {None}, active \in {TRUE, FALSE, None} :
       BeginUpdateResource(t, actor, r, price, active)
  \/ \E actor \in User, r \in Resource, visible \in BOOLEAN : BeginPublish(t, actor, r, visible)
  \/ \E actor \in User, visible \in BOOLEAN : BeginPublishPackage(t, actor, visible)
  \/ \E actor \in User, q \in Request : BeginConvert(t, actor, q)

StorefrontStep(t) ==
  \/ WriteResource(t) \/ WritePublication(t) \/ WritePackagePublication(t)
  \/ ReadSummary(t) \/ ReadItems(t) \/ LockSubmitter(t) \/ CommitRequest(t)
  \/ ResolveCustomer(t) \/ CommitConvert(t)

StorefrontNext ==
  \/ \E actor \in User, enabled, requests \in BOOLEAN : UpdateSettings(actor, enabled, requests)
  \/ \E actor \in User, items \in SUBSET Resource, active \in BOOLEAN : UpdatePackage(actor, items, active)
  \/ \E actor \in User : ArchivePackage(actor)
  \/ \E actor \in User, q \in Request, status \in {"NEW", "IN_REVIEW", "CLOSED", "SPAM"} :
       UpdateQuoteRequestStatus(actor, q, status)
  \/ Tick

Next ==
  \/ SiteQuiet /\ Elsewhere /\ (TeamNext \/ \E t \in Txn : BeginTeam(t))
  \/ Elsewhere /\ \E t \in Txn : TeamStep(t)
  \/ TeamQuiet /\ (StorefrontNext \/ \E t \in Txn : BeginStorefront(t) \/ StorefrontStep(t))
  \/ \E t \in Txn : GiveUp(t)

Spec == Init /\ [][Next]_vars

-----------------------------------------------------------------------------
(* Properties *)

\* No hour, wherever it begins, holds more requests of a visitor than the limit:
\* not when several are being served at once, and not when one waits so long for
\* its turn that those behind it carry a later time.
RequestsWithinLimit ==
  \A since \in 0 .. clock :
    Cardinality({q \in Recent(since) : request[q].created <= since + Hour}) <= Limit

\* A request is the source of one quote at most, and it is marked converted when
\* there is one: not two members who convert it together, nor one who closes it
\* meanwhile, break that.
OneQuotePerRequest ==
  \A q \in Request : quotes[q] = IF request[q].status = "CONVERTED" THEN 1 ELSE 0

\* What a stored request charges for its package is what the lines of the package's
\* items, which the estimated total adds up, come to, whatever was done to the
\* catalog while it was sent: the price of the package and the lines are read by
\* two queries.
PricedAsItsLines == \A q \in Request : request[q].charged = request[q].total
-----------------------------------------------------------------------------
(* The inductive invariant: what a request holds, and what it read before   *)
(* that still stands when it commits.                                       *)

Standing == {NoMember} \cup [role : Role, status : {"ACTIVE", "SUSPENDED"}]
InvitationRow ==
  [user : User \cup {None}, role : Invitable \cup {"NONE"},
   status : {"NONE", "PENDING", "ACCEPTED", "REVOKED", "EXPIRED"}, lapsed : BOOLEAN]
LineItems == {<<>>} \cup UNION {[S -> Price] : S \in SUBSET Resource}
QuoteRequest ==
  [status : {"NONE", "NEW", "IN_REVIEW", "CLOSED", "SPAM", "CONVERTED"}, created : Nat,
   charged : Nat, total : Nat]
TxRequest ==
  [op : {"idle", "invite", "accept", "member", "resource", "publish", "publish package", "submit", "convert"},
   pc : {"idle", "check", "insert", "member", "join", "write", "summary", "items", "lock", "customer", "commit"},
   key : User \cup Invitation \cup Resource \cup Request \cup {None},
   role : Invitable \cup {None}, status : {"ACTIVE", "SUSPENDED", None}, flag : BOOLEAN \cup {None},
   price : Nat, lines : LineItems, at : Nat]

TypeOK ==
  /\ member \in [User -> Standing] /\ invitation \in [Invitation -> InvitationRow]
  /\ lock \in [Invitation \cup Request \cup {"visitor"} -> Txn \cup {None}]
  /\ tx \in [Txn -> TxRequest]
  /\ resource \in [Resource -> [price : Price, active : BOOLEAN, visible : BOOLEAN]]
  /\ package \in [items : SUBSET Resource, active : BOOLEAN, visible : BOOLEAN]
  /\ request \in [Request -> QuoteRequest] /\ quotes \in [Request -> Nat] /\ clock \in Nat

\* The unique index on the pending invitations of an address.
OnePending ==
  \A i, j \in Invitation :
    i # j /\ invitation[i].status = "PENDING" /\ invitation[j].status = "PENDING" =>
      invitation[i].user # invitation[j].user

\* What a request has read and relies on.  A change of a resource, of a member or
\* of the address of an invitation finds its row.
ReadsStand(t) ==
  /\ tx[t].op = "invite" => tx[t].key \in User /\ tx[t].role \in Invitable
  /\ tx[t].op = "accept" =>
       /\ tx[t].key \in Invitation /\ lock[tx[t].key] = t
       /\ invitation[tx[t].key].status = "PENDING"
  /\ At(t, "accept", "join") => member[invitation[tx[t].key].user] = NoMember
  /\ tx[t].op = "member" => tx[t].key \in User /\ member[tx[t].key] # NoMember
  /\ tx[t].op \in {"resource", "publish"} => tx[t].key \in Resource
  /\ tx[t].op \in {"resource", "publish", "publish package"} => tx[t].flag \in BOOLEAN
  /\ tx[t].op = "resource" => tx[t].price \in Price
  /\ tx[t].op = "submit" /\ tx[t].pc \in {"items", "lock", "insert"} => tx[t].price = Cost(tx[t].lines)
  /\ At(t, "submit", "insert") => lock["visitor"] = t /\ Cardinality(Recent(Ago(tx[t].at))) < Limit
  /\ tx[t].op = "convert" =>
       tx[t].key \in Request /\ lock[tx[t].key] = t /\ Convertible(tx[t].key)

\* The limit, for hours that begin after now as well.
WithinLimit ==
  \A since \in Nat : Cardinality({q \in Recent(since) : request[q].created <= since + Hour}) <= Limit

\* Who was invited has an address and a role.
InvitationsNamed ==
  \A i \in Invitation : invitation[i].status # "NONE" =>
    invitation[i].user \in User /\ invitation[i].role \in Invitable

OfficeInv ==
  /\ TypeOK /\ OnePending /\ InvitationsNamed /\ WithinLimit
  /\ OneQuotePerRequest /\ PricedAsItsLines
  /\ \A t \in Txn : ReadsStand(t)
=================================================================================
