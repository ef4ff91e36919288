---------------------------- MODULE Storefront_proofs ----------------------------
(***************************************************************************)
(* Proofs about Storefront and the team behind it, for any users,          *)
(* invitations, resources, requests, limits and numbers of requests being  *)
(* served: what a request holds locked when it commits, and what it read   *)
(* that still stands.  None of them needs the bounds on when the team and  *)
(* the site may change.                                                    *)
(***************************************************************************)
EXTENDS Storefront, SumTheorems

\* The parts of the invariant that are about the team, and about public requests.
TeamTables == OnePending /\ InvitationsNamed
DeskTables == WithinLimit /\ OneQuotePerRequest /\ PricedAsItsLines

\* The invariant is about the types, the tables and each request.
LEMMA InvParts ==
  /\ OfficeInv <=> TypeOK /\ TeamTables /\ DeskTables /\ \A t \in Txn : ReadsStand(t)
  /\ OfficeInv' <=> TypeOK' /\ TeamTables' /\ DeskTables' /\ \A t \in Txn : ReadsStand(t)'
BY DEF OfficeInv, TeamTables, DeskTables

\* An idle connection.
LEMMA IdleRequest ==
  /\ NoRequest \in TxRequest
  /\ NoRequest.op = "idle" /\ NoRequest.pc = "idle"
BY DEF NoRequest, TxRequest, LineItems

\* Nothing was read by an idle connection.
LEMMA IdleStands == ASSUME NEW t \in Txn, tx'[t] = NoRequest PROVE ReadsStand(t)'
BY IdleRequest DEF ReadsStand, At

\* The end of a request leaves the locks of the others.
LEMMA FinishFacts ==
  ASSUME TypeOK, NEW t \in Txn, Finish(t)
  PROVE  /\ tx'[t] = NoRequest /\ \A u \in Txn \ {t} : tx'[u] = tx[u]
         /\ \A u \in Txn \ {t}, row \in Invitation \cup Request \cup {"visitor"} : lock[row] = u => lock'[row] = u
         /\ tx' \in [Txn -> TxRequest]
         /\ lock' \in [Invitation \cup Request \cup {"visitor"} -> Txn \cup {None}]
BY IdleRequest DEF TypeOK, Finish

\* What a request read stands while nobody touches the rows it holds, makes a
\* member of the user it admits, or removes a member.
LEMMA ReadsFrame ==
  ASSUME NEW u \in Txn, ReadsStand(u), tx'[u] = tx[u],
         \A row \in Invitation \cup Request \cup {"visitor"} : lock[row] = u => lock'[row] = u,
         \A i \in Invitation : lock[i] = u /\ invitation[i].status = "PENDING" =>
           /\ invitation'[i].status = "PENDING" /\ invitation'[i].user = invitation[i].user
           /\ member[invitation[i].user] = NoMember => member'[invitation[i].user] = NoMember,
         \A v \in User : member[v] # NoMember => member'[v] # NoMember,
         lock["visitor"] = u => \A q \in Request : /\ request'[q].status = "NONE" <=> request[q].status = "NONE"
                                                   /\ request'[q].created = request[q].created,
         \A q \in Request : lock[q] = u /\ Convertible(q) => request'[q].status = request[q].status
  PROVE  ReadsStand(u)'
<1>1. ASSUME At(u, "submit", "insert")
      PROVE  lock'["visitor"] = u /\ (Cardinality(Recent(Ago(tx[u].at))) < Limit)'
  <2>1. lock["visitor"] = u /\ Cardinality(Recent(Ago(tx[u].at))) < Limit
    BY <1>1 DEF ReadsStand
  <2>2. Recent(Ago(tx[u].at))' = Recent(Ago(tx[u].at))
    BY <2>1 DEF Recent, Ago
  <2>3. Cardinality(Recent(Ago(tx[u].at)))' = Cardinality(Recent(Ago(tx[u].at)))
    BY <2>2
  <2> QED BY <2>1, <2>3
<1>2. ASSUME tx[u].op = "accept"
      PROVE  /\ tx'[u].key \in Invitation /\ lock'[tx'[u].key] = u
             /\ invitation'[tx'[u].key].status = "PENDING"
             /\ At(u, "accept", "join") => member'[invitation'[tx'[u].key].user] = NoMember
  BY <1>2 DEF ReadsStand, At
<1>3. ASSUME tx[u].op = "convert"
      PROVE  /\ tx'[u].key \in Request /\ lock'[tx'[u].key] = u /\ Convertible(tx[u].key)'
  BY <1>3 DEF ReadsStand, Convertible
<1>4. /\ tx'[u].op = "invite" => tx'[u].key \in User /\ tx'[u].role \in Invitable
      /\ tx'[u].op = "member" => tx'[u].key \in User /\ member'[tx'[u].key] # NoMember
      /\ tx'[u].op \in {"resource", "publish"} => tx'[u].key \in Resource
      /\ tx'[u].op \in {"resource", "publish", "publish package"} => tx'[u].flag \in BOOLEAN
      /\ tx'[u].op = "resource" => tx'[u].price \in Price
      /\ tx'[u].op = "submit" /\ tx'[u].pc \in {"items", "lock", "insert"} => tx'[u].price = Cost(tx'[u].lines)
  BY DEF ReadsStand
<1>5. At(u, "submit", "insert")' => lock'["visitor"] = u /\ (Cardinality(Recent(Ago(tx[u].at))) < Limit)'
  BY <1>1 DEF At
<1> QED BY <1>2, <1>3, <1>4, <1>5 DEF ReadsStand, At

\* Steps that leave the team, or the requests, alone.
LEMMA TeamFrame == ASSUME TeamTables, UNCHANGED team PROVE TeamTables'
BY DEF TeamTables, OnePending, InvitationsNamed, team

\* Steps that leave the requests and their quotes alone.
LEMMA DeskFrame == ASSUME DeskTables, UNCHANGED <<request, quotes>> PROVE DeskTables'
BY DEF DeskTables, WithinLimit, OneQuotePerRequest, PricedAsItsLines, Recent

\* What a request read stands while its tables and its locks do.
LEMMA QuietReads ==
  ASSUME NEW u \in Txn, ReadsStand(u), tx'[u] = tx[u], UNCHANGED <<member, invitation, request>>,
         \A row \in Invitation \cup Request \cup {"visitor"} : lock[row] = u => lock'[row] = u
  PROVE  ReadsStand(u)'
BY ReadsFrame

\* The types of the tables of the catalog.
CatalogTypes ==
  /\ resource \in [Resource -> [price : Price, active : BOOLEAN, visible : BOOLEAN]]
  /\ package \in [items : SUBSET Resource, active : BOOLEAN, visible : BOOLEAN]

\* Whatever is done to the catalog, and the time passing.
LEMMA CatalogKeeps ==
  ASSUME OfficeInv, UNCHANGED <<team, desk, lock, tx>>, CatalogTypes', clock' \in Nat
  PROVE  OfficeInv'
<1>1. TypeOK'
  BY InvParts DEF TypeOK, CatalogTypes, team, desk
<1>2. TeamTables' /\ DeskTables'
  BY InvParts, TeamFrame, DeskFrame DEF desk
<1>3. \A u \in Txn : ReadsStand(u)'
  BY InvParts, QuietReads DEF team, desk
<1> QED BY <1>1, <1>2, <1>3, InvParts

\* A request that ends without touching the team or the requests.
LEMMA EndsKeeps ==
  ASSUME OfficeInv, NEW t \in Txn, Finish(t), UNCHANGED <<team, desk, clock>>, CatalogTypes'
  PROVE  OfficeInv'
<1>1. TypeOK'
  BY InvParts, FinishFacts DEF TypeOK, CatalogTypes, team, desk
<1>2. TeamTables' /\ DeskTables'
  BY InvParts, TeamFrame, DeskFrame DEF desk
<1>3. ASSUME NEW u \in Txn PROVE ReadsStand(u)'
  <2>1. CASE u = t
    BY <2>1, InvParts, FinishFacts, IdleStands
  <2>2. CASE u # t
    BY <2>2, InvParts, FinishFacts, QuietReads DEF team, desk
  <2> QED BY <2>1, <2>2
<1> QED BY <1>1, <1>2, <1>3, InvParts

\* A request begins or goes on, perhaps with one more lock.
LEMMA GoesOnKeeps ==
  ASSUME OfficeInv, NEW t \in Txn, UNCHANGED <<team, resource, package, desk, clock>>,
         NEW x \in TxRequest, tx' = [tx EXCEPT ![t] = x],
         \/ UNCHANGED lock
         \/ \E row \in Invitation \cup Request \cup {"visitor"} : Lock(t, row),
         ReadsStand(t)'
  PROVE  OfficeInv'
<1>1. tx' \in [Txn -> TxRequest] /\ \A u \in Txn \ {t} : tx'[u] = tx[u]
  BY InvParts DEF TypeOK
<1>2. /\ lock' \in [Invitation \cup Request \cup {"visitor"} -> Txn \cup {None}]
      /\ \A u \in Txn, row \in Invitation \cup Request \cup {"visitor"} : lock[row] = u => lock'[row] = u
  BY InvParts, TeamAssumption DEF TypeOK, Lock, Free
<1>3. TypeOK'
  BY <1>1, <1>2, InvParts DEF TypeOK, team, desk
<1>4. TeamTables' /\ DeskTables'
  BY InvParts, TeamFrame, DeskFrame DEF desk
<1>5. ASSUME NEW u \in Txn \ {t} PROVE ReadsStand(u)'
  BY <1>1, <1>2, InvParts, QuietReads DEF team, desk
<1> QED BY <1>3, <1>4, <1>5, InvParts

-----------------------------------------------------------------------------
(* The catalog *)

\* The invariant has the types of the catalog.
LEMMA CatalogTyped == ASSUME OfficeInv PROVE CatalogTypes
BY InvParts DEF TypeOK, CatalogTypes

\* Settings, packages and the clock.
LEMMA CatalogChanges ==
  ASSUME OfficeInv,
         \/ \E actor \in User, enabled, requests \in BOOLEAN : UpdateSettings(actor, enabled, requests)
         \/ \E actor \in User, items \in SUBSET Resource, active \in BOOLEAN : UpdatePackage(actor, items, active)
         \/ \E actor \in User : ArchivePackage(actor)
         \/ Tick
  PROVE  OfficeInv'
<1>0. CatalogTypes /\ clock \in Nat
  BY CatalogTyped, InvParts DEF TypeOK
<1>1. ASSUME NEW actor \in User, NEW enabled \in BOOLEAN, NEW requests \in BOOLEAN,
             UpdateSettings(actor, enabled, requests)
      PROVE  OfficeInv'
  BY <1>0, <1>1, CatalogKeeps DEF UpdateSettings, CatalogTypes
<1>2. ASSUME NEW actor \in User, NEW items \in SUBSET Resource, NEW active \in BOOLEAN,
             UpdatePackage(actor, items, active)
      PROVE  OfficeInv'
  <2>1. CatalogTypes'
    BY <1>0, <1>2 DEF UpdatePackage, CatalogTypes
  <2> QED BY <1>0, <1>2, <2>1, CatalogKeeps DEF UpdatePackage
<1>3. ASSUME NEW actor \in User, ArchivePackage(actor) PROVE OfficeInv'
  <2>1. CatalogTypes'
    BY <1>0, <1>3 DEF ArchivePackage, CatalogTypes
  <2> QED BY <1>0, <1>3, <2>1, CatalogKeeps DEF ArchivePackage
<1>4. CASE Tick
  BY <1>0, <1>4, CatalogKeeps DEF Tick, catalog, CatalogTypes
<1> QED BY <1>1, <1>2, <1>3, <1>4

\* The writes of a resource, of its publication and of the package's.
LEMMA CatalogWrites ==
  ASSUME OfficeInv, NEW t \in Txn, WriteResource(t) \/ WritePublication(t) \/ WritePackagePublication(t)
  PROVE  OfficeInv'
<1>0. CatalogTypes /\ ReadsStand(t) /\ tx[t] \in TxRequest
  BY CatalogTyped, InvParts DEF TypeOK
<1>1. CASE WriteResource(t)
  <2>1. tx[t].key \in Resource /\ tx[t].flag \in BOOLEAN /\ tx[t].price \in Price
    BY <1>0, <1>1 DEF WriteResource, ReadsStand, At
  <2>2. CatalogTypes'
    BY <1>0, <1>1, <2>1 DEF WriteResource, CatalogTypes
  <2> QED BY <1>1, <2>2, EndsKeeps DEF WriteResource
<1>2. CASE WritePublication(t)
  <2>1. tx[t].key \in Resource /\ tx[t].flag \in BOOLEAN
    BY <1>0, <1>2 DEF WritePublication, ReadsStand, At
  <2>2. CatalogTypes'
    BY <1>0, <1>2, <2>1 DEF WritePublication, CatalogTypes
  <2> QED BY <1>2, <2>2, EndsKeeps DEF WritePublication
<1>3. CASE WritePackagePublication(t)
  <2>1. tx[t].flag \in BOOLEAN
    BY <1>0, <1>3 DEF WritePackagePublication, ReadsStand, At
  <2>2. CatalogTypes'
    BY <1>0, <1>3, <2>1 DEF WritePackagePublication, CatalogTypes
  <2> QED BY <1>3, <2>2, EndsKeeps DEF WritePackagePublication
<1> QED BY <1>1, <1>2, <1>3

\* An error return, or a lost connection.
LEMMA GiveUpKeeps == ASSUME OfficeInv, NEW t \in Txn, GiveUp(t) PROVE OfficeInv'
BY EndsKeeps, CatalogTyped DEF GiveUp, catalog, CatalogTypes

\* The requests for the catalog read what they change, and hold no lock.
LEMMA CatalogBegins ==
  ASSUME OfficeInv, NEW t \in Txn,
         \/ \E actor \in User, r \in Resource, price \in Price \cup {None}, active \in {TRUE, FALSE, None} :
              BeginUpdateResource(t, actor, r, price, active)
         \/ \E actor \in User, r \in Resource, visible \in BOOLEAN : BeginPublish(t, actor, r, visible)
         \/ \E actor \in User, visible \in BOOLEAN : BeginPublishPackage(t, actor, visible)
  PROVE  OfficeInv'
<1>0. CatalogTypes /\ NoRequest \in TxRequest /\ UNCHANGED <<site, resource, package, team, desk, clock, lock>>
  BY CatalogTyped, IdleRequest DEF BeginUpdateResource, BeginPublish, BeginPublishPackage
<1>1. ASSUME NEW x \in TxRequest, Begin(t, x), x.op \in {"resource", "publish", "publish package"},
             x.op \in {"resource", "publish"} => x.key \in Resource, x.flag \in BOOLEAN,
             x.op = "resource" => x.price \in Price
      PROVE  OfficeInv'
  <2>1. tx'[t] = x
    BY <1>1, InvParts DEF Begin, TypeOK
  <2>2. ReadsStand(t)'
    BY <1>1, <2>1 DEF ReadsStand, At
  <2> QED BY <1>0, <1>1, <2>2, GoesOnKeeps DEF Begin
<1>2. ASSUME NEW actor \in User, NEW r \in Resource, NEW price \in Price \cup {None},
             NEW active \in {TRUE, FALSE, None}, BeginUpdateResource(t, actor, r, price, active)
      PROVE  OfficeInv'
  <2>1. PICK p \in Price : p = IF price = None THEN resource[r].price ELSE price
    BY <1>0 DEF CatalogTypes
  <2>2. PICK a \in BOOLEAN : a = IF active = None THEN resource[r].active ELSE active
    BY <1>0 DEF CatalogTypes
  <2> DEFINE x == [NoRequest EXCEPT !.op = "resource", !.pc = "write", !.key = r, !.price = p, !.flag = a]
  <2>3. Begin(t, x)
    BY <1>2, <2>1, <2>2 DEF BeginUpdateResource
  <2>4. x \in TxRequest /\ x.op = "resource" /\ x.key = r /\ x.price = p /\ x.flag = a
    BY <1>0, StorefrontAssumption DEF NoRequest, TxRequest
  <2> HIDE DEF x
  <2> QED BY <1>1, <2>3, <2>4
<1>3. ASSUME NEW actor \in User, NEW r \in Resource, NEW visible \in BOOLEAN, BeginPublish(t, actor, r, visible)
      PROVE  OfficeInv'
  <2> DEFINE x == [NoRequest EXCEPT !.op = "publish", !.pc = "write", !.key = r, !.flag = visible]
  <2>1. Begin(t, x)
    BY <1>3 DEF BeginPublish
  <2>2. x \in TxRequest /\ x.op = "publish" /\ x.key = r /\ x.flag = visible
    BY <1>0 DEF NoRequest, TxRequest
  <2> HIDE DEF x
  <2> QED BY <1>1, <2>1, <2>2
<1>4. ASSUME NEW actor \in User, NEW visible \in BOOLEAN, BeginPublishPackage(t, actor, visible)
      PROVE  OfficeInv'
  <2> DEFINE x == [NoRequest EXCEPT !.op = "publish package", !.pc = "write", !.flag = visible]
  <2>1. Begin(t, x)
    BY <1>4 DEF BeginPublishPackage
  <2>2. x \in TxRequest /\ x.op = "publish package" /\ x.flag = visible
    BY <1>0 DEF NoRequest, TxRequest
  <2> HIDE DEF x
  <2> QED BY <1>1, <2>1, <2>2
<1> QED BY <1>2, <1>3, <1>4

-----------------------------------------------------------------------------
(* A visitor's request *)

\* The prices of the package's lines.
LEMMA LinesTyped ==
  ASSUME OfficeInv
  PROVE  Lines \in LineItems /\ Cost(Lines) \in Nat
<1>1. package.items \subseteq Resource /\ \A r \in Resource : resource[r].price \in Price
  BY InvParts DEF TypeOK
<1>2. Lines \in [package.items -> Price]
  BY <1>1 DEF Lines
<1>3. Lines \in LineItems
  BY <1>1, <1>2 DEF LineItems
<1>4. PICK f \in [package.items -> Price] : f = Lines
  BY <1>2
<1>5. IsFiniteSet(package.items)
  BY <1>1, FS_Subset, StorefrontAssumption
<1>6. \A r \in package.items : f[r] \in Nat
  BY <1>4, StorefrontAssumption
<1>7. SumOver(f, package.items) \in Nat
  BY <1>5, <1>6, SumType
<1>8. Cost(f) \in Nat
  BY <1>4, <1>7 DEF Cost
<1> QED BY <1>3, <1>4, <1>8

\* CreateQuoteRequest begins having read nothing.
LEMMA BeginSubmitKeeps == ASSUME OfficeInv, NEW t \in Txn, BeginSubmit(t) PROVE OfficeInv'
<1> DEFINE x == [NoRequest EXCEPT !.op = "submit", !.pc = "summary"]
<1>1. x \in TxRequest /\ x.op = "submit" /\ x.pc = "summary"
  BY IdleRequest DEF NoRequest, TxRequest
<1>2. tx' = [tx EXCEPT ![t] = x]
  BY DEF BeginSubmit, Begin
<1> HIDE DEF x
<1>3. ReadsStand(t)'
  BY <1>1, <1>2, InvParts DEF TypeOK, ReadsStand, At
<1> QED BY <1>1, <1>2, <1>3, GoesOnKeeps, CatalogTyped DEF BeginSubmit, catalog, CatalogTypes

\* The price is that of the lines in its snapshot.
LEMMA ReadSummaryKeeps == ASSUME OfficeInv, NEW t \in Txn, ReadSummary(t) PROVE OfficeInv'
<1>1. PICK p \in Nat : p = Cost(Lines)
  BY LinesTyped
<1>2. PICK l \in LineItems : l = Lines
  BY LinesTyped
<1> DEFINE read == [tx[t] EXCEPT !.pc = "items", !.price = p, !.lines = l]
           x == IF Ready /\ package.visible THEN read ELSE NoRequest
<1>3. tx[t] \in TxRequest /\ tx[t].op = "submit"
  BY InvParts DEF TypeOK, ReadSummary, At
<1>4. read \in TxRequest /\ read.op = "submit" /\ read.pc = "items" /\ read.price = p /\ read.lines = l
  BY <1>3 DEF TxRequest
<1>5. tx' = [tx EXCEPT ![t] = x]
  BY <1>1, <1>2, <1>3, InvParts DEF ReadSummary, TypeOK
<1>6. p = Cost(l)
  BY <1>1, <1>2
<1> HIDE DEF read
<1>7. x \in TxRequest
  BY <1>4, IdleRequest
<1>8. tx'[t] = x
  BY <1>5, InvParts DEF TypeOK
<1>9. ReadsStand(t)'
  <2>1. CASE Ready /\ package.visible
    BY <1>4, <1>6, <1>8, <2>1 DEF ReadsStand, At
  <2>2. CASE ~ (Ready /\ package.visible)
    BY <1>8, <2>2, IdleStands
  <2> QED BY <2>1, <2>2
<1> HIDE DEF x
<1> QED BY <1>5, <1>7, <1>9, GoesOnKeeps, CatalogTyped DEF ReadSummary, catalog, CatalogTypes

\* The items of a package are priced in the snapshot of its summary.
LEMMA ReadItemsKeeps == ASSUME OfficeInv, NEW t \in Txn, ReadItems(t) PROVE OfficeInv'
<1> DEFINE x == [tx[t] EXCEPT !.pc = "lock", !.lines = tx[t].lines, !.at = clock]
<1>1. tx[t] \in TxRequest /\ tx[t].op = "submit" /\ tx[t].pc = "items" /\ ReadsStand(t) /\ clock \in Nat
  BY InvParts DEF TypeOK, ReadItems, At
<1>2. x \in TxRequest
  BY <1>1 DEF TxRequest
<1>3. x.op = "submit" /\ x.pc = "lock" /\ x.price = tx[t].price /\ x.lines = tx[t].lines
  BY <1>1 DEF TxRequest
<1>4. tx' = [tx EXCEPT ![t] = x]
  BY <1>1, InvParts DEF ReadItems, TypeOK, Snapshot
<1> HIDE DEF x
<1>5. tx'[t] = x
  BY <1>4, InvParts DEF TypeOK
<1>6. ReadsStand(t)'
  BY <1>1, <1>3, <1>5 DEF ReadsStand, At
<1> QED BY <1>2, <1>4, <1>6, GoesOnKeeps, CatalogTyped DEF ReadItems, catalog, CatalogTypes

\* The count is taken under the lock of the submitter.
LEMMA LockSubmitterKeeps == ASSUME OfficeInv, NEW t \in Txn, LockSubmitter(t) PROVE OfficeInv'
<1>0. CatalogTypes' /\ UNCHANGED <<team, resource, package, desk, clock>>
  BY CatalogTyped DEF LockSubmitter, catalog, CatalogTypes
<1>1. CASE Finish(t)
  BY <1>0, <1>1, EndsKeeps
<1>2. CASE ~ Finish(t)
  <2> DEFINE x == [tx[t] EXCEPT !.pc = "insert"]
  <2>1. /\ tx[t] \in TxRequest /\ tx[t].op = "submit" /\ tx[t].pc = "lock" /\ ReadsStand(t)
        /\ Cardinality(Recent(Ago(tx[t].at))) < Limit /\ Lock(t, "visitor")
    BY <1>2, InvParts DEF TypeOK, LockSubmitter, At
  <2>2. x \in TxRequest /\ x = [tx[t] EXCEPT !.pc = "insert"]
    BY <2>1 DEF TxRequest
  <2>3. x.op = "submit" /\ x.pc = "insert" /\ x.price = tx[t].price /\ x.lines = tx[t].lines /\ x.at = tx[t].at
    BY <2>1 DEF TxRequest
  <2>4. tx' = [tx EXCEPT ![t] = x]
    BY <1>2, InvParts DEF LockSubmitter, Go, TypeOK
  <2> HIDE DEF x
  <2>5. tx'[t] = x /\ lock'["visitor"] = t
    BY <2>1, <2>4, InvParts DEF TypeOK, Lock
  <2>6. Recent(Ago(tx[t].at))' = Recent(Ago(tx[t].at))
    BY <1>0, <2>3, <2>5 DEF Recent, Ago, desk
  <2>7. (Cardinality(Recent(Ago(tx[t].at))) < Limit)'
    BY <2>1, <2>6
  <2>8. ReadsStand(t)'
    BY <2>1, <2>3, <2>5, <2>7 DEF ReadsStand, At
  <2> QED BY <1>0, <2>1, <2>2, <2>4, <2>8, GoesOnKeeps
<1> QED BY <1>1, <1>2

\* A conversion finds or makes its customer under the lock of the request.
LEMMA ResolveCustomerKeeps == ASSUME OfficeInv, NEW t \in Txn, ResolveCustomer(t) PROVE OfficeInv'
<1>1. tx[t] \in TxRequest /\ tx[t].op = "convert" /\ ReadsStand(t)
  BY InvParts DEF TypeOK, ResolveCustomer, At
<1>2. PICK new \in BOOLEAN : new = (customers = 0)
  OBVIOUS
<1> DEFINE x == [tx[t] EXCEPT !.pc = "commit", !.flag = new]
<1>3. x \in TxRequest /\ x.op = "convert" /\ x.key = tx[t].key
  BY <1>1 DEF TxRequest
<1>4. tx' = [tx EXCEPT ![t] = x]
  BY <1>1, <1>2, InvParts DEF ResolveCustomer, TypeOK
<1> HIDE DEF x
<1>5. tx'[t] = x /\ UNCHANGED <<lock, request>>
  BY <1>4, InvParts DEF TypeOK, ResolveCustomer, desk
<1>6. ReadsStand(t)'
  BY <1>1, <1>3, <1>5 DEF ReadsStand, At, Convertible
<1> QED BY <1>3, <1>4, <1>6, GoesOnKeeps, CatalogTyped DEF ResolveCustomer, catalog, CatalogTypes

\* A conversion takes the row of its request.
LEMMA BeginConvertKeeps ==
  ASSUME OfficeInv, NEW t \in Txn, NEW actor \in User, NEW q \in Request, BeginConvert(t, actor, q)
  PROVE  OfficeInv'
<1> DEFINE x == [NoRequest EXCEPT !.op = "convert", !.pc = "customer", !.key = q]
<1>1. x \in TxRequest /\ x.op = "convert" /\ x.pc = "customer" /\ x.key = q
  BY IdleRequest DEF NoRequest, TxRequest
<1>2. tx' = [tx EXCEPT ![t] = x]
  BY DEF BeginConvert, Begin
<1> HIDE DEF x
<1>3. tx'[t] = x /\ lock'[q] = t /\ Convertible(q)'
  BY <1>2, InvParts DEF TypeOK, BeginConvert, Lock, Convertible, desk
<1>4. ReadsStand(t)'
  BY <1>1, <1>3 DEF ReadsStand, At
<1> QED BY <1>1, <1>2, <1>4, GoesOnKeeps, CatalogTyped DEF BeginConvert, catalog, CatalogTypes

-----------------------------------------------------------------------------
(* The rows of quote_requests *)

\* The requests of the hour that begins at an instant.
InHour(since) == {q \in Recent(since) : request[q].created <= since + Hour}

\* A change of status does not move a request to another hour.
LEMMA HoursStay ==
  ASSUME WithinLimit,
         \A q \in Request : /\ request'[q].status = "NONE" <=> request[q].status = "NONE"
                            /\ request'[q].created = request[q].created
  PROVE  WithinLimit'
<1> SUFFICES ASSUME NEW since \in Nat
             PROVE  Cardinality({q \in Recent(since) : request[q].created <= since + Hour})' <= Limit
  BY DEF WithinLimit
<1>1. {q \in Recent(since) : request[q].created <= since + Hour}'
        = {q \in Recent(since) : request[q].created <= since + Hour}
  BY DEF Recent
<1> QED BY <1>1 DEF WithinLimit

\* Every hour that holds a new request begins after the count behind its lock.
LEMMA HoursCount ==
  ASSUME OfficeInv, NEW q \in Request, request[q].status = "NONE",
         NEW row, row.status # "NONE", row.created \in Nat,
         Cardinality(Recent(Ago(row.created))) < Limit,
         request' = [request EXCEPT ![q] = row]
  PROVE  WithinLimit'
<1>0. request \in [Request -> QuoteRequest] /\ WithinLimit
  BY InvParts DEF TypeOK, DeskTables
<1> SUFFICES ASSUME NEW since \in Nat
             PROVE  Cardinality({p \in Recent(since) : request[p].created <= since + Hour})' <= Limit
  BY DEF WithinLimit
<1> DEFINE now == {p \in Recent(since) : request[p].created <= since + Hour}
           base == Recent(Ago(row.created))
<1>1. request'[q] = row /\ \A p \in Request \ {q} : request'[p] = request[p]
  BY <1>0
<1>2. now \subseteq Request /\ base \subseteq Request /\ q \notin now
  BY DEF Recent
<1>3. IsFiniteSet(now) /\ IsFiniteSet(base)
  BY <1>2, FS_Subset, StorefrontAssumption
<1>4. Cardinality(now) <= Limit
  BY <1>0 DEF WithinLimit
<1>5. CASE row.created >= since /\ row.created <= since + Hour
  <2>1. now' = now \cup {q}
    BY <1>1, <1>2, <1>5 DEF Recent
  <2>2. now \subseteq base
    <3>1. ASSUME NEW p \in now PROVE p \in base
      <4>1. p \in Request /\ request[p].status # "NONE" /\ request[p].created >= since /\ request[p].created \in Nat
        BY <1>0 DEF Recent, QuoteRequest
      <4>2. Ago(row.created) <= since /\ Ago(row.created) \in Nat
        BY <1>5, StorefrontAssumption DEF Ago
      <4> QED BY <4>1, <4>2 DEF Recent
    <3> QED BY <3>1
  <2> HIDE DEF now, base
  <2>3. Cardinality(now) <= Cardinality(base)
    BY <1>3, <2>2, FS_Subset
  <2>4. Cardinality(now) \in Nat /\ Cardinality(base) \in Nat
    BY <1>3, FS_CardinalityType
  <2>5. Cardinality(now \cup {q}) = Cardinality(now) + 1
    BY <1>2, <1>3, FS_AddElement
  <2>6. Cardinality(base) < Limit
    BY DEF base
  <2>7. Cardinality(now') <= Limit
    BY <2>1, <2>3, <2>4, <2>5, <2>6, StorefrontAssumption
  <2> QED BY <2>7 DEF now
<1>6. CASE ~ (row.created >= since /\ row.created <= since + Hour)
  <2>1. now' = now
    BY <1>0, <1>1, <1>2, <1>6 DEF Recent
  <2> QED BY <1>4, <2>1
<1> QED BY <1>5, <1>6

\* The request is stored with the price of its lines, within the limit.
LEMMA CommitRequestKeeps == ASSUME OfficeInv, NEW t \in Txn, CommitRequest(t) PROVE OfficeInv'
<1> DEFINE row == [status |-> "NEW", created |-> tx[t].at, charged |-> tx[t].price, total |-> Cost(tx[t].lines)]
<1>1. PICK q \in Request : request[q] = NoQuoteRequest /\ request' = [request EXCEPT ![q] = row]
  BY DEF CommitRequest
<1>2. /\ tx[t] \in TxRequest /\ At(t, "submit", "insert") /\ ReadsStand(t)
      /\ Finish(t) /\ UNCHANGED <<team, catalog, quotes, customers, clock>>
      /\ request \in [Request -> QuoteRequest] /\ TypeOK /\ TeamTables /\ DeskTables
  BY InvParts DEF TypeOK, CommitRequest
<1>3. /\ tx[t].price = Cost(tx[t].lines) /\ lock["visitor"] = t
      /\ Cardinality(Recent(Ago(tx[t].at))) < Limit
  BY <1>2 DEF ReadsStand, At
<1>4. row \in QuoteRequest
  BY <1>2, <1>3 DEF TxRequest, QuoteRequest
<1>5. /\ row.status = "NEW" /\ row.created = tx[t].at /\ row.created \in Nat
      /\ row.charged = row.total
  BY <1>2, <1>3 DEF TxRequest
<1> HIDE DEF row
<1>6. request' \in [Request -> QuoteRequest] /\ request'[q] = row /\ \A p \in Request \ {q} : request'[p] = request[p]
  BY <1>1, <1>2, <1>4
<1>7. request[q].status = "NONE"
  BY <1>1 DEF NoQuoteRequest
<1>8. WithinLimit'
  BY <1>1, <1>3, <1>5, <1>7, HoursCount
<1>9. OneQuotePerRequest'
  BY <1>2, <1>5, <1>6, <1>7 DEF DeskTables, OneQuotePerRequest
<1>10. PricedAsItsLines'
  BY <1>2, <1>3, <1>5, <1>6 DEF DeskTables, PricedAsItsLines
<1>11. TypeOK'
  BY <1>2, <1>6, FinishFacts DEF TypeOK, team, catalog
<1>12. ASSUME NEW u \in Txn PROVE ReadsStand(u)'
  <2>1. CASE u = t
    BY <1>2, <2>1, FinishFacts, IdleStands
  <2>2. CASE u # t
    <3>1. ReadsStand(u) /\ tx'[u] = tx[u]
          /\ \A r \in Invitation \cup Request \cup {"visitor"} : lock[r] = u => lock'[r] = u
      BY <1>2, <2>2, InvParts, FinishFacts
    <3>2. \A p \in Request : lock[p] = u /\ Convertible(p) => request'[p].status = request[p].status
      BY <1>6, <1>7 DEF Convertible
    <3> QED BY <1>2, <1>3, <2>2, <3>1, <3>2, ReadsFrame DEF team
  <2> QED BY <2>1, <2>2
<1>13. TeamTables'
  BY <1>2, TeamFrame
<1> QED BY <1>8, <1>9, <1>10, <1>11, <1>12, <1>13, InvParts DEF DeskTables

\* A status is set in a row that nobody converts.
LEMMA UpdateQuoteRequestStatusKeeps ==
  ASSUME OfficeInv, NEW actor \in User, NEW q \in Request,
         NEW status \in {"NEW", "IN_REVIEW", "CLOSED", "SPAM"},
         UpdateQuoteRequestStatus(actor, q, status)
  PROVE  OfficeInv'
<1>1. /\ request \in [Request -> QuoteRequest] /\ request' = [request EXCEPT ![q].status = status]
      /\ UNCHANGED <<team, catalog, quotes, customers, clock, lock, tx>> /\ lock[q] = None
      /\ request[q].status \notin {"NONE", "CONVERTED"}
  BY InvParts DEF TypeOK, UpdateQuoteRequestStatus, Free
<1>2. /\ request' \in [Request -> QuoteRequest] /\ \A p \in Request \ {q} : request'[p] = request[p]
      /\ request'[q].status = status /\ request'[q].created = request[q].created
      /\ request'[q].charged = request[q].charged /\ request'[q].total = request[q].total
  BY <1>1 DEF QuoteRequest
<1>3. TypeOK'
  BY <1>1, <1>2, InvParts DEF TypeOK, team, catalog
<1>4. WithinLimit'
  <2>1. \A p \in Request : /\ request'[p].status = "NONE" <=> request[p].status = "NONE"
                           /\ request'[p].created = request[p].created
    BY <1>1, <1>2
  <2> QED BY <2>1, HoursStay, InvParts DEF DeskTables
<1>5. OneQuotePerRequest' /\ PricedAsItsLines'
  BY <1>1, <1>2, InvParts DEF DeskTables, OneQuotePerRequest, PricedAsItsLines
<1>6. ASSUME NEW u \in Txn PROVE ReadsStand(u)'
  <2>1. u # None
    BY TeamAssumption
  <2> QED BY <1>1, <1>2, <2>1, InvParts, ReadsFrame DEF team
<1>7. TeamTables'
  BY <1>1, InvParts, TeamFrame
<1> QED BY <1>3, <1>4, <1>5, <1>6, <1>7, InvParts DEF DeskTables

\* A request becomes a quote under its lock, once.
LEMMA CommitConvertKeeps == ASSUME OfficeInv, NEW t \in Txn, CommitConvert(t) PROVE OfficeInv'
<1> DEFINE q == tx[t].key
<1>1. /\ request \in [Request -> QuoteRequest] /\ quotes \in [Request -> Nat]
      /\ request' = [request EXCEPT ![q].status = "CONVERTED"]
      /\ quotes' = [quotes EXCEPT ![q] = @ + 1]
      /\ UNCHANGED <<team, catalog, clock>> /\ Finish(t) /\ ReadsStand(t) /\ tx[t].op = "convert"
      /\ TypeOK /\ TeamTables /\ DeskTables
  BY InvParts DEF TypeOK, CommitConvert, At
<1>2. q \in Request /\ lock[q] = t /\ request[q].status \in {"NEW", "IN_REVIEW"}
  BY <1>1 DEF ReadsStand, Convertible
<1> HIDE DEF q
<1>3. /\ request' \in [Request -> QuoteRequest] /\ \A p \in Request \ {q} : request'[p] = request[p]
      /\ request'[q].status = "CONVERTED" /\ request'[q].created = request[q].created
      /\ request'[q].charged = request[q].charged /\ request'[q].total = request[q].total
  BY <1>1, <1>2 DEF QuoteRequest
<1>4. quotes[q] = 0
  BY <1>1, <1>2 DEF DeskTables, OneQuotePerRequest
<1>5. quotes' \in [Request -> Nat] /\ quotes'[q] = 1 /\ \A p \in Request \ {q} : quotes'[p] = quotes[p]
  BY <1>1, <1>2, <1>4
<1>6. TypeOK'
  BY <1>1, <1>3, <1>5, FinishFacts DEF TypeOK, team, catalog
<1>7. WithinLimit'
  <2>1. \A p \in Request : /\ request'[p].status = "NONE" <=> request[p].status = "NONE"
                           /\ request'[p].created = request[p].created
    BY <1>2, <1>3
  <2> QED BY <1>1, <2>1, HoursStay DEF DeskTables
<1>8. OneQuotePerRequest' /\ PricedAsItsLines'
  BY <1>1, <1>3, <1>5 DEF DeskTables, OneQuotePerRequest, PricedAsItsLines
<1>9. ASSUME NEW u \in Txn PROVE ReadsStand(u)'
  <2>1. CASE u = t
    BY <1>1, <2>1, FinishFacts, IdleStands
  <2>2. CASE u # t
    BY <1>1, <1>2, <1>3, <2>2, InvParts, FinishFacts, ReadsFrame DEF team
  <2> QED BY <2>1, <2>2
<1>10. TeamTables'
  BY <1>1, TeamFrame
<1> QED BY <1>6, <1>7, <1>8, <1>9, <1>10, InvParts DEF DeskTables

-----------------------------------------------------------------------------
(* The team *)

\* A change of the team beside a site that is as it was.
LEMMA TeamKeeps ==
  ASSUME OfficeInv, UNCHANGED <<catalog, desk, clock>>,
         member' \in [User -> Standing], invitation' \in [Invitation -> InvitationRow],
         lock' \in [Invitation \cup Request \cup {"visitor"} -> Txn \cup {None}], tx' \in [Txn -> TxRequest],
         TeamTables', \A u \in Txn : ReadsStand(u)'
  PROVE  OfficeInv'
<1>1. TypeOK'
  BY InvParts DEF TypeOK, catalog, desk
<1>2. DeskTables'
  BY InvParts, DeskFrame DEF desk
<1> QED BY <1>1, <1>2, InvParts

\* Invitations that are settled leave the others their addresses.
LEMMA SettledTables ==
  ASSUME TeamTables,
         \A i \in Invitation :
           /\ invitation'[i].user = invitation[i].user /\ invitation'[i].role = invitation[i].role
           /\ invitation'[i].status = "PENDING" => invitation[i].status = "PENDING"
           /\ invitation'[i].status # "NONE" => invitation[i].status # "NONE"
  PROVE  TeamTables'
BY DEF TeamTables, OnePending, InvitationsNamed

\* What a request of the team reads stands beside one that settles invitations
\* nobody holds, or runs out their days.
LEMMA SettledReads ==
  ASSUME NEW u \in Txn, ReadsStand(u), tx'[u] = tx[u], UNCHANGED <<member, request>>,
         \A row \in Invitation \cup Request \cup {"visitor"} : lock[row] = u => lock'[row] = u,
         \A i \in Invitation : lock[i] = u /\ invitation[i].status = "PENDING" =>
           invitation'[i].status = "PENDING" /\ invitation'[i].user = invitation[i].user
  PROVE  ReadsStand(u)'
BY ReadsFrame

\* The seven days of an invitation pass.
LEMMA LapseKeeps ==
  ASSUME OfficeInv, NEW i \in Invitation, Lapse(i), UNCHANGED <<catalog, desk, clock>> PROVE OfficeInv'
<1>1. invitation \in [Invitation -> InvitationRow] /\ TypeOK /\ TeamTables
  BY InvParts DEF TypeOK
<1>2. /\ invitation' \in [Invitation -> InvitationRow]
      /\ \A j \in Invitation : /\ invitation'[j].user = invitation[j].user
                               /\ invitation'[j].role = invitation[j].role
                               /\ invitation'[j].status = invitation[j].status
  BY <1>1 DEF Lapse, InvitationRow
<1>3. TeamTables'
  BY <1>1, <1>2, SettledTables
<1>4. \A u \in Txn : ReadsStand(u)'
  BY <1>2, InvParts, SettledReads DEF Lapse, desk
<1> QED BY <1>1, <1>2, <1>3, <1>4, TeamKeeps DEF Lapse, TypeOK

\* A link is revoked unless it is being accepted.
LEMMA RevokeKeeps ==
  ASSUME OfficeInv, NEW actor \in User, NEW i \in Invitation, RevokeInvitation(actor, i),
         UNCHANGED <<catalog, desk, clock>>
  PROVE  OfficeInv'
<1>1. invitation \in [Invitation -> InvitationRow] /\ TypeOK /\ TeamTables
  BY InvParts DEF TypeOK
<1>2. /\ invitation' \in [Invitation -> InvitationRow]
      /\ \A j \in Invitation : /\ invitation'[j].user = invitation[j].user
                               /\ invitation'[j].role = invitation[j].role
      /\ invitation'[i].status = "REVOKED" /\ \A j \in Invitation \ {i} : invitation'[j] = invitation[j]
  BY <1>1 DEF RevokeInvitation, InvitationRow
<1>3. TeamTables'
  BY <1>1, <1>2, SettledTables DEF RevokeInvitation
<1>4. ASSUME NEW u \in Txn PROVE ReadsStand(u)'
  <2>1. u # lock[i]
    BY TeamAssumption DEF RevokeInvitation, Free
  <2> QED BY <1>2, <2>1, InvParts, SettledReads DEF RevokeInvitation, desk
<1> QED BY <1>1, <1>2, <1>3, <1>4, TeamKeeps DEF RevokeInvitation, TypeOK

\* The invitations that CreateInvitation marks are over, and nobody holds them.
LEMMA BeginInviteKeeps ==
  ASSUME OfficeInv, NEW t \in Txn, NEW actor \in User, NEW user \in User, NEW role \in Invitable,
         BeginInvite(t, actor, user, role), UNCHANGED <<catalog, desk, clock>>
  PROVE  OfficeInv'
<1> DEFINE over == {i \in Pending(user) : invitation[i].lapsed}
           x == [NoRequest EXCEPT !.op = "invite", !.pc = "check", !.key = user, !.role = role]
<1>0. invitation \in [Invitation -> InvitationRow] /\ TypeOK /\ TeamTables
  BY InvParts DEF TypeOK
<1>1. /\ \A i \in over : Free(i)
      /\ invitation' = [i \in Invitation |-> IF i \in over THEN [invitation[i] EXCEPT !.status = "EXPIRED"]
                                              ELSE invitation[i]]
      /\ Begin(t, x) /\ UNCHANGED <<member, lock>>
  BY DEF BeginInvite
<1>2. x \in TxRequest /\ x.op = "invite" /\ x.pc = "check" /\ x.key = user /\ x.role = role
  BY IdleRequest DEF NoRequest, TxRequest
<1> HIDE DEF over, x
<1>3. ASSUME NEW i \in Invitation
      PROVE  /\ invitation'[i] \in InvitationRow /\ invitation'[i].user = invitation[i].user
             /\ invitation'[i].role = invitation[i].role
             /\ \/ invitation'[i].status = invitation[i].status
                \/ i \in over /\ invitation'[i].status = "EXPIRED"
  BY <1>0, <1>1 DEF InvitationRow
<1>4. \A i \in Invitation : i \in over => invitation[i].status = "PENDING"
  BY DEF over, Pending
<1>5. invitation' \in [Invitation -> InvitationRow]
  <2>1. invitation' = [i \in Invitation |-> invitation'[i]]
    BY <1>1
  <2> QED BY <1>3, <2>1
<1>6. TeamTables'
  BY <1>0, <1>3, <1>4, SettledTables
<1>7. tx' \in [Txn -> TxRequest] /\ tx'[t] = x /\ \A u \in Txn \ {t} : tx'[u] = tx[u]
  BY <1>0, <1>1, <1>2 DEF TypeOK, Begin
<1>8. ASSUME NEW u \in Txn PROVE ReadsStand(u)'
  <2>1. CASE u = t
    BY <1>2, <1>7, <2>1 DEF ReadsStand, At
  <2>2. CASE u # t
    <3>1. \A i \in over : lock[i] # u
      BY <1>1, TeamAssumption DEF Free
    <3> QED BY <1>1, <1>3, <1>7, <2>2, <3>1, InvParts, SettledReads DEF desk
  <2> QED BY <2>1, <2>2
<1> QED BY <1>0, <1>1, <1>5, <1>6, <1>7, <1>8, TeamKeeps DEF TypeOK

\* CreateInvitation reads what is pending, and ends or goes on to insert.
LEMMA CheckInvitationKeeps ==
  ASSUME OfficeInv, NEW t \in Txn, CheckInvitation(t), UNCHANGED <<catalog, desk, clock>> PROVE OfficeInv'
<1>1. CASE Finish(t)
  BY <1>1, EndsKeeps, CatalogTyped DEF CheckInvitation, catalog, CatalogTypes
<1>2. CASE ~ Finish(t)
  <2> DEFINE x == [tx[t] EXCEPT !.pc = "insert"]
  <2>1. tx[t] \in TxRequest /\ tx[t].op = "invite" /\ ReadsStand(t)
    BY InvParts DEF TypeOK, CheckInvitation, At
  <2>2. x \in TxRequest /\ x.op = "invite" /\ x.key = tx[t].key /\ x.role = tx[t].role
    BY <2>1 DEF TxRequest
  <2>3. tx' = [tx EXCEPT ![t] = x] /\ UNCHANGED <<team, lock>>
    BY <1>2, InvParts DEF CheckInvitation, Go, TypeOK
  <2> HIDE DEF x
  <2>4. ReadsStand(t)'
    <3>1. tx'[t] = x
      BY <2>3, InvParts DEF TypeOK
    <3> QED BY <2>1, <2>2, <3>1 DEF ReadsStand, At
  <2> QED BY <2>2, <2>3, <2>4, GoesOnKeeps, CatalogTyped DEF catalog, CatalogTypes
<1> QED BY <1>1, <1>2

\* A new invitation is the only pending one of its address: the unique index.
LEMMA InsertInvitationKeeps ==
  ASSUME OfficeInv, NEW t \in Txn, InsertInvitation(t), UNCHANGED <<catalog, desk, clock>> PROVE OfficeInv'
<1>0. /\ invitation \in [Invitation -> InvitationRow] /\ TypeOK /\ TeamTables /\ ReadsStand(t)
      /\ Finish(t) /\ UNCHANGED member /\ tx[t].op = "invite"
  BY InvParts DEF TypeOK, InsertInvitation, At
<1>1. CASE UNCHANGED invitation
  BY <1>0, <1>1, EndsKeeps, CatalogTyped DEF team, catalog, CatalogTypes
<1>2. CASE ~ UNCHANGED invitation
  <2> DEFINE row == [user |-> tx[t].key, role |-> tx[t].role, status |-> "PENDING", lapsed |-> FALSE]
  <2>1. Pending(tx[t].key) = {}
    BY <1>2 DEF InsertInvitation
  <2>2. PICK i \in Invitation : invitation[i] = NoInvitation /\ invitation' = [invitation EXCEPT ![i] = row]
    BY <1>2 DEF InsertInvitation
  <2>3. tx[t].key \in User /\ tx[t].role \in Invitable
    BY <1>0 DEF ReadsStand
  <2>4. row \in InvitationRow /\ row.user = tx[t].key /\ row.role = tx[t].role /\ row.status = "PENDING"
    BY <2>3 DEF InvitationRow
  <2> HIDE DEF row
  <2>5. /\ invitation' \in [Invitation -> InvitationRow] /\ invitation'[i] = row
        /\ \A j \in Invitation \ {i} : invitation'[j] = invitation[j]
    BY <1>0, <2>2, <2>4
  <2>6. invitation[i].status = "NONE"
    BY <2>2 DEF NoInvitation
  <2>7. TeamTables'
    BY <1>0, <2>1, <2>3, <2>4, <2>5 DEF TeamTables, OnePending, InvitationsNamed, Pending
  <2>8. ASSUME NEW u \in Txn PROVE ReadsStand(u)'
    <3>1. CASE u = t
      BY <1>0, <3>1, FinishFacts, IdleStands
    <3>2. CASE u # t
      BY <1>0, <2>5, <2>6, <3>2, InvParts, FinishFacts, SettledReads DEF desk
    <3> QED BY <3>1, <3>2
  <2> QED BY <1>0, <2>5, <2>7, <2>8, FinishFacts, TeamKeeps DEF TypeOK
<1> QED BY <1>1, <1>2

\* Whoever accepts holds the row of the invitation.
LEMMA BeginAcceptKeeps ==
  ASSUME OfficeInv, NEW t \in Txn, NEW i \in Invitation, BeginAccept(t, i), UNCHANGED <<catalog, desk, clock>>
  PROVE  OfficeInv'
<1> DEFINE x == [NoRequest EXCEPT !.op = "accept", !.pc = "member", !.key = i]
<1>1. x \in TxRequest /\ x.op = "accept" /\ x.pc = "member" /\ x.key = i
  BY IdleRequest DEF NoRequest, TxRequest
<1>2. tx' = [tx EXCEPT ![t] = x]
  BY DEF BeginAccept, Begin
<1> HIDE DEF x
<1>3. tx'[t] = x /\ lock'[i] = t /\ invitation'[i].status = "PENDING"
  BY <1>2, InvParts DEF TypeOK, BeginAccept, Lock, Acceptable, team
<1>4. ReadsStand(t)'
  BY <1>1, <1>3 DEF ReadsStand, At
<1> QED BY <1>1, <1>2, <1>4, GoesOnKeeps, CatalogTyped DEF BeginAccept, catalog, CatalogTypes

\* AcceptInvitation reads the membership under the lock of the invitation.
LEMMA CheckMembershipKeeps ==
  ASSUME OfficeInv, NEW t \in Txn, CheckMembership(t), UNCHANGED <<catalog, desk, clock>> PROVE OfficeInv'
<1>1. CASE Finish(t)
  BY <1>1, EndsKeeps, CatalogTyped DEF CheckMembership, catalog, CatalogTypes
<1>2. CASE ~ Finish(t)
  <2> DEFINE x == [tx[t] EXCEPT !.pc = "join"]
  <2>1. tx[t] \in TxRequest /\ tx[t].op = "accept" /\ ReadsStand(t)
    BY InvParts DEF TypeOK, CheckMembership, At
  <2>2. x \in TxRequest /\ x.op = "accept" /\ x.key = tx[t].key
    BY <2>1 DEF TxRequest
  <2>3. /\ tx' = [tx EXCEPT ![t] = x] /\ UNCHANGED <<team, lock>>
        /\ member[invitation[tx[t].key].user] = NoMember
    BY <1>2, InvParts DEF CheckMembership, Go, TypeOK
  <2> HIDE DEF x
  <2>4. ReadsStand(t)'
    <3>1. tx'[t] = x
      BY <2>3, InvParts DEF TypeOK
    <3> QED BY <2>1, <2>2, <2>3, <3>1 DEF ReadsStand, At, team
  <2> QED BY <2>2, <2>3, <2>4, GoesOnKeeps, CatalogTyped DEF catalog, CatalogTypes
<1> QED BY <1>1, <1>2

\* What the acceptance of an invitation does to the tables.
LEMMA AcceptFacts ==
  ASSUME OfficeInv, NEW t \in Txn, CommitAccept(t)
  PROVE  \E i \in Invitation :
           /\ lock[i] = t /\ invitation[i].status = "PENDING"
           /\ invitation[i].user \in User /\ invitation[i].role \in Invitable
           /\ member[invitation[i].user] = NoMember
           /\ member' = [member EXCEPT ![invitation[i].user] = [role |-> invitation[i].role, status |-> "ACTIVE"]]
           /\ invitation' = [invitation EXCEPT ![i].status = "ACCEPTED"]
           /\ Finish(t)
<1>1. /\ tx[t].key \in Invitation /\ lock[tx[t].key] = t /\ invitation[tx[t].key].status = "PENDING"
      /\ member[invitation[tx[t].key].user] = NoMember
  BY InvParts DEF CommitAccept, ReadsStand, At
<1>2. invitation[tx[t].key].user \in User /\ invitation[tx[t].key].role \in Invitable
  BY <1>1, InvParts DEF TeamTables, InvitationsNamed
<1> QED BY <1>1, <1>2 DEF CommitAccept

\* Two invitations that are accepted at once are of different users.
LEMMA CommitAcceptKeeps ==
  ASSUME OfficeInv, NEW t \in Txn, CommitAccept(t), UNCHANGED <<catalog, desk, clock>> PROVE OfficeInv'
<1>0. invitation \in [Invitation -> InvitationRow] /\ member \in [User -> Standing] /\ TypeOK /\ TeamTables
  BY InvParts DEF TypeOK
<1>1. PICK i \in Invitation :
        /\ lock[i] = t /\ invitation[i].status = "PENDING"
        /\ invitation[i].user \in User /\ invitation[i].role \in Invitable
        /\ member[invitation[i].user] = NoMember
        /\ member' = [member EXCEPT ![invitation[i].user] = [role |-> invitation[i].role, status |-> "ACTIVE"]]
        /\ invitation' = [invitation EXCEPT ![i].status = "ACCEPTED"]
        /\ Finish(t)
  BY AcceptFacts
<1>2. /\ invitation' \in [Invitation -> InvitationRow]
      /\ \A j \in Invitation : /\ invitation'[j].user = invitation[j].user
                               /\ invitation'[j].role = invitation[j].role
      /\ invitation'[i].status = "ACCEPTED" /\ \A j \in Invitation \ {i} : invitation'[j] = invitation[j]
  BY <1>0, <1>1 DEF InvitationRow
<1>3. PICK new : new = [role |-> invitation[i].role, status |-> "ACTIVE"]
  OBVIOUS
<1>4. new \in Standing /\ new # NoMember
  BY <1>1, <1>3 DEF Standing, NoMember, Role, Invitable
<1>5. /\ member' \in [User -> Standing] /\ member'[invitation[i].user] = new
      /\ \A v \in User \ {invitation[i].user} : member'[v] = member[v]
  BY <1>0, <1>1, <1>3, <1>4
<1>6. TeamTables'
  BY <1>0, <1>1, <1>2, SettledTables
<1>7. ASSUME NEW u \in Txn PROVE ReadsStand(u)'
  <2>1. CASE u = t
    BY <1>0, <1>1, <2>1, FinishFacts, IdleStands
  <2>2. CASE u # t
    <3>1. ASSUME NEW j \in Invitation, lock[j] = u, invitation[j].status = "PENDING"
          PROVE  /\ invitation'[j].status = "PENDING" /\ invitation'[j].user = invitation[j].user
                 /\ member[invitation[j].user] = NoMember => member'[invitation[j].user] = NoMember
      <4>1. j # i
        BY <1>1, <2>2, <3>1
      <4>2. invitation[j].user # invitation[i].user /\ invitation[j].user \in User
        BY <1>0, <1>1, <3>1, <4>1 DEF TeamTables, OnePending, InvitationsNamed
      <4> QED BY <1>2, <1>5, <3>1, <4>1, <4>2
    <3>2. \A v \in User : member[v] # NoMember => member'[v] # NoMember
      BY <1>4, <1>5
    <3> QED BY <1>0, <1>1, <2>2, <3>1, <3>2, InvParts, FinishFacts, ReadsFrame DEF desk
  <2> QED BY <2>1, <2>2
<1> QED BY <1>0, <1>1, <1>2, <1>5, <1>6, <1>7, FinishFacts, TeamKeeps DEF TypeOK

\* UpdateMember begins with the membership still to write.
LEMMA BeginUpdateMemberKeeps ==
  ASSUME OfficeInv, NEW t \in Txn, NEW actor \in User, NEW target \in User,
         NEW role \in Invitable \cup {None}, NEW status \in {"ACTIVE", "SUSPENDED", None},
         BeginUpdateMember(t, actor, target, role, status), UNCHANGED <<catalog, desk, clock>>
  PROVE  OfficeInv'
<1> DEFINE x == [NoRequest EXCEPT !.op = "member", !.pc = "write", !.key = target, !.role = role, !.status = status]
<1>1. x \in TxRequest /\ x.op = "member" /\ x.pc = "write" /\ x.key = target
  BY IdleRequest DEF NoRequest, TxRequest
<1>2. tx' = [tx EXCEPT ![t] = x]
  BY DEF BeginUpdateMember, Begin
<1> HIDE DEF x
<1>3. tx'[t] = x /\ member'[target] # NoMember
  BY <1>2, InvParts DEF TypeOK, BeginUpdateMember, team
<1>4. ReadsStand(t)'
  BY <1>1, <1>3 DEF ReadsStand, At
<1> QED BY <1>1, <1>2, <1>4, GoesOnKeeps, CatalogTyped DEF BeginUpdateMember, catalog, CatalogTypes

\* What the change of a member does: it stays one.
LEMMA WriteFacts ==
  ASSUME OfficeInv, NEW t \in Txn, WriteMember(t)
  PROVE  /\ member' \in [User -> Standing] /\ Finish(t) /\ UNCHANGED invitation
         /\ \A v \in User : member'[v] = member[v] \/ (member[v] # NoMember /\ member'[v] # NoMember)
<1> DEFINE u == tx[t].key
           new == [role |-> IF tx[t].role = None THEN member[u].role ELSE tx[t].role,
                   status |-> IF tx[t].status = None THEN member[u].status ELSE tx[t].status]
<1>1. /\ u \in User /\ member[u] # NoMember /\ tx[t] \in TxRequest /\ member \in [User -> Standing]
      /\ UNCHANGED member \/ member' = [member EXCEPT ![u] = new]
      /\ Finish(t) /\ UNCHANGED invitation
  BY InvParts DEF WriteMember, ReadsStand, At, TypeOK
<1>2. member[u].role \in Role /\ member[u].status \in {"ACTIVE", "SUSPENDED"}
  BY <1>1 DEF Standing
<1>3. new \in Standing /\ new # NoMember
  BY <1>1, <1>2 DEF Standing, TxRequest, NoMember, Role, Invitable
<1> HIDE DEF u, new
<1> QED BY <1>1, <1>3

\* UpdateMember writes one membership and no invitation.
LEMMA WriteMemberKeeps ==
  ASSUME OfficeInv, NEW t \in Txn, WriteMember(t), UNCHANGED <<catalog, desk, clock>> PROVE OfficeInv'
<1>0. /\ member' \in [User -> Standing] /\ Finish(t) /\ UNCHANGED invitation
      /\ \A v \in User : member'[v] = member[v] \/ (member[v] # NoMember /\ member'[v] # NoMember)
      /\ TypeOK /\ TeamTables
  BY WriteFacts, InvParts
<1>1. TeamTables'
  BY <1>0, SettledTables
<1>2. ASSUME NEW u \in Txn PROVE ReadsStand(u)'
  <2>1. CASE u = t
    BY <1>0, <2>1, FinishFacts, IdleStands
  <2>2. CASE u # t
    <3>1. ASSUME NEW i \in Invitation, invitation[i].status = "PENDING" PROVE invitation[i].user \in User
      BY <1>0, <3>1 DEF TeamTables, InvitationsNamed
    <3> QED BY <1>0, <2>2, <3>1, InvParts, FinishFacts, ReadsFrame DEF desk
  <2> QED BY <2>1, <2>2
<1> QED BY <1>0, <1>1, <1>2, FinishFacts, TeamKeeps DEF TypeOK

-----------------------------------------------------------------------------
(* The invariant *)

\* An organization starts with its founder and no requests.
LEMMA InitInv == ASSUME Init PROVE OfficeInv
<1>1. TypeOK
  <2>1. member \in [User -> Standing]
    BY DEF Init, InitTeam, Standing, Invitable, Role
  <2>2. NoInvitation \in InvitationRow /\ NoQuoteRequest \in QuoteRequest
    BY DEF NoInvitation, InvitationRow, NoQuoteRequest, QuoteRequest, LineItems
  <2>3. CatalogTypes
    <3>1. (CHOOSE p \in Price : TRUE) \in Price
      BY StorefrontAssumption
    <3> QED BY <3>1 DEF Init, CatalogTypes
  <2> QED BY <2>1, <2>2, <2>3, IdleRequest DEF Init, InitTeam, TypeOK, CatalogTypes
<1>2. TeamTables
  BY DEF Init, InitTeam, NoInvitation, TeamTables, OnePending, InvitationsNamed
<1>3. DeskTables
  <2>1. \A q \in Request : request[q].status = "NONE" /\ request[q].charged = 0 /\ request[q].total = 0 /\ quotes[q] = 0
    BY DEF Init, NoQuoteRequest
  <2>2. WithinLimit
    <3> SUFFICES ASSUME NEW since \in Nat
                 PROVE  Cardinality({q \in Recent(since) : request[q].created <= since + Hour}) <= Limit
      BY DEF WithinLimit
    <3>1. {q \in Recent(since) : request[q].created <= since + Hour} = {}
      BY <2>1 DEF Recent
    <3>2. Cardinality({}) = 0
      BY FS_EmptySet
    <3> QED BY <3>1, <3>2, StorefrontAssumption
  <2> QED BY <2>1, <2>2 DEF DeskTables, OneQuotePerRequest, PricedAsItsLines
<1>4. \A t \in Txn : ReadsStand(t)
  BY IdleRequest DEF Init, InitTeam, ReadsStand, At
<1> QED BY <1>1, <1>2, <1>3, <1>4, InvParts

\* The steps of the team, beside a quiet site.
LEMMA TeamSteps ==
  ASSUME OfficeInv, UNCHANGED <<catalog, desk, clock>>,
         TeamNext \/ \E t \in Txn : BeginTeam(t) \/ TeamStep(t)
  PROVE  OfficeInv'
<1>1. CASE TeamNext
  BY <1>1, LapseKeeps, RevokeKeeps DEF TeamNext
<1>2. ASSUME NEW t \in Txn, BeginTeam(t) PROVE OfficeInv'
  BY <1>2, BeginInviteKeeps, BeginAcceptKeeps, BeginUpdateMemberKeeps DEF BeginTeam
<1>3. ASSUME NEW t \in Txn, TeamStep(t) PROVE OfficeInv'
  BY <1>3, CheckInvitationKeeps, InsertInvitationKeeps, CheckMembershipKeeps, CommitAcceptKeeps, WriteMemberKeeps
     DEF TeamStep
<1> QED BY <1>1, <1>2, <1>3

\* The steps of the site.
LEMMA SiteSteps ==
  ASSUME OfficeInv, StorefrontNext \/ \E t \in Txn : BeginStorefront(t) \/ StorefrontStep(t)
  PROVE  OfficeInv'
<1>1. CASE StorefrontNext
  BY <1>1, CatalogChanges, UpdateQuoteRequestStatusKeeps DEF StorefrontNext
<1>2. ASSUME NEW t \in Txn, BeginStorefront(t) PROVE OfficeInv'
  BY <1>2, BeginSubmitKeeps, CatalogBegins, BeginConvertKeeps DEF BeginStorefront
<1>3. ASSUME NEW t \in Txn, StorefrontStep(t) PROVE OfficeInv'
  BY <1>3, CatalogWrites, ReadSummaryKeeps, ReadItemsKeeps, LockSubmitterKeeps, CommitRequestKeeps,
     ResolveCustomerKeeps, CommitConvertKeeps DEF StorefrontStep
<1> QED BY <1>1, <1>2, <1>3

\* Every step keeps the invariant.
LEMMA NextKeeps == ASSUME OfficeInv, [Next]_vars PROVE OfficeInv'
<1>1. CASE UNCHANGED vars
  <2>1. CatalogTypes' /\ UNCHANGED <<team, desk, lock, tx>> /\ clock' \in Nat
    BY <1>1, CatalogTyped, InvParts DEF vars, catalog, CatalogTypes, TypeOK
  <2> QED BY <2>1, CatalogKeeps
<1>2. CASE Next
  BY <1>2, TeamSteps, SiteSteps, GiveUpKeeps DEF Next, Elsewhere
<1> QED BY <1>1, <1>2

\* The invariant holds whatever users, resources, limits and requests there are.
THEOREM OfficeInductive == Spec => []OfficeInv
<1>1. Init => OfficeInv
  BY InitInv
<1>2. OfficeInv /\ [Next]_vars => OfficeInv'
  BY NextKeeps
<1> QED BY <1>1, <1>2, PTL DEF Spec

\* No hour holds more requests of a visitor than the limit: CreateQuoteRequest
\* counts under an advisory lock, from an hour before its own NOW() on and with
\* no end, so a request that waited for the lock counts those behind it too.
THEOREM LimitHolds == Spec => []RequestsWithinLimit
<1>1. OfficeInv => RequestsWithinLimit
  <2> SUFFICES ASSUME OfficeInv, NEW since \in 0 .. clock
               PROVE  Cardinality({q \in Recent(since) : request[q].created <= since + Hour}) <= Limit
    BY DEF RequestsWithinLimit
  <2>1. since \in Nat
    BY InvParts DEF TypeOK
  <2> QED BY <2>1, InvParts DEF DeskTables, WithinLimit
<1> QED BY <1>1, OfficeInductive, PTL

\* A request becomes one quote at most, and says so: ConvertQuoteRequest has its
\* row locked from the check of its status on.
THEOREM ConvertedOnce == Spec => []OneQuotePerRequest
<1>1. OfficeInv => OneQuotePerRequest
  BY DEF OfficeInv
<1> QED BY <1>1, OfficeInductive, PTL

\* What a stored request charges for its package is what the lines of the items
\* come to, for any prices and any changes of the catalog meanwhile: packages' Get
\* reads the price and the lines in one snapshot.
THEOREM TotalsMatchLines == Spec => []PricedAsItsLines
<1>1. OfficeInv => PricedAsItsLines
  BY DEF OfficeInv
<1> QED BY <1>1, OfficeInductive, PTL

-----------------------------------------------------------------------------
(* Who joins *)

\* What a step may do to invitations and members.
Joins ==
  /\ \A i \in Invitation :
       /\ invitation[i].status \in {"ACCEPTED", "REVOKED", "EXPIRED"} => invitation'[i] = invitation[i]
       /\ invitation'[i].status = "ACCEPTED" /\ invitation[i].status # "ACCEPTED" =>
            member[invitation[i].user] = NoMember
  /\ \A u \in User : member[u] = NoMember /\ member'[u] # NoMember =>
       \E i \in Invitation : /\ invitation[i].status = "PENDING" /\ invitation'[i].status = "ACCEPTED"
                             /\ invitation[i].user = u /\ invitation[i].role = member'[u].role

\* Nobody joins, and invitations only leave the pending ones.
LEMMA NobodyJoins ==
  ASSUME UNCHANGED member,
         \A i \in Invitation : \/ invitation'[i] = invitation[i]
                               \/ /\ invitation[i].status \in {"NONE", "PENDING"}
                                  /\ invitation'[i].status # "ACCEPTED"
  PROVE  Joins
BY DEF Joins

\* Only the acceptance of a pending invitation makes a member.
LEMMA JoinsKept == ASSUME OfficeInv, Next, ~ UNCHANGED team PROVE Joins
<1>0. invitation \in [Invitation -> InvitationRow] /\ member \in [User -> Standing]
  BY InvParts DEF TypeOK
<1>1. ASSUME NEW i \in Invitation, Lapse(i) PROVE Joins
  <2>1. invitation'[i].status = "PENDING" /\ \A j \in Invitation \ {i} : invitation'[j] = invitation[j]
    BY <1>0, <1>1 DEF Lapse, InvitationRow
  <2> QED BY <1>1, <2>1, NobodyJoins DEF Lapse
<1>2. ASSUME NEW actor \in User, NEW i \in Invitation, RevokeInvitation(actor, i) PROVE Joins
  <2>1. invitation'[i].status = "REVOKED" /\ \A j \in Invitation \ {i} : invitation'[j] = invitation[j]
    BY <1>0, <1>2 DEF RevokeInvitation, InvitationRow
  <2> QED BY <1>2, <2>1, NobodyJoins DEF RevokeInvitation
<1>3. ASSUME NEW t \in Txn, NEW actor \in User, NEW user \in User, NEW role \in Invitable,
             BeginInvite(t, actor, user, role)
      PROVE  Joins
  <2> DEFINE over == {i \in Pending(user) : invitation[i].lapsed}
  <2>1. UNCHANGED member /\ invitation' = [i \in Invitation |->
          IF i \in over THEN [invitation[i] EXCEPT !.status = "EXPIRED"] ELSE invitation[i]]
    BY <1>3 DEF BeginInvite
  <2>2. \A i \in over : invitation[i].status = "PENDING"
    BY DEF Pending
  <2> HIDE DEF over
  <2>3. \A i \in Invitation : \/ invitation'[i] = invitation[i]
                              \/ invitation[i].status = "PENDING" /\ invitation'[i].status = "EXPIRED"
    BY <1>0, <2>1, <2>2 DEF InvitationRow
  <2> QED BY <2>1, <2>3, NobodyJoins
<1>4. ASSUME NEW t \in Txn, InsertInvitation(t) PROVE Joins
  <2>1. CASE UNCHANGED invitation
    BY <1>4, <2>1, NobodyJoins DEF InsertInvitation
  <2>2. CASE ~ UNCHANGED invitation
    <3> DEFINE row == [user |-> tx[t].key, role |-> tx[t].role, status |-> "PENDING", lapsed |-> FALSE]
    <3>1. PICK i \in Invitation : invitation[i] = NoInvitation /\ invitation' = [invitation EXCEPT ![i] = row]
      BY <1>4, <2>2 DEF InsertInvitation
    <3>2. row.status = "PENDING"
      OBVIOUS
    <3> HIDE DEF row
    <3>3. /\ invitation[i].status = "NONE" /\ invitation'[i].status = "PENDING"
          /\ \A j \in Invitation \ {i} : invitation'[j] = invitation[j]
      BY <1>0, <3>1, <3>2 DEF NoInvitation
    <3> QED BY <1>4, <3>3, NobodyJoins DEF InsertInvitation
  <2> QED BY <2>1, <2>2
<1>5. ASSUME NEW t \in Txn, CommitAccept(t) PROVE Joins
  <2>1. PICK i \in Invitation :
          /\ lock[i] = t /\ invitation[i].status = "PENDING"
          /\ invitation[i].user \in User /\ invitation[i].role \in Invitable
          /\ member[invitation[i].user] = NoMember
          /\ member' = [member EXCEPT ![invitation[i].user] = [role |-> invitation[i].role, status |-> "ACTIVE"]]
          /\ invitation' = [invitation EXCEPT ![i].status = "ACCEPTED"]
          /\ Finish(t)
    BY <1>5, AcceptFacts
  <2>2. invitation'[i].status = "ACCEPTED" /\ \A j \in Invitation \ {i} : invitation'[j] = invitation[j]
    BY <1>0, <2>1 DEF InvitationRow
  <2>3. /\ member'[invitation[i].user].role = invitation[i].role
        /\ \A v \in User \ {invitation[i].user} : member'[v] = member[v]
    BY <1>0, <2>1
  <2> QED BY <2>1, <2>2, <2>3 DEF Joins
<1>6. ASSUME NEW t \in Txn, WriteMember(t) PROVE Joins
  BY <1>6, WriteFacts DEF Joins
<1>7. \/ \E i \in Invitation : Lapse(i)
      \/ \E actor \in User, i \in Invitation : RevokeInvitation(actor, i)
      \/ \E t \in Txn, actor, user \in User, role \in Invitable : BeginInvite(t, actor, user, role)
      \/ \E t \in Txn : InsertInvitation(t) \/ CommitAccept(t) \/ WriteMember(t)
  BY DEF Next, TeamNext, BeginTeam, TeamStep, BeginAccept, BeginUpdateMember, CheckInvitation, CheckMembership,
     StorefrontNext, BeginStorefront, StorefrontStep, GiveUp, UpdateSettings, UpdatePackage, ArchivePackage,
     UpdateQuoteRequestStatus, Tick, BeginSubmit, BeginUpdateResource, BeginPublish, BeginPublishPackage,
     BeginConvert, WriteResource, WritePublication, WritePackagePublication, ReadSummary, ReadItems,
     LockSubmitter, CommitRequest, ResolveCustomer, CommitConvert
<1> QED BY <1>1, <1>2, <1>3, <1>4, <1>5, <1>6, <1>7

\* An invitation admits one user, once, in the role it offers: AcceptInvitation
\* has its row locked, and the unique index lets nobody have two.
THEOREM AdmitsOnce == Spec => JoinsOnce
<1>1. OfficeInv /\ [Next]_vars => [Joins]_team
  <2>1. UNCHANGED vars => UNCHANGED team
    BY DEF vars
  <2> QED BY <2>1, JoinsKept
<1>2. OfficeInv /\ [Next]_vars =>
        [ /\ \A i \in Invitation :
               /\ invitation[i].status \in {"ACCEPTED", "REVOKED", "EXPIRED"} => invitation'[i] = invitation[i]
               /\ invitation'[i].status = "ACCEPTED" /\ invitation[i].status # "ACCEPTED" =>
                    member[invitation[i].user] = NoMember
          /\ \A u \in User : member[u] = NoMember /\ member'[u] # NoMember =>
               \E i \in Invitation : /\ invitation[i].status = "PENDING" /\ invitation'[i].status = "ACCEPTED"
                                     /\ invitation[i].user = u /\ invitation[i].role = member'[u].role ]_team
  BY <1>1 DEF Joins
<1> QED BY <1>2, OfficeInductive, PTL DEF Spec, JoinsOnce

-----------------------------------------------------------------------------
(* The owner *)

\* The last owner is not the one a write changes.
LEMMA WriteKeepsOwner ==
  ASSUME OfficeInv, OwnerStands, NEW t \in Txn, WriteMember(t) PROVE OwnerStands'
<1> DEFINE u == tx[t].key
           new == [role |-> IF tx[t].role = None THEN member[u].role ELSE tx[t].role,
                   status |-> IF tx[t].status = None THEN member[u].status ELSE tx[t].status]
<1>1. /\ u \in User /\ member \in [User -> Standing]
      /\ tx[t].role \in Invitable \cup {None} /\ tx[t].status \in {"ACTIVE", "SUSPENDED", None}
  BY InvParts DEF WriteMember, ReadsStand, At, TypeOK, TxRequest
<1>2. CASE UNCHANGED member
  BY <1>2 DEF OwnerStands
<1>3. CASE ~ UNCHANGED member
  <2>1. /\ member' = [member EXCEPT ![u] = new]
        /\ ~ (/\ member[u].role = "OWNER" /\ LastOwner(u)
              /\ tx[t].role # None \/ tx[t].status = "SUSPENDED")
    BY <1>3 DEF WriteMember
  <2>2. member'[u] = new /\ \A v \in User \ {u} : member'[v] = member[v]
    BY <1>1, <2>1
  <2>3. CASE u = Founder
    <3>1. member[u] = [role |-> "OWNER", status |-> "ACTIVE"] /\ LastOwner(u)
      BY <1>1, <2>3 DEF OwnerStands, LastOwner
    <3>2. tx[t].role = None /\ tx[t].status # "SUSPENDED"
      BY <2>1, <3>1
    <3>3. new = member[u]
      BY <1>1, <3>1, <3>2
    <3> QED BY <2>2, <3>3 DEF OwnerStands
  <2>4. CASE u # Founder
    <3>1. new.role # "OWNER"
      BY <1>1, <2>4 DEF OwnerStands, Invitable
    <3> QED BY <1>1, <2>2, <2>4, <3>1 DEF OwnerStands
  <2> QED BY <2>3, <2>4
<1> QED BY <1>2, <1>3

\* Whoever joins was no member, and is no owner.
LEMMA AcceptKeepsOwner ==
  ASSUME OfficeInv, OwnerStands, NEW t \in Txn, CommitAccept(t) PROVE OwnerStands'
<1>1. PICK i \in Invitation :
        /\ invitation[i].user \in User /\ invitation[i].role \in Invitable
        /\ member[invitation[i].user] = NoMember
        /\ member' = [member EXCEPT ![invitation[i].user] = [role |-> invitation[i].role, status |-> "ACTIVE"]]
  BY AcceptFacts
<1>2. /\ member'[invitation[i].user].role \in Invitable
      /\ \A v \in User \ {invitation[i].user} : member'[v] = member[v]
  BY <1>1, InvParts DEF TypeOK
<1>3. invitation[i].user # Founder
  BY <1>1 DEF OwnerStands, NoMember
<1> QED BY <1>1, <1>2, <1>3 DEF OwnerStands, Invitable

\* An organization keeps its owner (UpdateMember and AcceptInvitation), whatever
\* the team does at once.
THEOREM OwnerStays == Spec => []OwnerStands
<1>1. Init => OwnerStands
  BY TeamAssumption DEF Init, InitTeam, OwnerStands, Invitable, NoMember
<1>2. OfficeInv /\ OwnerStands /\ [Next]_vars => OwnerStands'
  <2> SUFFICES ASSUME OfficeInv, OwnerStands, [Next]_vars PROVE OwnerStands'
    OBVIOUS
  <2>1. CASE UNCHANGED member
    BY <2>1 DEF OwnerStands
  <2>2. UNCHANGED vars => UNCHANGED member
    BY DEF vars, team
  <2>3. Next => UNCHANGED member \/ \E t \in Txn : CommitAccept(t) \/ WriteMember(t)
    BY DEF Next, TeamNext, BeginTeam, TeamStep, Lapse, RevokeInvitation, BeginInvite, BeginAccept,
       BeginUpdateMember, CheckInvitation, InsertInvitation, CheckMembership, team,
       StorefrontNext, BeginStorefront, StorefrontStep, GiveUp, UpdateSettings, UpdatePackage, ArchivePackage,
       UpdateQuoteRequestStatus, Tick, BeginSubmit, BeginUpdateResource, BeginPublish, BeginPublishPackage,
       BeginConvert, WriteResource, WritePublication, WritePackagePublication, ReadSummary, ReadItems,
       LockSubmitter, CommitRequest, ResolveCustomer, CommitConvert
  <2> QED BY <2>1, <2>2, <2>3, AcceptKeepsOwner, WriteKeepsOwner
<1> QED BY <1>1, <1>2, OfficeInductive, PTL DEF Spec
===============================================================================
