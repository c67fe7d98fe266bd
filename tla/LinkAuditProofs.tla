--------------------------- MODULE LinkAuditProofs --------------------------
(* Proofs that LinkAudit has the properties the runs check on small          *)
(* instances, for every set of users, accounts, devices, links and requests, *)
(* and so have LeaseViews and DeviceUpdate, which read its tables.           *)
EXTENDS LeaseViews, DeviceUpdate, FiniteSetTheorems, TLAPS

USE DEF LinkPc, UnlinkPc, RemovePc, GrantPc, ShotPc

ReqTypeOK == req \in [Req -> Request] /\ \A r \in Req : Shape(req[r])

-----------------------------------------------------------------------------
(* Type correctness, together with the shape of the requests.                *)

\* The idle record is a request.
LEMMA IdleType == Idle \in Request /\ Shape(Idle)
  BY DEF Idle, Request, Pc, Shape, DeviceRow

\* Going on with the next device yields the idle record, or one that differs
\* from q in the fields of the iteration alone.
LEMMA NextDeviceFields ==
    ASSUME NEW q \in Request, NEW first, NEW p \in NextDevice(q, first)
    PROVE  \/ q.todo = {} /\ p = Idle
           \/ \E d \in q.todo :
                p = [pc |-> first, user |-> q.user, todo |-> q.todo \ {d}, dev |-> d,
                     link |-> None, accts |-> q.accts, left |-> {}, scope |-> q.scope,
                     base |-> q.base, seen |-> q.seen]
  <1>1. CASE q.todo = {}
    BY <1>1 DEF NextDevice
  <1>2. CASE q.todo # {}
    <2>1. PICK d \in q.todo :
            p = [q EXCEPT !.pc = first, !.dev = d, !.todo = @ \ {d}, !.link = None, !.left = {}]
      BY <1>2 DEF NextDevice
    <2>2. q = [pc |-> q.pc, user |-> q.user, todo |-> q.todo, dev |-> q.dev, link |-> q.link,
               accts |-> q.accts, left |-> q.left, scope |-> q.scope, base |-> q.base,
               seen |-> q.seen]
      BY DEF Request
    <2>. QED
      BY <2>1, <2>2
  <1>. QED
    BY <1>1, <1>2

LEMMA NextDeviceType ==
    ASSUME NEW q \in Request, NEW first \in {"linkCheck", "unlinkFind", "assignFind", "unassignFind"},
           q.user \in User, q.scope = {},
           NEW p \in NextDevice(q, first)
    PROVE  p \in Request /\ Shape(p)
  <1>1. CASE q.todo = {} /\ p = Idle
    BY <1>1, IdleType
  <1>2. ASSUME NEW d \in q.todo,
               p = [pc |-> first, user |-> q.user, todo |-> q.todo \ {d}, dev |-> d,
                    link |-> None, accts |-> q.accts, left |-> {}, scope |-> q.scope,
                    base |-> q.base, seen |-> q.seen]
        PROVE  p \in Request /\ Shape(p)
    <2>1. p \in Request
      BY <1>2 DEF Request, Pc
    <2>2. Shape(p)
      BY <1>2 DEF Shape, Request
    <2>. QED
      BY <2>1, <2>2
  <1>. QED
    BY <1>1, <1>2, NextDeviceFields

\* One request changes to a well-formed record: all requests are well-formed.
LEMMA GotoType ==
    ASSUME ReqTypeOK, NEW r \in Req, NEW q \in Request, Shape(q),
           req' = [req EXCEPT ![r] = q]
    PROVE  ReqTypeOK'
  BY DEF ReqTypeOK

\* An action that leaves the tables alone and sends r to one of Q.
LEMMA GotoSetType ==
    ASSUME ReqTypeOK, TablesTypeOK, NEW r \in Req, NEW Q, Goto(r, Q),
           \A q \in Q : q \in Request /\ Shape(q)
    PROVE  ReqTypeOK'
  BY GotoType DEF Goto

\* Every request that is received starts well-formed.
LEMMA ReceivesType ==
    ASSUME ReqTypeOK, TablesTypeOK, NEW r \in Req, Receives(r)
    PROVE  ReqTypeOK' /\ UNCHANGED tables
  <1>1. ASSUME NEW op, NEW u \in User, NEW D \in DeviceLists, NEW A \in SUBSET Account,
               NEW first \in {"linkCheck", "unlinkFind", "assignFind", "unassignFind"},
               Receive(r, op, u, D, A, first)
        PROVE  ReqTypeOK' /\ UNCHANGED tables
    <2>. DEFINE q == Asked(u, D, A)
    <2>1. q \in Request
      BY ServiceAssumption DEF Asked, Idle, Request, Pc, DeviceRow
    <2>2. q.user \in User /\ q.scope = {}
      BY DEF Asked, Idle
    <2>3. \A p \in NextDevice(q, first) : p \in Request /\ Shape(p)
      <3>. HIDE DEF q
      <3>. QED
        BY <2>1, <2>2, NextDeviceType
    <2>4. Goto(r, NextDevice(q, first)) /\ UNCHANGED tables
      BY <1>1 DEF Receive
    <2>. QED
      BY <2>3, <2>4, GotoSetType
  <1>2. {} \in SUBSET Account /\ AccountLists \subseteq SUBSET Account
    BY ServiceAssumption
  <1>3. CASE LinkBegin(r)
    BY <1>1, <1>2, <1>3 DEF LinkBegin
  <1>4. CASE UnlinkBegin(r)
    BY <1>1, <1>2, <1>4 DEF UnlinkBegin
  <1>5. CASE AssignBegin(r)
    BY <1>1, <1>2, <1>5 DEF AssignBegin
  <1>6. CASE UnassignBegin(r)
    BY <1>1, <1>2, <1>6 DEF UnassignBegin
  <1>7. CASE RemoveBegin(r)
    <2>1. PICK u \in User :
            /\ Goto(r, {[Idle EXCEPT !.pc = "removeDelete", !.user = u,
                                     !.todo = DevicesHeldBy(u), !.scope = DevicesHeldBy(u)]})
            /\ UNCHANGED tables
      BY <1>7 DEF RemoveBegin
    <2>. DEFINE q == [Idle EXCEPT !.pc = "removeDelete", !.user = u,
                                  !.todo = DevicesHeldBy(u), !.scope = DevicesHeldBy(u)]
    <2>2. q \in Request /\ Shape(q)
      BY DEF Idle, Request, Pc, Shape, DevicesHeldBy, DeviceRow
    <2>. QED
      BY <2>1, <2>2, GotoSetType
  <1>8. CASE ExtendBegin(r)
    <2>0. PICK u \in User, d \in Device : \E l \in LinksOf(u, d) :
            /\ Goto(r, {[Idle EXCEPT !.pc = "extendWrite", !.user = u, !.dev = d, !.link = l,
                                     !.base = expiresAt[l]]})
            /\ UNCHANGED tables
      BY <1>8 DEF ExtendBegin
    <2>1. PICK l \in LinksOf(u, d) :
            /\ Goto(r, {[Idle EXCEPT !.pc = "extendWrite", !.user = u, !.dev = d, !.link = l,
                                     !.base = expiresAt[l]]})
            /\ UNCHANGED tables
      BY <2>0
    <2>. DEFINE q == [Idle EXCEPT !.pc = "extendWrite", !.user = u, !.dev = d, !.link = l,
                                  !.base = expiresAt[l]]
    <2>2. q \in Request /\ Shape(q)
      BY DEF Idle, Request, Pc, Shape, LinksOf, TablesTypeOK, DeviceRow
    <2>. QED
      BY <2>1, <2>2, GotoSetType
  <1>9. CASE ShotBegin(r)
    <2>1. PICK d \in Device :
            /\ emulators[d] # "ABSENT" /\ UNCHANGED tables
            /\ Goto(r, {[Idle EXCEPT !.pc = "shotLoad", !.dev = d, !.seen = emulators[d]]})
      BY <1>9 DEF ShotBegin
    <2>. DEFINE q == [Idle EXCEPT !.pc = "shotLoad", !.dev = d, !.seen = emulators[d]]
    <2>2. q \in Request /\ Shape(q)
      BY <2>1 DEF Idle, Request, Pc, Shape, TablesTypeOK
    <2>. QED
      BY <2>1, <2>2, GotoSetType
  <1>. QED
    BY <1>3, <1>4, <1>5, <1>6, <1>7, <1>8, <1>9 DEF Receives

LEMMA SetStateType ==
    ASSUME TablesTypeOK, NEW d, NEW s \in DeviceRow, SetState(d, s)
    PROVE  TablesTypeOK'
  BY DEF TablesTypeOK, SetState, DeviceRow

\* The steps of linkEmulator.
LEMMA LinkType ==
    ASSUME ReqTypeOK, TablesTypeOK, NEW r \in Req,
           \/ LinkCheck(r) \/ LinkInsert(r) \/ LinkInsertRefused(r)
           \/ LinkRoot(r) \/ LinkGrant(r) \/ LinkRegister(r)
    PROVE  ReqTypeOK' /\ TablesTypeOK'
  <1>. DEFINE q == req[r]
  <1>0. q \in Request /\ Shape(q)
    BY DEF ReqTypeOK
  <1>1. CASE LinkCheck(r)
    <2>1. q.pc = "linkCheck" => [q EXCEPT !.pc = "linkInsert"] \in Request
                                /\ Shape([q EXCEPT !.pc = "linkInsert"])
      BY <1>0 DEF Request, Pc, Shape
    <2>2. ReqTypeOK'
      BY <1>1, <2>1, IdleType, GotoType DEF LinkCheck, Goto
    <2>. QED
      BY <1>1, <2>2 DEF LinkCheck, tables, TablesTypeOK
  <1>2. CASE LinkInsert(r)
    <2>1. PICK l \in FreshLinks(q.user, q.dev) :
             /\ userEmulators' = [userEmulators EXCEPT ![l] = "active"]
             /\ expiresAt' = [expiresAt EXCEPT ![l] = DefaultDays]
             /\ Goto(r, {[q EXCEPT !.pc = "linkRoot", !.link = l]})
      BY <1>2 DEF LinkInsert
    <2>2. [q EXCEPT !.pc = "linkRoot", !.link = l] \in Request
          /\ Shape([q EXCEPT !.pc = "linkRoot", !.link = l])
      BY <1>0, <1>2 DEF LinkInsert, Request, Pc, Shape, FreshLinks
    <2>3. ReqTypeOK'
      BY <2>1, <2>2, GotoSetType
    <2>4. TablesTypeOK'
      BY <1>2, <2>1, ServiceAssumption DEF LinkInsert, FreshLinks, TablesTypeOK, LinkLife
    <2>. QED
      BY <2>3, <2>4
  <1>3. CASE LinkInsertRefused(r)
    BY <1>3, IdleType, GotoType DEF LinkInsertRefused, Goto, tables, TablesTypeOK
  <1>4. CASE LinkRoot(r)
    <2>1. PICK a \in RootsOf(q.user) :
            req' = [req EXCEPT ![r] = [q EXCEPT !.pc = "linkGrant", !.left = {a}]]
      BY <1>4 DEF LinkRoot, Goto
    <2>2. [q EXCEPT !.pc = "linkGrant", !.left = {a}] \in Request
          /\ Shape([q EXCEPT !.pc = "linkGrant", !.left = {a}])
      BY <1>0, <1>4, SchemaAssumption DEF LinkRoot, Request, Pc, Shape, RootsOf
    <2>3. ReqTypeOK'
      BY <2>1, <2>2, GotoType
    <2>. QED
      BY <1>4, <2>3 DEF LinkRoot, tables, TablesTypeOK
  <1>5. CASE LinkGrant(r)
    <2>1. [q EXCEPT !.pc = "linkRegister", !.left = {}] \in Request
          /\ Shape([q EXCEPT !.pc = "linkRegister", !.left = {}])
      BY <1>0, <1>5 DEF LinkGrant, Request, Pc, Shape
    <2>2. ReqTypeOK'
      BY <1>5, <2>1, GotoSetType DEF LinkGrant
    <2>3. q.link \in LinkId /\ q.left \subseteq Account
      BY <1>0, <1>5 DEF LinkGrant, Shape, Request
    <2>. QED
      BY <1>5, <2>2, <2>3 DEF LinkGrant, TablesTypeOK
  <1>6. CASE LinkRegister(r)
    <2>1. \A p \in NextDevice(q, "linkCheck") : p \in Request /\ Shape(p)
      BY <1>0, <1>6, NextDeviceType DEF LinkRegister, Shape
    <2>. QED
      BY <1>6, <2>1, GotoSetType, SetStateType DEF LinkRegister, DeviceRow
  <1>. QED
    BY <1>1, <1>2, <1>3, <1>4, <1>5, <1>6

\* The steps of unlinkEmulator.
LEMMA UnlinkType ==
    ASSUME ReqTypeOK, TablesTypeOK, NEW r \in Req,
           UnlinkFind(r) \/ UnlinkMark(r) \/ UnlinkRevoke(r) \/ UnlinkFree(r)
    PROVE  ReqTypeOK' /\ TablesTypeOK'
  <1>. DEFINE q == req[r]
  <1>0. q \in Request /\ Shape(q)
    BY DEF ReqTypeOK
  <1>1. ASSUME q.pc \in UnlinkPc, NEW p \in NextDevice(q, "unlinkFind")
        PROVE  p \in Request /\ Shape(p)
    BY <1>0, <1>1, NextDeviceType DEF Shape
  <1>2. CASE UnlinkFind(r)
    <2>1. CASE ActiveLinksOf(q.user, q.dev) = {}
      BY <1>1, <1>2, <2>1, GotoSetType DEF UnlinkFind, tables, TablesTypeOK
    <2>2. CASE ActiveLinksOf(q.user, q.dev) # {}
      <3>1. PICK l \in ActiveLinksOf(q.user, q.dev) :
              req' = [req EXCEPT ![r] = [q EXCEPT !.pc = "unlinkMark", !.link = l]]
        BY <1>2, <2>2 DEF UnlinkFind, Goto
      <3>2. [q EXCEPT !.pc = "unlinkMark", !.link = l] \in Request
            /\ Shape([q EXCEPT !.pc = "unlinkMark", !.link = l])
        BY <1>0, <1>2 DEF UnlinkFind, Request, Pc, Shape, ActiveLinksOf, LinksOf
      <3>3. ReqTypeOK'
        BY <3>1, <3>2, GotoType
      <3>. QED
        BY <1>2, <3>3 DEF UnlinkFind, tables, TablesTypeOK
    <2>. QED
      BY <2>1, <2>2
  <1>3. CASE UnlinkMark(r)
    <2>1. [q EXCEPT !.pc = "unlinkRevoke"] \in Request /\ Shape([q EXCEPT !.pc = "unlinkRevoke"])
      BY <1>0, <1>3 DEF UnlinkMark, Request, Pc, Shape
    <2>2. ReqTypeOK'
      BY <1>3, <2>1, GotoSetType DEF UnlinkMark
    <2>. QED
      BY <1>3, <2>2 DEF UnlinkMark, TablesTypeOK, LinkLife
  <1>4. CASE UnlinkRevoke(r)
    <2>1. [q EXCEPT !.pc = "unlinkFree"] \in Request /\ Shape([q EXCEPT !.pc = "unlinkFree"])
      BY <1>0, <1>4 DEF UnlinkRevoke, Request, Pc, Shape
    <2>2. ReqTypeOK'
      BY <1>4, <2>1, GotoSetType DEF UnlinkRevoke
    <2>. QED
      BY <1>4, <2>2 DEF UnlinkRevoke, TablesTypeOK
  <1>5. CASE UnlinkFree(r)
    BY <1>1, <1>5, GotoSetType, SetStateType DEF UnlinkFree, DeviceRow
  <1>. QED
    BY <1>2, <1>3, <1>4, <1>5

LEMMA DrainingType ==
    ASSUME NEW q \in Request, Shape(q), q.pc \in RemovePc, NEW D \in SUBSET q.todo
    PROVE  Draining(q, D) \in Request /\ Shape(Draining(q, D))
  <1>1. [q EXCEPT !.todo = D] \in Request /\ Shape([q EXCEPT !.todo = D])
    BY DEF Request, Shape
  <1>. QED
    BY <1>1, IdleType DEF Draining

LEMMA DeleteUserType ==
    ASSUME TablesTypeOK, NEW u \in User, DeleteUser(u)
    PROVE  TablesTypeOK'
  BY DEF TablesTypeOK, DeleteUser, RowLife, LinkLife

\* The steps of UserService.remove.
LEMMA RemoveType ==
    ASSUME ReqTypeOK, TablesTypeOK, NEW r \in Req,
           RemoveFree(r) \/ RemoveDelete(r) \/ RemoveDeleteFails(r)
    PROVE  ReqTypeOK' /\ TablesTypeOK'
  <1>. DEFINE q == req[r]
              p == [q EXCEPT !.pc = "removeDrain"]
  <1>0. q \in Request /\ Shape(q)
    BY DEF ReqTypeOK
  <1>1. CASE RemoveFree(r)
    <2>1. PICK d \in q.todo : SetState(d, "AVAILABLE") /\ Goto(r, {Draining(q, q.todo \ {d})})
      BY <1>1 DEF RemoveFree
    <2>2. Draining(q, q.todo \ {d}) \in Request /\ Shape(Draining(q, q.todo \ {d}))
      BY <1>0, <1>1, DrainingType DEF RemoveFree
    <2>. QED
      BY <2>1, <2>2, GotoSetType, SetStateType DEF DeviceRow
  <1>2. ASSUME q.pc = "removeDelete", Goto(r, {Draining(p, p.todo)})
        PROVE  ReqTypeOK'
    <2>1. p \in Request /\ Shape(p) /\ p.pc = "removeDrain"
      BY <1>0, <1>2 DEF Request, Pc, Shape
    <2>2. Draining(p, p.todo) \in Request /\ Shape(Draining(p, p.todo))
      <3>. HIDE DEF p
      <3>. QED
        BY <2>1, DrainingType
    <2>. QED
      BY <1>2, <2>2, GotoSetType
  <1>3. CASE RemoveDelete(r)
    <2>1. p.user = q.user /\ q.user \in User
      BY <1>0, <1>3 DEF RemoveDelete, Request, Shape
    <2>2. TablesTypeOK'
      BY <1>3, <2>1, DeleteUserType DEF RemoveDelete, tables, TablesTypeOK
    <2>. QED
      BY <1>2, <1>3, <2>2 DEF RemoveDelete
  <1>4. CASE RemoveDeleteFails(r)
    BY <1>2, <1>4 DEF RemoveDeleteFails, tables, TablesTypeOK
  <1>. QED
    BY <1>1, <1>3, <1>4

\* The steps of the assign and unassign handlers, and of extend.
LEMMA GrantType ==
    ASSUME ReqTypeOK, TablesTypeOK, NEW r \in Req,
           \/ AssignFind(r) \/ AssignApply(r) \/ UnassignFind(r) \/ UnassignApply(r)
           \/ ExtendWrite(r)
    PROVE  ReqTypeOK' /\ TablesTypeOK'
  <1>. DEFINE q == req[r]
  <1>0. q \in Request /\ Shape(q)
    BY DEF ReqTypeOK
  <1>1. ASSUME q.pc \in GrantPc, NEW first \in {"assignFind", "unassignFind"},
               NEW p \in NextDevice(q, first)
        PROVE  p \in Request /\ Shape(p)
    BY <1>0, <1>1, NextDeviceType DEF Shape
  <1>2. ASSUME NEW find \in {"assignFind", "unassignFind"},
               NEW apply \in {"assignApply", "unassignApply"}, FindLink(r, find, apply)
        PROVE  ReqTypeOK' /\ TablesTypeOK'
    <2>1. CASE LinksOf(q.user, q.dev) = {}
      BY <1>1, <1>2, <2>1, GotoSetType DEF FindLink, tables, TablesTypeOK
    <2>2. CASE LinksOf(q.user, q.dev) # {}
      <3>1. PICK l \in LinksOf(q.user, q.dev) :
              req' = [req EXCEPT ![r] = [q EXCEPT !.pc = apply, !.link = l, !.left = q.accts]]
        BY <1>2, <2>2 DEF FindLink, Goto
      <3>2. [q EXCEPT !.pc = apply, !.link = l, !.left = q.accts] \in Request
            /\ Shape([q EXCEPT !.pc = apply, !.link = l, !.left = q.accts])
        BY <1>0, <1>2 DEF FindLink, Request, Pc, Shape, LinksOf
      <3>3. ReqTypeOK'
        BY <3>1, <3>2, GotoType
      <3>. QED
        BY <1>2, <3>3 DEF FindLink, tables, TablesTypeOK
    <2>. QED
      BY <2>1, <2>2
  <1>3. ASSUME q.pc \in {"assignApply", "unassignApply"}, NEW a \in q.left,
               NEW first \in {"assignFind", "unassignFind"}, Goto(r, NextAccount(q, a, first))
        PROVE  ReqTypeOK'
    <2>1. [q EXCEPT !.left = @ \ {a}] \in Request /\ Shape([q EXCEPT !.left = @ \ {a}])
      BY <1>0, <1>3 DEF Request, Shape
    <2>2. \A p \in NextAccount(q, a, first) : p \in Request /\ Shape(p)
      BY <1>1, <1>3, <2>1 DEF NextAccount
    <2>. QED
      BY <1>3, <2>2, GotoSetType
  <1>4. q.pc \in GrantPc => q.left \subseteq Account
    BY <1>0 DEF Request
  <1>5. q.pc \in {"assignApply", "unassignApply"} => q.link \in LinkId
    BY <1>0 DEF Shape
  <1>6. CASE AssignFind(r)
    BY <1>2, <1>6 DEF AssignFind
  <1>7. CASE AssignApply(r)
    BY <1>3, <1>4, <1>5, <1>7 DEF AssignApply, TablesTypeOK
  <1>8. CASE UnassignFind(r)
    BY <1>2, <1>8 DEF UnassignFind
  <1>9. CASE UnassignApply(r)
    BY <1>3, <1>7, <1>9 DEF UnassignApply, TablesTypeOK
  <1>10. CASE ExtendWrite(r)
    <2>1. q.base + ExtendDays \in Nat
      BY <1>0, ServiceAssumption DEF Request
    <2>2. ReqTypeOK'
      BY <1>10, IdleType, GotoSetType DEF ExtendWrite
    <2>. QED
      BY <1>10, <2>1, <2>2 DEF ExtendWrite, TablesTypeOK
  <1>. QED
    BY <1>6, <1>7, <1>8, <1>9, <1>10

\* The steps of linkScreenshot.
LEMMA ShotType ==
    ASSUME ReqTypeOK, TablesTypeOK, NEW r \in Req, ShotLoad(r) \/ ShotWrite(r) \/ ShotInsert(r)
    PROVE  ReqTypeOK' /\ TablesTypeOK'
  <1>. DEFINE q == req[r]
  <1>0. q \in Request /\ Shape(q)
    BY DEF ReqTypeOK
  <1>1. CASE ShotLoad(r)
    <2>1. ASSUME NEW next \in {"shotInsert", "shotWrite"}, q.pc = "shotLoad"
          PROVE  [q EXCEPT !.pc = next] \in Request /\ Shape([q EXCEPT !.pc = next])
      BY <1>0, <2>1 DEF Request, Pc, Shape
    <2>2. ReqTypeOK'
      BY <1>1, <2>1, IdleType, GotoSetType DEF ShotLoad
    <2>. QED
      BY <1>1, <2>2 DEF ShotLoad, tables, TablesTypeOK
  <1>2. CASE ShotWrite(r)
    BY <1>0, <1>2, IdleType, GotoSetType, SetStateType DEF ShotWrite, Request
  <1>3. CASE ShotInsert(r)
    <2>1. ReqTypeOK'
      BY <1>3, IdleType, GotoSetType DEF ShotInsert
    <2>2. q.seen \in DeviceRow
      BY <1>0 DEF Request
    <2>. QED
      BY <1>3, <2>1, <2>2 DEF ShotInsert, TablesTypeOK
  <1>. QED
    BY <1>1, <1>2, <1>3

LEMMA DirectoryType ==
    ASSUME ReqTypeOK, TablesTypeOK, Directory \/ \E d \in Device : RemoveEmulator(d)
    PROVE  ReqTypeOK' /\ TablesTypeOK'
  <1>1. CASE \E u \in User : InsertUser(u)
    BY <1>1 DEF InsertUser, TablesTypeOK, RowLife, ReqTypeOK
  <1>2. CASE \E a \in Account : InsertAccount(a) \/ RemoveAccount(a)
    BY <1>2 DEF InsertAccount, RemoveAccount, DeleteAccount, TablesTypeOK, RowLife, ReqTypeOK
  <1>3. CASE \E d \in Device : CreateEmulator(d)
    BY <1>3 DEF CreateEmulator, TablesTypeOK, DeviceRow, ReqTypeOK
  <1>4. CASE \E d \in Device : RemoveEmulator(d)
    BY <1>4 DEF RemoveEmulator, DeleteEmulator, DeleteLinks, TablesTypeOK, DeviceRow, LinkLife, ReqTypeOK
  <1>. QED
    BY <1>1, <1>2, <1>3, <1>4 DEF Directory

\* A handler that stops answers, with an error or not at all.
LEMMA StopType ==
    ASSUME ReqTypeOK, TablesTypeOK, NEW r \in Req, LinkBreaks(r) \/ QueryFails(r)
    PROVE  ReqTypeOK' /\ TablesTypeOK'
  BY IdleType, GotoType DEF LinkBreaks, QueryFails, Goto, tables, TablesTypeOK

LEMMA HalfDoneType ==
    ASSUME ReqTypeOK, NEW r \in Req
    PROVE  HalfDone(req[r]) \subseteq Device /\ req[r].scope \subseteq Device
  BY DEF ReqTypeOK, HalfDone, Shape, Request

LEMMA TypeStep ==
    ASSUME ReqTypeOK, TypeOK, [AuditNext]_auditVars
    PROVE  ReqTypeOK' /\ TypeOK'
  <1>0. /\ TablesTypeOK /\ disturbed \subseteq Device /\ raced \subseteq LinkId
        /\ named \subseteq Account \X User
    BY DEF TypeOK
  <1>1. ASSUME NEW hit \in SUBSET Device, Track(hit)
        PROVE  disturbed' \subseteq Device /\ raced' \subseteq LinkId /\ named' \subseteq Account \X User
    BY <1>0, <1>1 DEF Track
  <1>2. ASSUME NEW r \in Req, Runs(r)
        PROVE  ReqTypeOK' /\ TypeOK'
    <2>1. CASE Receives(r)
      BY <1>0, <1>1, <1>2, <2>1, ReceivesType DEF Runs, TypeOK, tables, TablesTypeOK, ReqTypeOK
    <2>2. CASE Serves(r)
      <3>1. ReqTypeOK' /\ TablesTypeOK'
        BY <1>0, <2>2, LinkType, UnlinkType, RemoveType, GrantType, ShotType DEF Serves
      <3>. QED
        BY <1>1, <1>2, <3>1 DEF Runs, TypeOK, ReqTypeOK
    <2>. QED
      BY <1>2, <2>1, <2>2 DEF Runs
  <1>3. ASSUME NEW r \in Req, Stops(r) \/ Forgets(r)
        PROVE  ReqTypeOK' /\ TypeOK'
    <2>1. ReqTypeOK' /\ TablesTypeOK'
      BY <1>0, <1>3, StopType, RemoveType DEF Stops, Forgets
    <2>. QED
      BY <1>1, <1>3, <2>1, HalfDoneType DEF Stops, Forgets, TypeOK, ReqTypeOK
  <1>4. CASE Directory /\ Track({})
    BY <1>0, <1>1, <1>4, DirectoryType DEF TypeOK, ReqTypeOK
  <1>5. ASSUME NEW d \in Device, Pulls(d)
        PROVE  ReqTypeOK' /\ TypeOK'
    <2>1. ReqTypeOK' /\ TablesTypeOK'
      BY <1>0, <1>5, DirectoryType DEF Pulls
    <2>. QED
      BY <1>1, <1>5, <2>1 DEF Pulls, TypeOK, ReqTypeOK
  <1>6. CASE UNCHANGED auditVars
    BY <1>0, <1>6 DEF auditVars, vars, tables, TypeOK, TablesTypeOK, ReqTypeOK
  <1>. QED
    BY <1>2, <1>3, <1>4, <1>5, <1>6 DEF AuditNext

LEMMA TypeInit == AuditInit => ReqTypeOK /\ TypeOK
  BY IdleType DEF AuditInit, Init, ReqTypeOK, TypeOK, TablesTypeOK, RowLife, LinkLife, DeviceRow

\* Every table and every request has values of its columns' types.
THEOREM TypeCorrect == AuditSpec => []TypeOK
  <1>1. AuditSpec => [](ReqTypeOK /\ TypeOK)
    BY TypeInit, TypeStep, PTL DEF AuditSpec
  <1>. QED
    BY <1>1, PTL

-----------------------------------------------------------------------------
(* Accounts on a lease are live accounts of the lessee.                      *)

\* Who a grant is for may be its account's user, or one a request named it with.
Entitled(a, l) == AccountUser[a] = LinkUser[l] \/ <<a, LinkUser[l]>> \in named

\* The rows a grant refers to stay, and a new grant is the lessee's or named.
LEMMA GrantsKept ==
    ASSUME GrantsOwned, TablesTypeOK, named \subseteq named',
           \A g \in accountEmulators' :
             \/ g \in accountEmulators /\ (GrantRefersToRows(g[1], g[2]) => GrantRefersToRows(g[1], g[2])')
             \/ GrantRefersToRows(g[1], g[2])' /\ Entitled(g[1], g[2])
    PROVE  GrantsOwned'
  BY DEF GrantsOwned, Entitled

\* The record of names only grows, and every account named now is in it.
LEMMA NamedStep ==
    ASSUME NamedInv, [AuditNext]_auditVars
    PROVE  NamedInv' /\ named \subseteq named'
  <1>1. CASE UNCHANGED auditVars
    BY <1>1 DEF NamedInv, auditVars, vars, Naming
  <1>2. CASE AuditNext
    <2>1. PICK hit : Track(hit)
      BY <1>2 DEF AuditNext, Runs, Stops, Forgets, Pulls
    <2>. QED
      BY <2>1 DEF Track, NamedInv, Naming
  <1>. QED
    BY <1>1, <1>2

LEMMA GrantsServes ==
    ASSUME GrantsOwned, NamedInv, TablesTypeOK, ReqTypeOK, named \subseteq named',
           NEW r \in Req, Serves(r)
    PROVE  GrantsOwned'
  <1>. DEFINE q == req[r]
  <1>0. q \in Request /\ Shape(q)
    BY DEF ReqTypeOK
  <1>. USE DEF GrantRefersToRows, LinkExists
  <1>1. ASSUME UNCHANGED <<accounts, userEmulators>>, accountEmulators' \subseteq accountEmulators
        PROVE  GrantsOwned'
    BY <1>1, GrantsKept
  <1>2. CASE \/ LinkCheck(r) \/ LinkInsertRefused(r) \/ LinkRoot(r) \/ LinkRegister(r)
             \/ UnlinkFind(r) \/ UnlinkRevoke(r) \/ UnlinkFree(r) \/ RemoveFree(r)
             \/ AssignFind(r) \/ UnassignFind(r) \/ UnassignApply(r) \/ ExtendWrite(r)
             \/ ShotLoad(r) \/ ShotWrite(r) \/ ShotInsert(r)
    BY <1>1, <1>2 DEF LinkCheck, LinkInsertRefused, LinkRoot, LinkRegister, UnlinkFind,
         UnlinkRevoke, UnlinkFree, RemoveFree, AssignFind, UnassignFind, FindLink,
         UnassignApply, ExtendWrite, ShotLoad, ShotWrite, ShotInsert, SetState, tables
  <1>3. CASE LinkInsert(r)
    <2>1. PICK l \in FreshLinks(q.user, q.dev) : userEmulators' = [userEmulators EXCEPT ![l] = "active"]
      BY <1>3 DEF LinkInsert
    <2>. QED
      BY <1>3, <2>1, GrantsKept DEF LinkInsert, TablesTypeOK
  <1>4. CASE LinkGrant(r)
    <2>1. PICK a \in q.left : /\ GrantRefersToRows(a, q.link)
                              /\ accountEmulators' = accountEmulators \cup {<<a, q.link>>}
      BY <1>4 DEF LinkGrant
    <2>2. Entitled(a, q.link)
      BY <1>0, <1>4 DEF LinkGrant, Shape, Entitled
    <2>. QED
      BY <1>4, <2>1, <2>2, GrantsKept DEF LinkGrant
  <1>5. CASE UnlinkMark(r)
    BY <1>5, GrantsKept DEF UnlinkMark, TablesTypeOK
  <1>6. CASE RemoveDelete(r)
    <2>2. ASSUME NEW u \in User, DeleteUser(u)
          PROVE  GrantsOwned'
      <3>1. \A g \in accountEmulators' : g \in accountEmulators /\ g[1] \in Account /\ g[2] \in LinkId
                                          /\ AccountUser[g[1]] # u /\ LinkUser[g[2]] # u
        BY <2>2 DEF DeleteUser, TablesTypeOK
      <3>. QED
        BY <2>2, <3>1, GrantsKept DEF DeleteUser, TablesTypeOK
    <2>3. q.user \in User /\ [q EXCEPT !.pc = "removeDrain"].user = q.user
      BY <1>0, <1>6 DEF RemoveDelete, Shape, Request
    <2>. QED
      BY <1>6, <2>2, <2>3 DEF RemoveDelete
  <1>7. CASE AssignApply(r)
    <2>1. PICK a \in q.left :
            \/ /\ GrantRefersToRows(a, q.link)
               /\ accountEmulators' = accountEmulators \cup {<<a, q.link>>}
            \/ UNCHANGED accountEmulators
      BY <1>7 DEF AssignApply
    <2>2. Entitled(a, q.link)
      <3>1. /\ q.pc = "assignApply" /\ a \in q.accts /\ a \in Account
            /\ q.user \in User /\ LinkUser[q.link] = q.user
        BY <1>0, <1>7 DEF AssignApply, Shape, Request
      <3>. QED
        BY <3>1 DEF NamedInv, Naming, Entitled
    <2>. QED
      BY <1>7, <2>1, <2>2, GrantsKept DEF AssignApply
  <1>. QED
    BY <1>2, <1>3, <1>4, <1>5, <1>6, <1>7 DEF Serves

LEMMA GrantsStep ==
    ASSUME GrantsOwned, NamedInv, TypeOK, ReqTypeOK, [AuditNext]_auditVars
    PROVE  GrantsOwned'
  <1>0. TablesTypeOK /\ named \subseteq named'
    BY NamedStep DEF TypeOK
  <1>1. CASE UNCHANGED tables
    BY <1>1, GrantsKept, <1>0 DEF tables, GrantRefersToRows, LinkExists
  <1>2. ASSUME NEW r \in Req, Serves(r)
        PROVE  GrantsOwned'
    BY <1>0, <1>2, GrantsServes
  <1>3. ASSUME NEW r \in Req, Receives(r) \/ Breaks(r)
        PROVE  UNCHANGED tables
    BY <1>0, <1>3, ReceivesType DEF Breaks, LinkBreaks, QueryFails, RemoveDeleteFails
  <1>4. CASE Directory
    <2>1. CASE \E u \in User : InsertUser(u)
      BY <1>0, <2>1, GrantsKept DEF InsertUser, GrantRefersToRows, LinkExists
    <2>2. CASE \E a \in Account : InsertAccount(a) \/ RemoveAccount(a)
      BY <1>0, <2>2, GrantsKept DEF InsertAccount, RemoveAccount, DeleteAccount,
           GrantRefersToRows, LinkExists, TablesTypeOK
    <2>3. CASE \E d \in Device : CreateEmulator(d)
      BY <1>0, <2>3, GrantsKept DEF CreateEmulator, GrantRefersToRows, LinkExists
    <2>. QED
      BY <1>4, <2>1, <2>2, <2>3 DEF Directory
  <1>5. ASSUME NEW d \in Device, RemoveEmulator(d)
        PROVE  GrantsOwned'
    <2>1. \A g \in accountEmulators' : g \in accountEmulators /\ g[1] \in Account /\ g[2] \in LinkId
                                       /\ LinkDevice[g[2]] # d
      BY <1>0, <1>5 DEF RemoveEmulator, DeleteEmulator, DeleteLinks, TablesTypeOK
    <2>. QED
      BY <1>0, <1>5, <2>1, GrantsKept DEF RemoveEmulator, DeleteEmulator, DeleteLinks,
           GrantRefersToRows, LinkExists, TablesTypeOK
  <1>. QED
    BY <1>1, <1>2, <1>3, <1>4, <1>5 DEF AuditNext, auditVars, vars, tables, Runs, Stops, Forgets,
         Pulls, Breaks

\* Every grant is on an existing link and of a live account, which is one of
\* the link's user unless a request named the account with that user.
THEOREM GrantsAlwaysOwned == AuditSpec => []GrantsOwned
  <1>1. AuditInit => GrantsOwned /\ NamedInv
    BY DEF AuditInit, Init, GrantsOwned, NamedInv, Naming, Idle
  <1>2. AuditSpec => [](ReqTypeOK /\ TypeOK /\ GrantsOwned /\ NamedInv)
    BY <1>1, TypeInit, TypeStep, GrantsStep, NamedStep, PTL DEF AuditSpec
  <1>. QED
    BY <1>2, PTL

-----------------------------------------------------------------------------
(* The lease of a device.                                                    *)

\* What a step that takes a request from p to q, and the state and the active
\* links of d from s and A to t and B, has to respect.
Local(p, q, s, A, t, B, d) ==
    /\ WorksOn(q, d) => Stage(q, t, B, d)
    /\ ~WorksOn(q, d) /\ WorksOn(p, d) => Settled(t, B)
    /\ ~WorksOn(q, d) /\ ~WorksOn(p, d) => t = s /\ B = A
    /\ \A l \in B \ A : LinkUser[l] = q.user /\ q.pc \in LinkPc /\ WorksOn(q, d)
    /\ q.pc = "removeDelete" /\ d \notin q.scope => \A l \in B : LinkUser[l] # q.user

\* A step of one request that respects its device's stage, and overlaps with
\* no other request on the device, keeps the device's invariant.
LEMMA DeviceStep ==
    ASSUME NEW f \in [Req -> Request], NEW r \in Req, NEW q \in Request, NEW d \in Device,
           NEW s, NEW A, NEW t, NEW B, NEW g, g = [f EXCEPT ![r] = q],
           DeviceInv(f, s, A, d), ~Contended(g, d), Local(f[r], q, s, A, t, B, d)
    PROVE  DeviceInv(g, t, B, d)
  <1>1. g[r] = q /\ \A c \in Req : c # r => g[c] = f[c]
    OBVIOUS
  <1>2. \A c \in Req : c # r => ~Overlap(q, f[c], d) /\ ~(WorksOn(f[r], d) /\ WorksOn(f[c], d))
    BY <1>1 DEF DeviceInv, Contended, Overlap
  <1>3. (\E c \in Req : WorksOn(g[c], d)) \/ Settled(t, B)
    BY <1>1, <1>2 DEF DeviceInv, Local
  <1>4. ASSUME NEW c \in Req, WorksOn(g[c], d)
        PROVE  Stage(g[c], t, B, d)
    <2>1. CASE c = r
      BY <1>1, <1>4, <2>1 DEF Local
    <2>2. CASE c # r
      BY <1>1, <1>2, <1>4, <2>2 DEF Local, DeviceInv, Overlap
    <2>. QED
      BY <2>1, <2>2
  <1>5. ASSUME NEW c \in Req, g[c].pc = "removeDelete", d \notin g[c].scope, NEW l \in B
        PROVE  LinkUser[l] # g[c].user
    <2>1. CASE c = r
      BY <1>1, <1>5, <2>1 DEF Local
    <2>2. CASE c # r /\ l \in A
      BY <1>1, <1>5, <2>2 DEF DeviceInv
    <2>3. CASE c # r /\ l \notin A
      BY <1>1, <1>2, <1>5, <2>3 DEF Local, Overlap
    <2>. QED
      BY <2>1, <2>2, <2>3
  <1>. QED
    BY <1>3, <1>4, <1>5 DEF DeviceInv

\* A request that starts to work on a device finds it settled.
LEMMA FreshWork ==
    ASSUME NEW f \in [Req -> Request], NEW r \in Req, NEW q \in Request, NEW d \in Device,
           NEW s, NEW A, NEW g, g = [f EXCEPT ![r] = q],
           DeviceInv(f, s, A, d), ~Contended(g, d), ~WorksOn(f[r], d), WorksOn(q, d)
    PROVE  Settled(s, A)
  BY DEF DeviceInv, Contended, Overlap

-----------------------------------------------------------------------------
(* Each step of a handler respects the stage of every device.                *)

Respects(r, d) ==
    Local(req[r], req'[r], emulators[d], ActiveOn(d), emulators'[d], ActiveOn(d)', d)

StageOK(r, d) ==
    /\ WorksOn(req[r], d) => Stage(req[r], emulators[d], ActiveOn(d), d)
    /\ req[r].pc = "removeDelete" /\ d \notin req[r].scope =>
         \A l \in ActiveOn(d) : LinkUser[l] # req[r].user

\* A request that names devices starts at its first pc, or at once has none.
LEMMA ReceivePc ==
    ASSUME ReqTypeOK, NEW r \in Req, NEW op, NEW u, NEW D, NEW A, NEW first,
           Receive(r, op, u, D, A, first)
    PROVE  req'[r].pc \in {"idle", first}
  <1>1. PICK p \in NextDevice(Asked(u, D, A), first) : req'[r] = p
    BY DEF Receive, Goto, ReqTypeOK
  <1>2. p = Idle \/ p.pc = first
    BY DEF NextDevice, Asked, Idle
  <1>. QED
    BY <1>1, <1>2 DEF Idle

LEMMA ReceivesRespects ==
    ASSUME ReqTypeOK, TablesTypeOK, NEW r \in Req, NEW d \in Device, Receives(r),
           DeviceInv(req, emulators[d], ActiveOn(d), d), ~Contended(req', d)
    PROVE  Respects(r, d)
  <1>. DEFINE q == req'[r]
  <1>1. UNCHANGED tables /\ q \in Request /\ Shape(q) /\ req' = [req EXCEPT ![r] = q]
    <2>1. \E p : req' = [req EXCEPT ![r] = p]
      BY DEF Receives, LinkBegin, UnlinkBegin, RemoveBegin, AssignBegin, UnassignBegin,
             ExtendBegin, ShotBegin, Receive, Goto
    <2>. QED
      BY <2>1, ReceivesType DEF ReqTypeOK
  <1>2. emulators'[d] = emulators[d] /\ ActiveOn(d)' = ActiveOn(d)
    BY <1>1 DEF tables, ActiveOn
  <1>3. ~WorksOn(req[r], d)
    <2>1. req[r] = Idle
      BY DEF Receives, LinkBegin, UnlinkBegin, RemoveBegin, AssignBegin, UnassignBegin,
             ExtendBegin, ShotBegin, Receive
    <2>. QED
      BY <2>1 DEF WorksOn, Idle
  <1>4. WorksOn(q, d) => Settled(emulators[d], ActiveOn(d))
    BY <1>1, <1>3, FreshWork DEF ReqTypeOK
  <1>5. q.pc \in {"idle", "linkCheck", "unlinkFind", "assignFind", "unassignFind", "extendWrite",
                 "shotLoad"}
        \/ /\ q.pc = "removeDelete" /\ q.todo = DevicesHeldBy(q.user)
           /\ q.scope = DevicesHeldBy(q.user)
    <2>1. ASSUME NEW op, NEW u, NEW D, NEW A, NEW first, Receive(r, op, u, D, A, first)
          PROVE  q.pc \in {"idle", first}
      BY <2>1, ReceivePc
    <2>2. CASE LinkBegin(r) \/ UnlinkBegin(r) \/ AssignBegin(r) \/ UnassignBegin(r)
      BY <2>1, <2>2 DEF LinkBegin, UnlinkBegin, AssignBegin, UnassignBegin
    <2>3. CASE RemoveBegin(r)
      <3>1. PICK u \in User :
              q = [Idle EXCEPT !.pc = "removeDelete", !.user = u,
                               !.todo = DevicesHeldBy(u), !.scope = DevicesHeldBy(u)]
        BY <2>3 DEF RemoveBegin, Goto, ReqTypeOK
      <3>. QED
        BY <3>1 DEF Idle
    <2>4. CASE ExtendBegin(r)
      <3>1. PICK u \in User, c \in Device : \E l \in LinksOf(u, c) :
              Goto(r, {[Idle EXCEPT !.pc = "extendWrite", !.user = u, !.dev = c, !.link = l,
                                    !.base = expiresAt[l]]})
        BY <2>4 DEF ExtendBegin
      <3>2. PICK l \in LinksOf(u, c) :
              q = [Idle EXCEPT !.pc = "extendWrite", !.user = u, !.dev = c, !.link = l,
                               !.base = expiresAt[l]]
        BY <3>1 DEF Goto, ReqTypeOK
      <3>. QED
        BY <3>2 DEF Idle
    <2>5. CASE ShotBegin(r)
      <3>1. PICK c \in Device :
              q = [Idle EXCEPT !.pc = "shotLoad", !.dev = c, !.seen = emulators[c]]
        BY <2>5 DEF ShotBegin, Goto, ReqTypeOK
      <3>. QED
        BY <3>1 DEF Idle
    <2>. QED
      BY <2>2, <2>3, <2>4, <2>5 DEF Receives
  <1>9. q.pc = "shotLoad" /\ WorksOn(q, d) => q.seen = emulators[d]
    <2>1. ASSUME ~ShotBegin(r)
          PROVE  q.pc # "shotLoad"
      <3>2. CASE LinkBegin(r) \/ UnlinkBegin(r) \/ AssignBegin(r) \/ UnassignBegin(r)
        <4>1. q.pc \in {"idle", "linkCheck", "unlinkFind", "assignFind", "unassignFind"}
          BY <3>2, ReceivePc DEF LinkBegin, UnlinkBegin, AssignBegin, UnassignBegin
        <4>. QED
          BY <4>1
      <3>3. CASE RemoveBegin(r) \/ ExtendBegin(r)
        BY <3>3 DEF RemoveBegin, ExtendBegin, Goto, ReqTypeOK, Idle
      <3>. QED
        BY <2>1, <3>2, <3>3 DEF Receives
    <2>2. CASE ShotBegin(r)
      <3>1. PICK c \in Device :
              q = [Idle EXCEPT !.pc = "shotLoad", !.dev = c, !.seen = emulators[c]]
        BY <2>2 DEF ShotBegin, Goto, ReqTypeOK
      <3>2. q.dev = c /\ q.seen = emulators[c] /\ q.todo = {} /\ q.scope = {}
        BY <3>1 DEF Idle
      <3>. QED
        BY <3>2 DEF WorksOn
    <2>. QED
      BY <2>1, <2>2
  <1>6. CASE q.pc # "removeDelete"
    BY <1>2, <1>3, <1>4, <1>5, <1>6, <1>9 DEF Respects, Local, Stage
  <1>7. CASE q.pc = "removeDelete"
    <2>1. \A l \in ActiveOn(d) : LinkUser[l] = q.user => l \in ActiveLinksOf(q.user, d)
      BY DEF ActiveOn, ActiveLinksOf, LinksOf, LinkExists
    <2>2. d \notin q.scope => \A l \in ActiveOn(d) : LinkUser[l] # q.user
      BY <1>5, <1>7, <2>1 DEF DevicesHeldBy
    <2>3. ASSUME d \in q.scope
          PROVE  \E l \in ActiveOn(d) : LinkUser[l] = q.user
      BY <1>5, <1>7, <2>3 DEF DevicesHeldBy, ActiveLinksOf, LinksOf, ActiveOn
    <2>4. WorksOn(q, d) => d \in q.scope
      BY <1>1, <1>7, ServiceAssumption DEF WorksOn, Shape
    <2>5. WorksOn(q, d) => Stage(q, emulators[d], ActiveOn(d), d)
      BY <1>4, <1>5, <1>7, <2>3, <2>4 DEF Stage, Settled
    <2>. QED
      BY <1>2, <1>3, <1>7, <2>2, <2>5 DEF Respects, Local
  <1>. QED
    BY <1>6, <1>7

\* Going on with the next device, once this one's lease is settled.
LEMMA NextDeviceRespects ==
    ASSUME NEW q \in Request, Shape(q), q.pc \in LinkPc \cup UnlinkPc,
           NEW first \in {"linkCheck", "unlinkFind"}, NEW p \in NextDevice(q, first),
           NEW d \in Device, NEW s, NEW A, NEW t, NEW B,
           WorksOn(q, d) => Stage(q, s, A, d), B \subseteq A,
           d = q.dev => Settled(t, B), d # q.dev => t = s /\ B = A
    PROVE  Local(q, p, s, A, t, B, d)
  <1>1. CASE q.todo = {} /\ p = Idle
    BY <1>1 DEF Local, Idle, WorksOn, Shape
  <1>2. ASSUME NEW c \in q.todo,
               p = [pc |-> first, user |-> q.user, todo |-> q.todo \ {c}, dev |-> c,
                    link |-> None, accts |-> q.accts, left |-> {}, scope |-> q.scope,
                    base |-> q.base, seen |-> q.seen]
        PROVE  Local(q, p, s, A, t, B, d)
    <2>1. WorksOn(p, d) => WorksOn(q, d)
      BY <1>2 DEF WorksOn
    <2>2. WorksOn(q, d) => Settled(t, B)
      BY DEF WorksOn, Stage, Shape
    <2>3. WorksOn(p, d) => Stage(p, t, B, d)
      BY <1>2, <2>1, <2>2 DEF Stage
    <2>. QED
      BY <1>2, <2>1, <2>2, <2>3 DEF Local, WorksOn
  <1>. QED
    BY <1>1, <1>2, NextDeviceFields

\* A step that changes neither the state of d nor its active links, and takes
\* q to a later pc of the same iteration.
LEMMA SameDeviceRespects ==
    ASSUME NEW q \in Request, Shape(q), q.pc \in LinkPc \cup UnlinkPc,
           NEW p \in Request, p.pc \in LinkPc \cup UnlinkPc, p.dev = q.dev, p.todo = q.todo,
           p.scope = q.scope, NEW d \in Device, NEW s, NEW A, NEW t, NEW B,
           WorksOn(q, d) => Stage(q, s, A, d),
           d # q.dev => t = s /\ B = A,
           \A l \in B \ A : LinkUser[l] = p.user /\ p.pc \in LinkPc,
           d = q.dev => Stage(p, t, B, d)
    PROVE  Local(q, p, s, A, t, B, d)
  <1>1. WorksOn(p, d) <=> WorksOn(q, d)
    BY DEF WorksOn
  <1>2. WorksOn(p, d) /\ d # q.dev => d \in q.todo
    BY DEF WorksOn, Shape
  <1>3. WorksOn(p, d) /\ d # q.dev => Settled(t, B)
    BY <1>1, <1>2 DEF Stage
  <1>4. WorksOn(p, d) => Stage(p, t, B, d)
    BY <1>2, <1>3 DEF Stage
  <1>. QED
    BY <1>1, <1>4 DEF Local, WorksOn

LEMMA ActiveKept ==
    ASSUME NEW d, UNCHANGED userEmulators
    PROVE  ActiveOn(d)' = ActiveOn(d)
  BY DEF ActiveOn

LEMMA SetStateOther ==
    ASSUME TablesTypeOK, NEW c, NEW x, NEW d \in Device, SetState(c, x)
    PROVE  /\ ActiveOn(d)' = ActiveOn(d)
           /\ d # c => emulators'[d] = emulators[d]
           /\ d = c /\ emulators[d] # "ABSENT" => emulators'[d] = x
           /\ d = c /\ emulators[d] = "ABSENT" => emulators'[d] = "ABSENT"
  BY DEF SetState, ActiveOn, TablesTypeOK

LEMMA LinkRespects ==
    ASSUME ReqTypeOK, TablesTypeOK, NEW r \in Req, NEW d \in Device, StageOK(r, d),
           \/ LinkCheck(r) \/ LinkInsert(r) \/ LinkInsertRefused(r)
           \/ LinkRoot(r) \/ LinkGrant(r) \/ LinkRegister(r)
    PROVE  Respects(r, d)
  <1>. DEFINE q == req[r]
  <1>0. q \in Request /\ Shape(q) /\ (WorksOn(q, d) => Stage(q, emulators[d], ActiveOn(d), d))
    BY DEF ReqTypeOK, StageOK
  <1>1. CASE LinkCheck(r)
    <2>1. emulators'[d] = emulators[d] /\ ActiveOn(d)' = ActiveOn(d)
      BY <1>1, ActiveKept DEF LinkCheck, tables
    <2>2. CASE emulators[q.dev] = "REGISTERED"
      <3>1. req'[r] = Idle
        BY <1>1, <2>2 DEF LinkCheck, Goto, ReqTypeOK
      <3>2. WorksOn(q, d) => Settled(emulators[d], ActiveOn(d))
        BY <1>0, <1>1 DEF LinkCheck, Stage
      <3>. QED
        BY <2>1, <3>1, <3>2 DEF Respects, Local, WorksOn, Idle
    <2>3. CASE emulators[q.dev] # "REGISTERED"
      <3>. DEFINE p == [q EXCEPT !.pc = "linkInsert"]
      <3>1. req'[r] = p
        BY <1>1, <2>3 DEF LinkCheck, Goto, ReqTypeOK
      <3>2. /\ p \in Request /\ p.pc = "linkInsert" /\ p.dev = q.dev /\ p.todo = q.todo
            /\ p.scope = q.scope /\ q.pc = "linkCheck"
        BY <1>0, <1>1 DEF LinkCheck, Request, Pc
      <3>3. d = q.dev => Settled(emulators[d], ActiveOn(d)) /\ WorksOn(q, d)
        BY <1>0, <3>2 DEF WorksOn, Stage
      <3>4. d = q.dev => Stage(p, emulators[d], ActiveOn(d), d)
        <4>. HIDE DEF p
        <4>. QED
          BY <1>0, <2>3, <3>2, <3>3 DEF Stage, Settled, Shape
      <3>. HIDE DEF p
      <3>. QED
        BY <1>0, <2>1, <3>1, <3>2, <3>4, SameDeviceRespects DEF Respects
    <2>. QED
      BY <2>2, <2>3
  <1>2. CASE LinkInsert(r)
    <2>1. PICK l \in FreshLinks(q.user, q.dev) :
             /\ userEmulators' = [userEmulators EXCEPT ![l] = "active"]
             /\ Goto(r, {[q EXCEPT !.pc = "linkRoot", !.link = l]})
      BY <1>2 DEF LinkInsert
    <2>. DEFINE p == [q EXCEPT !.pc = "linkRoot", !.link = l]
    <2>2. /\ q.pc = "linkInsert" /\ UNCHANGED emulators /\ emulators[q.dev] # "ABSENT"
          /\ req'[r] = p
      BY <1>2, <2>1 DEF LinkInsert, Goto, ReqTypeOK
    <2>3. /\ p \in Request /\ p.pc = "linkRoot" /\ p.dev = q.dev /\ p.todo = q.todo
          /\ p.scope = q.scope /\ p.link = l /\ p.user = q.user
      BY <1>0 DEF Request, Pc, FreshLinks
    <2>4. ActiveOn(d)' = IF d = q.dev THEN ActiveOn(d) \cup {l} ELSE ActiveOn(d)
      BY <2>1 DEF ActiveOn, FreshLinks, TablesTypeOK
    <2>5. d = q.dev => emulators[d] \in {"AVAILABLE", "ABSENT"} /\ ActiveOn(d) = {}
      BY <1>0, <2>2 DEF WorksOn, Stage
    <2>6. LinkUser[l] = q.user
      BY DEF FreshLinks
    <2>. HIDE DEF p
    <2>7. d = q.dev => Stage(p, emulators'[d], ActiveOn(d)', d)
      BY <1>0, <2>2, <2>3, <2>4, <2>5 DEF Stage, Shape
    <2>. QED
      BY <1>0, <2>2, <2>3, <2>4, <2>6, <2>7, SameDeviceRespects DEF Respects
  <1>3. CASE LinkInsertRefused(r)
    <2>1. /\ emulators'[d] = emulators[d] /\ ActiveOn(d)' = ActiveOn(d) /\ req'[r] = Idle
          /\ q.pc = "linkInsert"
      BY <1>3, ActiveKept DEF LinkInsertRefused, tables, Goto, ReqTypeOK
    <2>2. WorksOn(q, d) => Settled(emulators[d], ActiveOn(d))
      BY <1>0, <2>1 DEF WorksOn, Stage, Settled, Shape
    <2>. QED
      BY <2>1, <2>2 DEF Respects, Local, WorksOn, Idle
  <1>4. CASE LinkRoot(r)
    <2>1. PICK a \in RootsOf(q.user) :
            req' = [req EXCEPT ![r] = [q EXCEPT !.pc = "linkGrant", !.left = {a}]]
      BY <1>4 DEF LinkRoot, Goto
    <2>. DEFINE p == [q EXCEPT !.pc = "linkGrant", !.left = {a}]
    <2>2. /\ q.pc = "linkRoot" /\ emulators'[d] = emulators[d] /\ ActiveOn(d)' = ActiveOn(d)
          /\ req'[r] = p
      BY <1>4, <2>1, ActiveKept DEF LinkRoot, tables, ReqTypeOK
    <2>3. /\ p \in Request /\ p.pc = "linkGrant" /\ p.dev = q.dev /\ p.todo = q.todo
          /\ p.scope = q.scope /\ p.link = q.link
      BY <1>0, SchemaAssumption DEF Request, Pc, RootsOf
    <2>. HIDE DEF p
    <2>4. d = q.dev => Stage(p, emulators[d], ActiveOn(d), d)
      BY <1>0, <2>2, <2>3 DEF Stage, Shape, WorksOn
    <2>. QED
      BY <1>0, <2>2, <2>3, <2>4, SameDeviceRespects DEF Respects
  <1>5. CASE LinkGrant(r)
    <2>. DEFINE p == [q EXCEPT !.pc = "linkRegister", !.left = {}]
    <2>2. /\ q.pc = "linkGrant" /\ emulators'[d] = emulators[d] /\ ActiveOn(d)' = ActiveOn(d)
          /\ req'[r] = p
      BY <1>5, ActiveKept DEF LinkGrant, Goto, ReqTypeOK
    <2>3. /\ p \in Request /\ p.pc = "linkRegister" /\ p.dev = q.dev /\ p.todo = q.todo
          /\ p.scope = q.scope /\ p.link = q.link
      BY <1>0 DEF Request, Pc
    <2>. HIDE DEF p
    <2>4. d = q.dev => Stage(p, emulators[d], ActiveOn(d), d)
      BY <1>0, <2>2, <2>3 DEF Stage, Shape, WorksOn
    <2>. QED
      BY <1>0, <2>2, <2>3, <2>4, SameDeviceRespects DEF Respects
  <1>6. CASE LinkRegister(r)
    <2>1. PICK p \in NextDevice(q, "linkCheck") : req'[r] = p
      BY <1>6 DEF LinkRegister, Goto, ReqTypeOK
    <2>2. q.pc = "linkRegister" /\ SetState(q.dev, "REGISTERED")
      BY <1>6 DEF LinkRegister
    <2>3. d = q.dev => emulators[d] = "AVAILABLE" /\ ActiveOn(d) = {q.link} /\ q.link \in LinkId
      BY <1>0, <2>2 DEF WorksOn, Stage, Shape
    <2>4. d = q.dev => Settled(emulators'[d], ActiveOn(d)')
      BY <2>2, <2>3, SetStateOther DEF Settled
    <2>. QED
      BY <1>0, <2>1, <2>2, <2>4, SetStateOther, NextDeviceRespects DEF Respects
  <1>. QED
    BY <1>1, <1>2, <1>3, <1>4, <1>5, <1>6

LEMMA UnlinkRespects ==
    ASSUME ReqTypeOK, TablesTypeOK, NEW r \in Req, NEW d \in Device, StageOK(r, d),
           UnlinkFind(r) \/ UnlinkMark(r) \/ UnlinkRevoke(r) \/ UnlinkFree(r)
    PROVE  Respects(r, d)
  <1>. DEFINE q == req[r]
  <1>0. q \in Request /\ Shape(q) /\ (WorksOn(q, d) => Stage(q, emulators[d], ActiveOn(d), d))
    BY DEF ReqTypeOK, StageOK
  <1>1. CASE UnlinkFind(r)
    <2>1. emulators'[d] = emulators[d] /\ ActiveOn(d)' = ActiveOn(d) /\ q.pc = "unlinkFind"
      BY <1>1, ActiveKept DEF UnlinkFind, tables
    <2>2. d = q.dev => Settled(emulators[d], ActiveOn(d))
      BY <1>0, <2>1 DEF WorksOn, Stage
    <2>3. CASE ActiveLinksOf(q.user, q.dev) = {}
      <3>1. PICK p \in NextDevice(q, "unlinkFind") : req'[r] = p
        BY <1>1, <2>3 DEF UnlinkFind, Goto, ReqTypeOK
      <3>. QED
        BY <1>0, <2>1, <2>2, <3>1, NextDeviceRespects DEF Respects
    <2>4. CASE ActiveLinksOf(q.user, q.dev) # {}
      <3>1. PICK l \in ActiveLinksOf(q.user, q.dev) :
              req' = [req EXCEPT ![r] = [q EXCEPT !.pc = "unlinkMark", !.link = l]]
        BY <1>1, <2>4 DEF UnlinkFind, Goto
      <3>. DEFINE p == [q EXCEPT !.pc = "unlinkMark", !.link = l]
      <3>2. /\ p \in Request /\ p.pc = "unlinkMark" /\ p.dev = q.dev /\ p.todo = q.todo
            /\ p.scope = q.scope /\ p.link = l
        BY <1>0 DEF Request, Pc, ActiveLinksOf, LinksOf
      <3>3. d = q.dev => l \in ActiveOn(d)
        BY DEF ActiveLinksOf, LinksOf, ActiveOn
      <3>. HIDE DEF p
      <3>4. d = q.dev => Stage(p, emulators[d], ActiveOn(d), d)
        BY <1>0, <2>1, <2>2, <3>2, <3>3 DEF Stage, Settled, Shape
      <3>. QED
        BY <1>0, <2>1, <3>1, <3>2, <3>4, SameDeviceRespects DEF Respects, ReqTypeOK, p
    <2>. QED
      BY <2>3, <2>4
  <1>2. CASE UnlinkMark(r)
    <2>. DEFINE p == [q EXCEPT !.pc = "unlinkRevoke"]
    <2>1. q.pc = "unlinkMark" /\ UNCHANGED emulators /\ req'[r] = p
      BY <1>2 DEF UnlinkMark, Goto, ReqTypeOK
    <2>2. /\ p \in Request /\ p.pc = "unlinkRevoke" /\ p.dev = q.dev /\ p.todo = q.todo
          /\ p.scope = q.scope /\ p.link = q.link
      BY <1>0 DEF Request, Pc
    <2>3. ActiveOn(d)' = ActiveOn(d) \ {q.link}
      BY <1>2 DEF UnlinkMark, ActiveOn, TablesTypeOK, LinkExists
    <2>4. d # q.dev => ActiveOn(d)' = ActiveOn(d)
      BY <1>0, <2>1, <2>3 DEF Shape, ActiveOn
    <2>5. d = q.dev => emulators[d] = "REGISTERED" /\ ActiveOn(d) = {q.link}
      BY <1>0, <2>1 DEF WorksOn, Stage
    <2>. HIDE DEF p
    <2>6. d = q.dev => Stage(p, emulators'[d], ActiveOn(d)', d)
      BY <1>0, <2>1, <2>2, <2>3, <2>5 DEF Stage, Shape
    <2>. QED
      BY <1>0, <2>1, <2>2, <2>3, <2>4, <2>6, SameDeviceRespects DEF Respects
  <1>3. CASE UnlinkRevoke(r)
    <2>. DEFINE p == [q EXCEPT !.pc = "unlinkFree"]
    <2>1. /\ q.pc = "unlinkRevoke" /\ req'[r] = p
          /\ emulators'[d] = emulators[d] /\ ActiveOn(d)' = ActiveOn(d)
      BY <1>3, ActiveKept DEF UnlinkRevoke, Goto, ReqTypeOK
    <2>2. /\ p \in Request /\ p.pc = "unlinkFree" /\ p.dev = q.dev /\ p.todo = q.todo
          /\ p.scope = q.scope /\ p.link = q.link
      BY <1>0 DEF Request, Pc
    <2>. HIDE DEF p
    <2>3. d = q.dev => Stage(p, emulators[d], ActiveOn(d), d)
      BY <1>0, <2>1, <2>2 DEF Stage, Shape, WorksOn
    <2>. QED
      BY <1>0, <2>1, <2>2, <2>3, SameDeviceRespects DEF Respects
  <1>4. CASE UnlinkFree(r)
    <2>1. PICK p \in NextDevice(q, "unlinkFind") : req'[r] = p
      BY <1>4 DEF UnlinkFree, Goto, ReqTypeOK
    <2>2. q.pc = "unlinkFree" /\ SetState(q.dev, "AVAILABLE")
      BY <1>4 DEF UnlinkFree
    <2>3. d = q.dev => emulators[d] = "REGISTERED" /\ ActiveOn(d) = {}
      BY <1>0, <2>2 DEF WorksOn, Stage
    <2>4. d = q.dev => Settled(emulators'[d], ActiveOn(d)')
      BY <2>2, <2>3, SetStateOther DEF Settled
    <2>. QED
      BY <1>0, <2>1, <2>2, <2>4, SetStateOther, NextDeviceRespects DEF Respects
  <1>. QED
    BY <1>1, <1>2, <1>3, <1>4

\* The active links that deleting a user leaves on a device.
LEMMA DeleteUserActive ==
    ASSUME TablesTypeOK, NEW u, DeleteUser(u), NEW d
    PROVE  ActiveOn(d)' = {l \in ActiveOn(d) : LinkUser[l] # u}
  BY DEF DeleteUser, ActiveOn, TablesTypeOK, LinkExists

LEMMA RemoveRespects ==
    ASSUME ReqTypeOK, TablesTypeOK, NEW r \in Req, NEW d \in Device, StageOK(r, d),
           RemoveFree(r) \/ RemoveDelete(r)
    PROVE  Respects(r, d)
  <1>. DEFINE q == req[r]
  <1>0. q \in Request /\ Shape(q) /\ (WorksOn(q, d) => Stage(q, emulators[d], ActiveOn(d), d))
    BY DEF ReqTypeOK, StageOK
  <1>1. q.pc \in RemovePc /\ (WorksOn(q, d) <=> d \in q.scope) /\ q.todo \subseteq q.scope
    BY <1>0, ServiceAssumption DEF RemoveFree, RemoveDelete, WorksOn, Shape
  <1>2. ASSUME NEW D \in SUBSET q.todo, NEW pc \in {"removeDrain", q.pc}, NEW t, NEW B,
               req'[r] = Draining([q EXCEPT !.pc = pc], D), B \subseteq ActiveOn(d),
               d \in q.scope => t = (IF d \in D THEN "REGISTERED" ELSE "AVAILABLE"),
               d \in q.scope => B = IF pc = "removeDrain" THEN {} ELSE ActiveOn(d),
               d \notin q.scope => t = emulators[d] /\ B = ActiveOn(d)
        PROVE  Local(q, req'[r], emulators[d], ActiveOn(d), t, B, d)
    <2>1. CASE D = {} /\ pc = "removeDrain"
      <3>1. req'[r] = Idle
        BY <1>0, <1>2, <2>1 DEF Draining, Request
      <3>. QED
        BY <1>1, <1>2, <2>1, <3>1 DEF Local, Settled, WorksOn, Idle
    <2>2. CASE ~(D = {} /\ pc = "removeDrain")
      <3>. DEFINE p == req'[r]
      <3>1. /\ p.pc = pc /\ p.todo = D /\ p.scope = q.scope /\ p.user = q.user
            /\ p.dev = q.dev
        BY <1>0, <1>2, <2>2 DEF Draining, Request
      <3>. HIDE DEF p
      <3>2. WorksOn(p, d) <=> d \in q.scope
        BY <1>0, <1>1, <1>2, <3>1, ServiceAssumption DEF WorksOn, Shape
      <3>3. d \in q.scope => Stage(p, t, B, d)
        BY <1>0, <1>1, <1>2, <3>1 DEF Stage
      <3>4. p.pc = "removeDelete" /\ d \notin p.scope => \A l \in B : LinkUser[l] # p.user
        BY <1>1, <1>2, <3>1 DEF StageOK
      <3>5. Local(q, p, emulators[d], ActiveOn(d), t, B, d)
        BY <1>1, <1>2, <3>2, <3>3, <3>4 DEF Local
      <3>. QED
        BY <3>5 DEF p
    <2>. QED
      BY <2>1, <2>2
  <1>3. d \in q.scope =>
          emulators[d] = (IF d \in q.todo THEN "REGISTERED" ELSE "AVAILABLE")
    BY <1>0, <1>1 DEF Stage
  <1>4. CASE RemoveFree(r)
    <2>1. PICK c \in q.todo : SetState(c, "AVAILABLE") /\ req'[r] = Draining(q, q.todo \ {c})
      BY <1>4 DEF RemoveFree, Goto, ReqTypeOK
    <2>2. [q EXCEPT !.pc = q.pc] = q
      BY <1>0 DEF Request
    <2>3. d \in q.scope /\ q.pc = "removeDrain" => ActiveOn(d) = {}
      BY <1>0, <1>1 DEF Stage
    <2>4. ActiveOn(d)' = ActiveOn(d)
      BY <2>1, SetStateOther
    <2>5. /\ d \in q.scope => emulators'[d] = (IF d \in q.todo \ {c} THEN "REGISTERED" ELSE "AVAILABLE")
          /\ d \notin q.scope => emulators'[d] = emulators[d]
      BY <1>1, <1>3, <2>1, SetStateOther
    <2>. QED
      BY <1>2, <2>1, <2>2, <2>3, <2>4, <2>5 DEF Respects
  <1>5. CASE RemoveDelete(r)
    <2>. DEFINE p == [q EXCEPT !.pc = "removeDrain"]
    <2>1. /\ q.pc = "removeDelete" /\ req'[r] = Draining(p, q.todo) /\ p.user = q.user
          /\ DeleteUser(q.user)
      BY <1>0, <1>5 DEF RemoveDelete, Goto, ReqTypeOK, Request
    <2>2. emulators'[d] = emulators[d]
      BY <2>1 DEF DeleteUser
    <2>3. ActiveOn(d)' = {l \in ActiveOn(d) : LinkUser[l] # q.user}
      BY <2>1, DeleteUserActive
    <2>4. d \notin q.scope => ActiveOn(d)' = ActiveOn(d)
      BY <2>1, <2>3 DEF StageOK
    <2>5. d \in q.scope => ActiveOn(d)' = {}
      BY <1>0, <1>1, <2>1, <2>3 DEF Stage
    <2>. QED
      BY <1>2, <1>3, <2>1, <2>2, <2>3, <2>4, <2>5 DEF Respects
  <1>. QED
    BY <1>4, <1>5

LEMMA GrantRespects ==
    ASSUME ReqTypeOK, TablesTypeOK, NEW r \in Req, NEW d \in Device, StageOK(r, d),
           \/ AssignFind(r) \/ AssignApply(r) \/ UnassignFind(r) \/ UnassignApply(r)
           \/ ExtendWrite(r)
    PROVE  Respects(r, d)
  <1>. DEFINE q == req[r]
              p == req'[r]
  <1>0. q \in Request /\ Shape(q)
    BY DEF ReqTypeOK
  <1>1. emulators'[d] = emulators[d] /\ ActiveOn(d)' = ActiveOn(d)
    BY ActiveKept DEF AssignFind, AssignApply, UnassignFind, UnassignApply, ExtendWrite, FindLink, tables
  <1>2. ~WorksOn(q, d)
    BY DEF AssignFind, AssignApply, UnassignFind, UnassignApply, ExtendWrite, FindLink, WorksOn
  <1>3. p.pc \in GrantPc \cup {"idle"}
    <2>1. ASSUME NEW first \in GrantPc, NEW x \in NextDevice(q, first)
          PROVE  x.pc \in GrantPc \cup {"idle"}
      BY <1>0, <2>1, NextDeviceFields DEF Idle
    <2>2. ASSUME NEW find \in GrantPc, NEW apply \in GrantPc, FindLink(r, find, apply)
          PROVE  p.pc \in GrantPc \cup {"idle"}
      <3>1. CASE LinksOf(q.user, q.dev) = {}
        BY <2>1, <2>2, <3>1 DEF FindLink, Goto, ReqTypeOK
      <3>2. CASE LinksOf(q.user, q.dev) # {}
        <4>1. PICK l \in LinksOf(q.user, q.dev) :
                req' = [req EXCEPT ![r] = [q EXCEPT !.pc = apply, !.link = l, !.left = q.accts]]
          BY <2>2, <3>2 DEF FindLink, Goto
        <4>. QED
          BY <1>0, <4>1 DEF ReqTypeOK, Request
      <3>. QED
        BY <3>1, <3>2
    <2>3. ASSUME q.pc \in GrantPc, NEW a, NEW find \in GrantPc, Goto(r, NextAccount(q, a, find))
          PROVE  p.pc \in GrantPc \cup {"idle"}
      <3>1. PICK x \in NextAccount(q, a, find) : p = x
        BY <2>3 DEF Goto, ReqTypeOK
      <3>. QED
        BY <1>0, <2>1, <2>3, <3>1 DEF NextAccount, Request
    <2>4. CASE ExtendWrite(r)
      BY <2>4 DEF ExtendWrite, Goto, Idle, ReqTypeOK
    <2>. QED
      BY <2>2, <2>3, <2>4 DEF AssignFind, AssignApply, UnassignFind, UnassignApply
  <1>. QED
    BY <1>1, <1>2, <1>3 DEF Respects, Local, WorksOn

\* On an undisturbed device the save of a screenshot finds the row unchanged.
LEMMA ShotRespects ==
    ASSUME ReqTypeOK, TablesTypeOK, NEW r \in Req, NEW d \in Device, StageOK(r, d),
           ShotLoad(r) \/ ShotWrite(r) \/ ShotInsert(r)
    PROVE  Respects(r, d)
  <1>. DEFINE q == req[r]
              p == req'[r]
  <1>0. /\ q \in Request /\ Shape(q) /\ q.pc \in ShotPc
        /\ WorksOn(q, d) => Stage(q, emulators[d], ActiveOn(d), d)
    BY DEF ReqTypeOK, StageOK, ShotLoad, ShotWrite, ShotInsert
  <1>1. WorksOn(q, d) <=> d = q.dev
    BY <1>0 DEF WorksOn, Shape
  <1>2. ActiveOn(d)' = ActiveOn(d)
    BY ActiveKept DEF ShotLoad, ShotWrite, ShotInsert, SetState, tables
  <1>3. d # q.dev => emulators'[d] = emulators[d]
    BY DEF ShotLoad, ShotWrite, ShotInsert, SetState, tables, TablesTypeOK
  <1>4. d = q.dev => /\ q.pc = "shotLoad" /\ emulators[d] = q.seen
                     /\ Settled(emulators[d], ActiveOn(d))
    BY <1>0, <1>1 DEF Stage
  <1>5. d = q.dev => p = Idle /\ emulators'[d] = emulators[d]
    BY <1>4 DEF ShotLoad, ShotWrite, ShotInsert, Goto, tables, ReqTypeOK
  <1>6. p = Idle \/ (p.pc \in ShotPc /\ p.dev = q.dev /\ p.todo = {} /\ p.scope = {})
    <2>1. CASE ShotLoad(r)
      <3>1. \/ p = Idle
            \/ \E next \in {"shotInsert", "shotWrite"} : p = [q EXCEPT !.pc = next]
        BY <2>1 DEF ShotLoad, Goto, ReqTypeOK
      <3>. QED
        BY <1>0, <3>1 DEF Request, Shape
    <2>2. CASE ShotWrite(r) \/ ShotInsert(r)
      BY <2>2 DEF ShotWrite, ShotInsert, Goto, ReqTypeOK
    <2>. QED
      BY <2>1, <2>2
  <1>7. ~WorksOn(p, d) /\ p.pc # "removeDelete"
    BY <1>5, <1>6 DEF WorksOn, Idle
  <1>. QED
    BY <1>1, <1>2, <1>3, <1>4, <1>5, <1>7 DEF Respects, Local

\* A request that breaks off leaves every device settled but the half-done.
LEMMA StopRespects ==
    ASSUME ReqTypeOK, TablesTypeOK, NEW r \in Req, NEW d \in Device, StageOK(r, d),
           LinkBreaks(r) \/ QueryFails(r), d \notin HalfDone(req[r])
    PROVE  Respects(r, d)
  <1>. DEFINE q == req[r]
  <1>0. q \in Request /\ Shape(q) /\ (WorksOn(q, d) => Stage(q, emulators[d], ActiveOn(d), d))
    BY DEF ReqTypeOK, StageOK
  <1>1. req'[r] = Idle /\ emulators'[d] = emulators[d] /\ ActiveOn(d)' = ActiveOn(d)
    BY ActiveKept DEF LinkBreaks, QueryFails, Goto, tables, ReqTypeOK
  <1>2. ASSUME WorksOn(q, d)
        PROVE  Settled(emulators[d], ActiveOn(d))
    <2>1. CASE q.pc \in LinkPc \cup UnlinkPc /\ d \in q.todo
      BY <1>0, <1>2, <2>1 DEF Stage
    <2>2. CASE q.pc \in LinkPc \cup UnlinkPc /\ d = q.dev
      BY <1>0, <1>2, <2>2 DEF Stage, HalfDone, Settled, Shape
    <2>3. CASE q.pc \in RemovePc
      BY <1>0, <1>2, <2>3, ServiceAssumption DEF Stage, HalfDone, Settled, Shape, WorksOn
    <2>4. CASE q.pc \in ShotPc
      BY <1>0, <1>2, <2>4 DEF Stage, WorksOn
    <2>. QED
      BY <1>0, <1>2, <2>1, <2>2, <2>3, <2>4 DEF WorksOn, Shape
  <1>. QED
    BY <1>1, <1>2 DEF Respects, Local, WorksOn, Idle

LEMMA ForgetRespects ==
    ASSUME ReqTypeOK, TablesTypeOK, NEW r \in Req, NEW d \in Device, StageOK(r, d),
           RemoveDeleteFails(r), d \notin req[r].scope
    PROVE  Respects(r, d)
  <1>. DEFINE q == req[r]
              p == req'[r]
  <1>0. q \in Request /\ Shape(q) /\ q.pc = "removeDelete"
    BY DEF ReqTypeOK, RemoveDeleteFails
  <1>1. emulators'[d] = emulators[d] /\ ActiveOn(d)' = ActiveOn(d)
    BY ActiveKept DEF RemoveDeleteFails, tables
  <1>2. \/ p = Idle
        \/ p.pc = "removeDrain" /\ p.scope = q.scope /\ p.dev = q.dev /\ p.todo = q.todo
    <2>1. p = Draining([q EXCEPT !.pc = "removeDrain"], [q EXCEPT !.pc = "removeDrain"].todo)
      BY DEF RemoveDeleteFails, Goto, ReqTypeOK
    <2>. QED
      BY <1>0, <2>1 DEF Draining, Request
  <1>3. ~WorksOn(q, d) /\ ~WorksOn(p, d) /\ p.pc # "removeDelete"
    BY <1>0, <1>2, ServiceAssumption DEF WorksOn, Shape, Idle
  <1>. QED
    BY <1>1, <1>3 DEF Respects, Local

-----------------------------------------------------------------------------
(* The lease invariant.                                                      *)

\* A step of a request changes no other's record.
LEMMA GotoOne ==
    ASSUME NEW r \in Req, Runs(r) \/ Stops(r) \/ Forgets(r)
    PROVE  \E q : req' = [req EXCEPT ![r] = q]
  <1>. USE DEF Goto
  <1>1. CASE Receives(r)
    BY <1>1 DEF Receives, LinkBegin, UnlinkBegin, RemoveBegin, AssignBegin, UnassignBegin,
         ExtendBegin, ShotBegin, Receive
  <1>2. CASE \/ LinkCheck(r) \/ LinkInsert(r) \/ LinkInsertRefused(r)
             \/ LinkRoot(r) \/ LinkGrant(r) \/ LinkRegister(r)
    BY <1>2 DEF LinkCheck, LinkInsert, LinkInsertRefused, LinkRoot, LinkGrant, LinkRegister
  <1>3. CASE UnlinkFind(r) \/ UnlinkMark(r) \/ UnlinkRevoke(r) \/ UnlinkFree(r)
    BY <1>3 DEF UnlinkFind, UnlinkMark, UnlinkRevoke, UnlinkFree
  <1>4. CASE RemoveFree(r) \/ RemoveDelete(r) \/ RemoveDeleteFails(r)
    BY <1>4 DEF RemoveFree, RemoveDelete, RemoveDeleteFails
  <1>5. CASE \/ AssignFind(r) \/ AssignApply(r) \/ UnassignFind(r) \/ UnassignApply(r)
             \/ ExtendWrite(r)
    BY <1>5 DEF AssignFind, AssignApply, UnassignFind, UnassignApply, ExtendWrite, FindLink
  <1>6. CASE LinkBreaks(r) \/ QueryFails(r)
    BY <1>6 DEF LinkBreaks, QueryFails
  <1>7. CASE ShotLoad(r) \/ ShotWrite(r) \/ ShotInsert(r)
    BY <1>7 DEF ShotLoad, ShotWrite, ShotInsert
  <1>. QED
    BY <1>1, <1>2, <1>3, <1>4, <1>5, <1>6, <1>7 DEF Runs, Stops, Forgets, Serves

\* No step but the lookup of an extension leads to the write of one.
LEMMA NeverExtends ==
    ASSUME ReqTypeOK, NEW r \in Req, Runs(r) \/ Stops(r) \/ Forgets(r), ~ExtendBegin(r)
    PROVE  req'[r].pc # "extendWrite"
  <1>. DEFINE q == req[r]
  <1>0. q \in Request
    BY DEF ReqTypeOK
  <1>1. ASSUME NEW op, NEW u, NEW D, NEW A, NEW first \in Pc \ {"extendWrite"},
               Receive(r, op, u, D, A, first)
        PROVE  req'[r].pc # "extendWrite"
    BY <1>1, ReceivePc
  <1>2. ASSUME NEW first \in Pc \ {"extendWrite"}, NEW p \in NextDevice(q, first)
        PROVE  p.pc # "extendWrite"
    BY <1>0, <1>2, NextDeviceFields DEF Idle
  <1>3. CASE Receives(r)
    <2>1. CASE LinkBegin(r) \/ UnlinkBegin(r) \/ AssignBegin(r) \/ UnassignBegin(r)
      BY <1>1, <2>1 DEF LinkBegin, UnlinkBegin, AssignBegin, UnassignBegin, Pc
    <2>2. CASE RemoveBegin(r) \/ ShotBegin(r)
      BY <2>2 DEF RemoveBegin, ShotBegin, Goto, ReqTypeOK, Idle
    <2>. QED
      BY <1>3, <2>1, <2>2 DEF Receives
  <1>4. CASE \/ LinkCheck(r) \/ LinkInsert(r) \/ LinkInsertRefused(r)
             \/ LinkRoot(r) \/ LinkGrant(r)
    <2>1. CASE LinkCheck(r)
      BY <1>0, <2>1 DEF LinkCheck, Goto, ReqTypeOK, Request, Idle
    <2>2. CASE LinkInsert(r)
      <3>1. PICK l : req'[r] = [q EXCEPT !.pc = "linkRoot", !.link = l]
        BY <2>2 DEF LinkInsert, Goto, ReqTypeOK
      <3>. QED
        BY <1>0, <3>1 DEF Request
    <2>3. CASE LinkInsertRefused(r)
      BY <2>3 DEF LinkInsertRefused, Goto, ReqTypeOK, Idle
    <2>4. CASE LinkRoot(r)
      <3>1. PICK a : req'[r] = [q EXCEPT !.pc = "linkGrant", !.left = {a}]
        BY <2>4 DEF LinkRoot, Goto, ReqTypeOK
      <3>. QED
        BY <1>0, <3>1 DEF Request
    <2>5. CASE LinkGrant(r)
      <3>1. req'[r] = [q EXCEPT !.pc = "linkRegister", !.left = {}]
        BY <2>5 DEF LinkGrant, Goto, ReqTypeOK
      <3>. QED
        BY <1>0, <3>1 DEF Request
    <2>. QED
      BY <1>4, <2>1, <2>2, <2>3, <2>4, <2>5
  <1>5. CASE LinkRegister(r) \/ UnlinkFree(r)
    BY <1>2, <1>5 DEF LinkRegister, UnlinkFree, Goto, ReqTypeOK, Pc
  <1>6. CASE UnlinkFind(r)
    <2>1. \/ req'[r] \in NextDevice(q, "unlinkFind")
          \/ \E l : req'[r] = [q EXCEPT !.pc = "unlinkMark", !.link = l]
      BY <1>6 DEF UnlinkFind, Goto, ReqTypeOK
    <2>. QED
      BY <1>0, <1>2, <2>1 DEF Pc, Request
  <1>7. CASE UnlinkMark(r) \/ UnlinkRevoke(r)
    BY <1>0, <1>7 DEF UnlinkMark, UnlinkRevoke, Goto, ReqTypeOK, Request
  <1>8. CASE RemoveFree(r) \/ RemoveDelete(r) \/ RemoveDeleteFails(r)
    <2>1. ASSUME NEW x \in Request, x.pc # "extendWrite", NEW D
          PROVE  Draining(x, D).pc # "extendWrite"
      BY <2>1 DEF Draining, Idle, Request
    <2>2. [q EXCEPT !.pc = "removeDrain"] \in Request
          /\ [q EXCEPT !.pc = "removeDrain"].pc # "extendWrite"
      BY <1>0 DEF Request, Pc
    <2>3. CASE RemoveFree(r)
      <3>1. PICK D : req'[r] = Draining(q, D)
        BY <2>3 DEF RemoveFree, Goto, ReqTypeOK
      <3>2. q.pc # "extendWrite"
        BY <2>3 DEF RemoveFree
      <3>. QED
        BY <1>0, <2>1, <3>1, <3>2
    <2>4. CASE RemoveDelete(r) \/ RemoveDeleteFails(r)
      <3>1. \E D : req'[r] = Draining([q EXCEPT !.pc = "removeDrain"], D)
        BY <2>4 DEF RemoveDelete, RemoveDeleteFails, Goto, ReqTypeOK
      <3>. QED
        BY <2>1, <2>2, <3>1
    <2>. QED
      BY <1>8, <2>3, <2>4
  <1>9. ASSUME NEW find \in GrantPc, NEW apply \in GrantPc, FindLink(r, find, apply)
        PROVE  req'[r].pc # "extendWrite"
    <2>1. \/ req'[r] \in NextDevice(q, find)
          \/ \E l : req'[r] = [q EXCEPT !.pc = apply, !.link = l, !.left = q.accts]
      BY <1>9 DEF FindLink, Goto, ReqTypeOK
    <2>. QED
      BY <1>0, <1>2, <2>1 DEF Pc, Request
  <1>10. ASSUME q.pc \in GrantPc, NEW a, NEW find \in GrantPc, Goto(r, NextAccount(q, a, find))
         PROVE  req'[r].pc # "extendWrite"
    <2>1. \/ req'[r] \in NextDevice(q, find)
          \/ req'[r] = [q EXCEPT !.left = @ \ {a}]
      BY <1>10 DEF NextAccount, Goto, ReqTypeOK
    <2>. QED
      BY <1>0, <1>2, <1>10, <2>1 DEF Pc, Request
  <1>11. CASE AssignFind(r) \/ AssignApply(r) \/ UnassignFind(r) \/ UnassignApply(r)
    BY <1>9, <1>10, <1>11 DEF AssignFind, AssignApply, UnassignFind, UnassignApply
  <1>12. CASE \/ ExtendWrite(r) \/ ShotLoad(r) \/ ShotWrite(r) \/ ShotInsert(r)
              \/ LinkBreaks(r) \/ QueryFails(r)
    BY <1>0, <1>12 DEF ExtendWrite, ShotLoad, ShotWrite, ShotInsert, LinkBreaks, QueryFails, Goto,
       ReqTypeOK, Request, Idle
  <1>. QED
    BY <1>3, <1>4, <1>5, <1>6, <1>7, <1>8, <1>11, <1>12 DEF Runs, Stops, Forgets, Serves

\* While one request writes an expiry, no other begins.
LEMMA BeginsAlone ==
    ASSUME ReqTypeOK, NEW s \in Req, NEW r \in Req, s # r, ExtendWrite(s)
    PROVE  ~ExtendBegin(r)
  <1>1. req'[r] = req[r]
    BY DEF ExtendWrite, Goto, ReqTypeOK
  <1>. SUFFICES ASSUME ExtendBegin(r)
                PROVE  FALSE
    OBVIOUS
  <1>2. PICK u \in User, d \in Device : \E l \in LinksOf(u, d) :
          Goto(r, {[Idle EXCEPT !.pc = "extendWrite", !.user = u, !.dev = d, !.link = l,
                                !.base = expiresAt[l]]})
    BY DEF ExtendBegin
  <1>3. PICK l \in LinksOf(u, d) :
          req'[r] = [Idle EXCEPT !.pc = "extendWrite", !.user = u, !.dev = d, !.link = l,
                                 !.base = expiresAt[l]]
    BY <1>2 DEF Goto, ReqTypeOK
  <1>4. req'[r].pc = "extendWrite" /\ req[r].pc = "idle"
    BY <1>3 DEF ExtendBegin, Idle
  <1>. QED
    BY <1>1, <1>4

LEMMA RequestStep ==
    ASSUME ReqTypeOK, TypeOK, LeaseInv, NEW r \in Req, ReqTypeOK',
           Runs(r) \/ Stops(r) \/ Forgets(r), NEW d \in Device \ disturbed'
    PROVE  DeviceInv(req, emulators[d], ActiveOn(d), d)' /\ Respects(r, d) /\ StageOK(r, d)
           /\ d \notin disturbed
  <1>0. TablesTypeOK
    BY DEF TypeOK
  <1>1. d \notin disturbed /\ ~Contended(req', d)
        /\ (Stops(r) => d \notin HalfDone(req[r])) /\ (Forgets(r) => d \notin req[r].scope)
    BY DEF Runs, Stops, Forgets, Track
  <1>2. DeviceInv(req, emulators[d], ActiveOn(d), d)
    BY <1>1 DEF LeaseInv
  <1>3. StageOK(r, d)
    BY <1>2 DEF DeviceInv, StageOK
  <1>4. Respects(r, d)
    BY <1>0, <1>1, <1>2, <1>3, ReceivesRespects, LinkRespects, UnlinkRespects, RemoveRespects,
       GrantRespects, ShotRespects, StopRespects, ForgetRespects DEF Runs, Stops, Forgets, Serves
  <1>5. \E q : req' = [req EXCEPT ![r] = q]
    BY GotoOne
  <1>6. req \in [Req -> Request] /\ req'[r] \in Request /\ req' = [req EXCEPT ![r] = req'[r]]
    BY <1>5 DEF ReqTypeOK
  <1>7. DeviceInv(req', emulators'[d], ActiveOn(d)', d)
    BY <1>1, <1>2, <1>4, <1>6, DeviceStep DEF Respects
  <1>8. DeviceInv(req, emulators[d], ActiveOn(d), d)' <=>
        DeviceInv(req', emulators'[d], ActiveOn(d)', d)
    BY DEF DeviceInv, Contended, Overlap, WorksOn, Stage, Settled
  <1>. QED
    BY <1>1, <1>3, <1>4, <1>7, <1>8

\* Steps of the directory change neither requests nor links, and no state but
\* of a device that is not there yet.
LEMMA DirectoryStep ==
    ASSUME ReqTypeOK, TypeOK, LeaseInv, Directory, Track({}), NEW d \in Device \ disturbed'
    PROVE  /\ DeviceInv(req', emulators'[d], ActiveOn(d)', d)
           /\ ActiveOn(d)' = ActiveOn(d)
  <1>1. UNCHANGED req /\ d \notin disturbed
    BY DEF Directory, InsertUser, InsertAccount, RemoveAccount, CreateEmulator, Track
  <1>2. ActiveOn(d)' = ActiveOn(d)
    BY DEF Directory, InsertUser, InsertAccount, RemoveAccount, DeleteAccount, CreateEmulator,
           ActiveOn
  <1>3. \/ emulators'[d] = emulators[d]
        \/ emulators[d] = "ABSENT" /\ emulators'[d] = "AVAILABLE"
    BY DEF Directory, InsertUser, InsertAccount, RemoveAccount, DeleteAccount, CreateEmulator,
           TypeOK, TablesTypeOK
  <1>4. DeviceInv(req, emulators[d], ActiveOn(d), d)
    BY <1>1 DEF LeaseInv
  <1>5. ASSUME NEW r \in Req, Stage(req[r], emulators[d], ActiveOn(d), d), emulators[d] = "ABSENT"
        PROVE  Stage(req[r], "AVAILABLE", ActiveOn(d), d)
    BY <1>5 DEF Stage, Settled, ReqTypeOK, Shape
  <1>. QED
    BY <1>1, <1>2, <1>3, <1>4, <1>5 DEF DeviceInv, Settled

LEMMA PullStep ==
    ASSUME TypeOK, LeaseInv, NEW c \in Device, Pulls(c), NEW d \in Device \ disturbed'
    PROVE  /\ DeviceInv(req', emulators'[d], ActiveOn(d)', d)
           /\ ActiveOn(d)' = ActiveOn(d) \/ ActiveOn(d)' = {}
           /\ emulators'[d] = emulators[d] \/ emulators'[d] = "ABSENT"
  <1>1. UNCHANGED req /\ d \notin disturbed /\ (d = c => ~Busy(d))
    BY DEF Pulls, RemoveEmulator, Track
  <1>2. DeviceInv(req, emulators[d], ActiveOn(d), d)
    BY <1>1 DEF LeaseInv
  <1>3. CASE d = c
    <2>1. ActiveOn(d)' = {} /\ emulators'[d] = "ABSENT"
      BY <1>3 DEF Pulls, RemoveEmulator, DeleteEmulator, DeleteLinks, ActiveOn, LinkExists,
           TypeOK, TablesTypeOK
    <2>. QED
      BY <1>1, <1>2, <1>3, <2>1 DEF DeviceInv, Busy, Settled
  <1>4. CASE d # c
    <2>1. ActiveOn(d)' = ActiveOn(d) /\ emulators'[d] = emulators[d]
      BY <1>4 DEF Pulls, RemoveEmulator, DeleteEmulator, DeleteLinks, ActiveOn, LinkExists,
           TypeOK, TablesTypeOK
    <2>. QED
      BY <1>1, <1>2, <2>1
  <1>. QED
    BY <1>3, <1>4

LEMMA LeaseStep ==
    ASSUME ReqTypeOK, TypeOK, LeaseInv, [AuditNext]_auditVars
    PROVE  LeaseInv'
  <1>0. ReqTypeOK'
    BY TypeStep
  <1>. SUFFICES ASSUME NEW d \in Device \ disturbed'
                PROVE  DeviceInv(req', emulators'[d], ActiveOn(d)', d)
    BY DEF LeaseInv, DeviceInv, Contended, Overlap, WorksOn, Stage, Settled
  <1>1. ASSUME NEW r \in Req, Runs(r) \/ Stops(r) \/ Forgets(r)
        PROVE  DeviceInv(req', emulators'[d], ActiveOn(d)', d)
    BY <1>0, <1>1, RequestStep
  <1>2. CASE Directory /\ Track({})
    BY <1>2, DirectoryStep
  <1>3. ASSUME NEW c \in Device, Pulls(c)
        PROVE  DeviceInv(req', emulators'[d], ActiveOn(d)', d)
    BY <1>3, PullStep
  <1>4. CASE UNCHANGED auditVars
    BY <1>4 DEF auditVars, vars, tables, LeaseInv, ActiveOn
  <1>. QED
    BY <1>1, <1>2, <1>3, <1>4 DEF AuditNext

LEMMA LeaseInit == AuditInit => LeaseInv
  <1>. SUFFICES ASSUME AuditInit, NEW d \in Device
                PROVE  DeviceInv(req, emulators[d], ActiveOn(d), d)
    BY DEF LeaseInv
  <1>1. emulators[d] = "ABSENT" /\ ActiveOn(d) = {} /\ \A r \in Req : req[r].pc = "idle"
    BY DEF AuditInit, Init, ActiveOn, Idle
  <1>. QED
    BY <1>1 DEF DeviceInv, Contended, Overlap, WorksOn, Settled

-----------------------------------------------------------------------------
(* Extensions.                                                               *)

\* A link's key is used once: no step brings a deleted link back.
LEMMA LinkGone ==
    ASSUME ReqTypeOK, TypeOK, [AuditNext]_auditVars, NEW l \in LinkId, userEmulators[l] # "new"
    PROVE  userEmulators'[l] # "new" /\ (LinkExists(l)' => LinkExists(l))
  <1>0. TablesTypeOK /\ userEmulators[l] \in LinkLife
    BY DEF TypeOK, TablesTypeOK
  <1>1. CASE UNCHANGED userEmulators
    BY <1>1 DEF LinkExists
  <1>2. ASSUME NEW r \in Req, Serves(r)
        PROVE  userEmulators'[l] # "new" /\ (LinkExists(l)' => LinkExists(l))
    <2>1. CASE LinkInsert(r)
      BY <1>0, <2>1 DEF LinkInsert, FreshLinks, TablesTypeOK, LinkExists
    <2>2. CASE UnlinkMark(r)
      BY <1>0, <2>2 DEF UnlinkMark, TablesTypeOK, LinkExists
    <2>3. CASE RemoveDelete(r)
      BY <1>0, <2>3 DEF RemoveDelete, DeleteUser, TablesTypeOK, LinkExists
    <2>4. CASE ~(LinkInsert(r) \/ UnlinkMark(r) \/ RemoveDelete(r))
      <3>1. UNCHANGED userEmulators
        BY <1>2, <2>4 DEF Serves, LinkCheck, LinkInsertRefused, LinkRoot, LinkGrant, LinkRegister,
           UnlinkFind, UnlinkRevoke, UnlinkFree, RemoveFree, SetState, AssignFind, AssignApply,
           UnassignFind, UnassignApply, ExtendWrite, FindLink, ShotLoad, ShotWrite, ShotInsert,
           tables
      <3>. QED
        BY <1>1, <3>1
    <2>. QED
      BY <2>1, <2>2, <2>3, <2>4
  <1>3. ASSUME NEW r \in Req, Receives(r) \/ Breaks(r)
        PROVE  UNCHANGED userEmulators
    BY <1>0, <1>3, ReceivesType DEF Breaks, LinkBreaks, QueryFails, RemoveDeleteFails, tables
  <1>4. CASE Directory
    BY <1>1, <1>4 DEF Directory, InsertUser, InsertAccount, RemoveAccount, DeleteAccount,
       CreateEmulator
  <1>5. ASSUME NEW d \in Device, RemoveEmulator(d)
        PROVE  userEmulators'[l] # "new" /\ (LinkExists(l)' => LinkExists(l))
    BY <1>0, <1>5 DEF RemoveEmulator, DeleteEmulator, DeleteLinks, TablesTypeOK, LinkExists
  <1>. QED
    BY <1>1, <1>2, <1>3, <1>4, <1>5 DEF AuditNext, auditVars, vars, tables, Runs, Stops, Forgets,
         Pulls, Breaks

\* Only an insert of a link and an extension write an expiry.
LEMMA ExpiryKept ==
    ASSUME TypeOK, ReqTypeOK, [AuditNext]_auditVars, NEW l \in LinkId, userEmulators[l] # "new",
           \A r \in Req : ~(ExtendWrite(r) /\ req[r].link = l)
    PROVE  expiresAt'[l] = expiresAt[l]
  <1>0. TablesTypeOK
    BY DEF TypeOK
  <1>1. ASSUME NEW r \in Req, Serves(r)
        PROVE  expiresAt'[l] = expiresAt[l]
    <2>1. CASE LinkInsert(r)
      BY <1>0, <2>1 DEF LinkInsert, FreshLinks, TablesTypeOK
    <2>2. CASE ExtendWrite(r)
      BY <1>0, <2>2 DEF ExtendWrite, TablesTypeOK
    <2>3. CASE ~(LinkInsert(r) \/ ExtendWrite(r))
      BY <1>1, <2>3 DEF Serves, LinkCheck, LinkInsertRefused, LinkRoot, LinkGrant, LinkRegister,
         UnlinkFind, UnlinkMark, UnlinkRevoke, UnlinkFree, RemoveFree, RemoveDelete, DeleteUser,
         SetState, AssignFind, AssignApply, UnassignFind, UnassignApply, FindLink, ShotLoad,
         ShotWrite, ShotInsert, tables
    <2>. QED
      BY <2>1, <2>2, <2>3
  <1>2. ASSUME NEW r \in Req, Receives(r) \/ Breaks(r)
        PROVE  UNCHANGED expiresAt
    BY <1>0, <1>2, ReceivesType DEF Breaks, LinkBreaks, QueryFails, RemoveDeleteFails, tables
  <1>3. CASE Directory \/ \E d \in Device : RemoveEmulator(d)
    BY <1>3 DEF Directory, InsertUser, InsertAccount, RemoveAccount, DeleteAccount,
       CreateEmulator, RemoveEmulator, DeleteEmulator
  <1>. QED
    BY <1>1, <1>2, <1>3 DEF AuditNext, auditVars, vars, tables, Runs, Stops, Forgets, Pulls, Breaks

\* A request that is about to write an expiry was so before, with the same
\* record, or has just read it.
LEMMA ExtendsBefore ==
    ASSUME ReqTypeOK, TablesTypeOK, [AuditNext]_auditVars, NEW r \in Req, NEW l \in LinkId,
           Extends(req'[r], l)
    PROVE  \/ req'[r] = req[r]
           \/ userEmulators[l] # "new" /\ req'[r].base = expiresAt[l] /\ ExtendBegin(r)
  <1>1. ASSUME NEW s \in Req, Runs(s) \/ Stops(s) \/ Forgets(s)
        PROVE  \/ req'[r] = req[r]
               \/ userEmulators[l] # "new" /\ req'[r].base = expiresAt[l] /\ ExtendBegin(r)
    <2>1. \E q : req' = [req EXCEPT ![s] = q]
      BY <1>1, GotoOne
    <2>2. CASE s # r
      BY <2>1, <2>2 DEF ReqTypeOK
    <2>3. CASE s = r /\ ExtendBegin(r)
      <3>1. PICK u \in User, d \in Device : \E m \in LinksOf(u, d) :
              Goto(r, {[Idle EXCEPT !.pc = "extendWrite", !.user = u, !.dev = d, !.link = m,
                                    !.base = expiresAt[m]]})
        BY <2>3 DEF ExtendBegin
      <3>2. PICK m \in LinksOf(u, d) :
              req'[r] = [Idle EXCEPT !.pc = "extendWrite", !.user = u, !.dev = d, !.link = m,
                                     !.base = expiresAt[m]]
        BY <3>1 DEF Goto, ReqTypeOK
      <3>3. m = l
        BY <3>2 DEF Extends, Idle
      <3>. QED
        BY <2>3, <3>2, <3>3 DEF LinksOf, LinkExists, Idle
    <2>4. CASE s = r /\ ~ExtendBegin(r)
      <3>1. req'[r].pc # "extendWrite"
        BY <1>1, <2>4, NeverExtends
      <3>. QED
        BY <3>1 DEF Extends
    <2>. QED
      BY <2>2, <2>3, <2>4
  <1>2. CASE Directory \/ \E d \in Device : RemoveEmulator(d)
    BY <1>2 DEF Directory, InsertUser, InsertAccount, RemoveAccount, CreateEmulator, RemoveEmulator
  <1>. QED
    BY <1>1, <1>2 DEF AuditNext, auditVars, vars, Pulls

LEMMA ExtendStep ==
    ASSUME ReqTypeOK, TypeOK, ExtendInv, RaceInv, [AuditNext]_auditVars
    PROVE  ExtendInv' /\ RaceInv'
  <1>0. TablesTypeOK /\ ReqTypeOK' /\ raced \subseteq raced'
    BY TypeStep DEF TypeOK, AuditNext, Runs, Stops, Forgets, Pulls, Track, auditVars
  <1>1. RaceInv'
    <2>1. CASE UNCHANGED auditVars
      BY <2>1 DEF RaceInv, auditVars, vars, Racing
    <2>2. CASE AuditNext
      BY <2>2 DEF AuditNext, Runs, Stops, Forgets, Pulls, Track, RaceInv, Racing
    <2>. QED
      BY <2>1, <2>2
  <1>2. ASSUME NEW r \in Req, NEW l \in LinkId, Extends(req'[r], l)
        PROVE  /\ userEmulators'[l] # "new"
               /\ LinkExists(l)' /\ l \notin raced' => req'[r].base = expiresAt'[l]
    <2>1. userEmulators[l] # "new"
      BY <1>0, <1>2, ExtendsBefore DEF ExtendInv
    <2>2. userEmulators'[l] # "new" /\ (LinkExists(l)' => LinkExists(l))
      BY <2>1, LinkGone
    <2>3. ASSUME LinkExists(l)', l \notin raced'
          PROVE  req'[r].base = expiresAt'[l]
      <3>1. req'[r].base = expiresAt[l]
        BY <1>0, <1>2, <2>2, <2>3, ExtendsBefore DEF ExtendInv
      <3>2. ASSUME NEW s \in Req, ExtendWrite(s), req[s].link = l
            PROVE  FALSE
        <4>1. Extends(req[s], l) /\ req'[s].pc = "idle"
          BY <1>0, <3>2 DEF ExtendWrite, Extends, Goto, Idle, ReqTypeOK
        <4>2. s # r
          BY <1>2, <4>1 DEF Extends
        <4>3. ~ExtendBegin(r)
          BY <3>2, <4>2, BeginsAlone
        <4>4. Extends(req[r], l)
          BY <1>0, <1>2, <4>3, ExtendsBefore
        <4>. QED
          BY <1>0, <2>3, <4>1, <4>2, <4>4 DEF RaceInv, Racing
      <3>. QED
        BY <2>1, <3>1, <3>2, ExpiryKept
    <2>. QED
      BY <2>2, <2>3
  <1>. QED
    BY <1>1, <1>2 DEF ExtendInv, Extends, LinkExists

\* The inductive invariant: types, shapes, grants, stages and expiries.
THEOREM Inductive == AuditSpec => []IInv
  <1>1. AuditInit => GrantsOwned /\ NamedInv /\ ExtendInv /\ RaceInv
    BY DEF AuditInit, Init, GrantsOwned, NamedInv, Naming, ExtendInv, RaceInv, Racing, Extends, Idle
  <1>2. AuditSpec => [](/\ ReqTypeOK /\ TypeOK /\ GrantsOwned /\ NamedInv
                        /\ LeaseInv /\ ExtendInv /\ RaceInv)
    BY <1>1, TypeInit, TypeStep, GrantsStep, NamedStep, LeaseInit, LeaseStep, ExtendStep, PTL
       DEF AuditSpec
  <1>3. ReqTypeOK /\ TypeOK /\ GrantsOwned /\ NamedInv /\ LeaseInv /\ ExtendInv /\ RaceInv => IInv
    BY DEF IInv, ReqTypeOK
  <1>. QED
    BY <1>2, <1>3, PTL

\* An extension that overlapped no other of its lease adds its days to what
\* the row holds when it is written.
THEOREM ExtensionsAdd == AuditSpec => ExtendAdds
  <1>1. IInv /\ [AuditNext]_auditVars =>
          [ \A r \in Req : LET l == req[r].link IN
              ExtendWrite(r) /\ LinkExists(l) /\ l \notin raced =>
                expiresAt'[l] = expiresAt[l] + ExtendDays ]_auditVars
    <2>. SUFFICES ASSUME IInv, NEW r \in Req, ExtendWrite(r), LinkExists(req[r].link),
                         req[r].link \notin raced
                  PROVE  expiresAt'[req[r].link] = expiresAt[req[r].link] + ExtendDays
      OBVIOUS
    <2>1. req[r].link \in LinkId /\ Extends(req[r], req[r].link)
      BY DEF IInv, Shape, ExtendWrite, Extends
    <2>2. req[r].base = expiresAt[req[r].link]
      BY <2>1 DEF IInv, ExtendInv
    <2>. QED
      BY <2>1, <2>2 DEF ExtendWrite, IInv, TypeOK, TablesTypeOK
  <1>. QED
    BY <1>1, Inductive, PTL DEF AuditSpec, ExtendAdds

\* A device no request works on, and that no overlap or half-done request has
\* touched, is either free and without a lease, or marked and leased once.
THEOREM LeasesConsistent == AuditSpec => []LeaseConsistent
  <1>1. IInv => LeaseConsistent
    BY DEF IInv, LeaseInv, DeviceInv, LeaseConsistent, Busy, Settled, Free, Held
  <1>. QED
    BY <1>1, Inductive, PTL

-----------------------------------------------------------------------------
(* What a step may do to the state of a device.                              *)

\* Only four queries of the handlers change the state of a device that exists.
LEMMA StateChanges ==
    ASSUME TablesTypeOK, NEW d \in Device, AuditNext, Freed(d) \/ Filled(d)
    PROVE  \E r \in Req :
             \/ LinkRegister(r) /\ d = req[r].dev /\ Filled(d)
             \/ UnlinkFree(r) /\ d = req[r].dev /\ Freed(d)
             \/ RemoveFree(r) /\ d \in req[r].todo /\ Freed(d)
             \/ ShotWrite(r) /\ d = req[r].dev
  <1>1. emulators[d] \in {"AVAILABLE", "REGISTERED"} /\ emulators'[d] # emulators[d]
        /\ emulators'[d] # "ABSENT"
    BY DEF Freed, Filled
  <1>2. ASSUME NEW r \in Req, Serves(r)
        PROVE  \/ LinkRegister(r) /\ d = req[r].dev /\ Filled(d)
               \/ UnlinkFree(r) /\ d = req[r].dev /\ Freed(d)
               \/ RemoveFree(r) /\ d \in req[r].todo /\ Freed(d)
               \/ ShotWrite(r) /\ d = req[r].dev
    <2>1. CASE LinkRegister(r)
      BY <1>1, <2>1 DEF LinkRegister, SetState, TablesTypeOK, Freed, Filled
    <2>2. CASE UnlinkFree(r)
      BY <1>1, <2>2 DEF UnlinkFree, SetState, TablesTypeOK, Freed, Filled
    <2>3. CASE RemoveFree(r)
      BY <1>1, <2>3 DEF RemoveFree, SetState, TablesTypeOK, Freed, Filled
    <2>4. CASE ShotWrite(r)
      BY <1>1, <2>4 DEF ShotWrite, SetState, TablesTypeOK
    <2>5. ~ShotInsert(r)
      BY <1>1 DEF ShotInsert, TablesTypeOK
    <2>. QED
      BY <1>1, <1>2, <2>1, <2>2, <2>3, <2>4, <2>5 DEF Serves, LinkCheck, LinkInsert, LinkInsertRefused, LinkRoot,
         LinkGrant, UnlinkFind, UnlinkMark, UnlinkRevoke, RemoveDelete, DeleteUser,
         AssignFind, AssignApply, UnassignFind, UnassignApply, ExtendWrite, FindLink, ShotLoad,
         tables
  <1>3. ASSUME NEW r \in Req, Receives(r) \/ Breaks(r)
        PROVE  UNCHANGED emulators
    BY <1>3 DEF Receives, LinkBegin, UnlinkBegin, RemoveBegin, AssignBegin, UnassignBegin,
       ExtendBegin, ShotBegin, Receive, Breaks, LinkBreaks, QueryFails, RemoveDeleteFails, tables
  <1>4. ~(Directory \/ \E c \in Device : RemoveEmulator(c))
    BY <1>1 DEF Directory, InsertUser, InsertAccount, RemoveAccount, DeleteAccount,
       CreateEmulator, RemoveEmulator, DeleteEmulator, TablesTypeOK
  <1>. QED
    BY <1>1, <1>2, <1>3, <1>4 DEF AuditNext, Runs, Stops, Forgets, Pulls, Breaks

LEMMA FollowsStep ==
    ASSUME IInv, AuditNext, NEW d \in Device \ disturbed
    PROVE  /\ Freed(d) => \A l \in ActiveOn(d) : \E r \in Req :
                /\ req[r].pc = "removeDelete" /\ d \in req[r].scope
                /\ LinkUser[l] = req[r].user
           /\ Filled(d) => \E l \in LinkId : ActiveOn(d) = {l}
  <1>0. TablesTypeOK /\ ReqTypeOK
    BY DEF IInv, TypeOK, ReqTypeOK
  <1>1. \A r \in Req : WorksOn(req[r], d) => Stage(req[r], emulators[d], ActiveOn(d), d)
    BY DEF IInv, LeaseInv, DeviceInv
  <1>2. ASSUME NEW r \in Req, LinkRegister(r), d = req[r].dev
        PROVE  \E l \in LinkId : ActiveOn(d) = {l}
    BY <1>0, <1>1, <1>2 DEF LinkRegister, WorksOn, Stage, ReqTypeOK, Shape
  <1>3. ASSUME NEW r \in Req, UnlinkFree(r), d = req[r].dev
        PROVE  ActiveOn(d) = {}
    BY <1>1, <1>3 DEF UnlinkFree, WorksOn, Stage
  <1>4. ASSUME NEW r \in Req, RemoveFree(r), d \in req[r].todo, NEW l \in ActiveOn(d)
        PROVE  /\ req[r].pc = "removeDelete" /\ d \in req[r].scope
               /\ LinkUser[l] = req[r].user
    BY <1>0, <1>1, <1>4 DEF RemoveFree, WorksOn, Stage, ReqTypeOK, Shape
  <1>5. ~(Freed(d) /\ Filled(d))
    BY DEF Freed, Filled
  <1>6. ASSUME NEW r \in Req, ShotWrite(r), d = req[r].dev
        PROVE  FALSE
    BY <1>1, <1>6 DEF ShotWrite, WorksOn, Stage
  <1>. QED
    BY <1>0, <1>2, <1>3, <1>4, <1>5, <1>6, StateChanges

\* The state column of an undisturbed device is set to AVAILABLE or REGISTERED
\* only when its links already say, or the same deletion is about to say, so.
THEOREM StateAlwaysFollowsLease == AuditSpec => StateFollowsLease
  <1>1. IInv /\ [AuditNext]_auditVars =>
          [ \A d \in Device \ disturbed :
              /\ Freed(d) => \A l \in ActiveOn(d) : \E r \in Req :
                               /\ req[r].pc = "removeDelete" /\ d \in req[r].scope
                               /\ LinkUser[l] = req[r].user
              /\ Filled(d) => \E l \in LinkId : ActiveOn(d) = {l} ]_auditVars
    BY FollowsStep
  <1>. QED
    BY <1>1, Inductive, PTL DEF AuditSpec, StateFollowsLease

-----------------------------------------------------------------------------
(* Refinement of the ledger.                                                 *)

HoldersOf(d) == {LinkUser[l] : l \in ActiveOn(d)}

\* What a step does to the active links of an undisturbed device: nothing, end
\* them all, or start one where there was none.
LEMMA ActiveChanges ==
    ASSUME IInv, [AuditNext]_auditVars, NEW d \in Device \ disturbed'
    PROVE  \/ ActiveOn(d)' = ActiveOn(d)
           \/ ActiveOn(d)' = {}
           \/ ActiveOn(d) = {} /\ \E l \in LinkId : ActiveOn(d)' = {l}
  <1>0. TypeOK /\ ReqTypeOK /\ LeaseInv /\ ReqTypeOK' /\ TablesTypeOK
    BY TypeStep DEF IInv, ReqTypeOK, TypeOK
  <1>1. ASSUME NEW r \in Req, Runs(r) \/ Stops(r) \/ Forgets(r)
        PROVE  \/ ActiveOn(d)' = ActiveOn(d)
               \/ ActiveOn(d)' = {}
               \/ ActiveOn(d) = {} /\ \E l \in LinkId : ActiveOn(d)' = {l}
    <2>. DEFINE q == req[r]
    <2>0. /\ StageOK(r, d) /\ Shape(q)
          /\ WorksOn(q, d) => Stage(q, emulators[d], ActiveOn(d), d)
      BY <1>0, <1>1, RequestStep DEF StageOK, ReqTypeOK
    <2>1. CASE LinkInsert(r)
      <3>1. PICK l \in FreshLinks(q.user, q.dev) : userEmulators' = [userEmulators EXCEPT ![l] = "active"]
        BY <2>1 DEF LinkInsert
      <3>2. ActiveOn(d)' = IF d = q.dev THEN ActiveOn(d) \cup {l} ELSE ActiveOn(d)
        BY <1>0, <3>1 DEF ActiveOn, FreshLinks, TablesTypeOK
      <3>3. d = q.dev => ActiveOn(d) = {}
        BY <2>0, <2>1 DEF LinkInsert, WorksOn, Stage
      <3>. QED
        BY <3>2, <3>3 DEF FreshLinks
    <2>2. CASE UnlinkMark(r)
      <3>1. ActiveOn(d)' = ActiveOn(d) \ {q.link}
        BY <1>0, <2>2 DEF UnlinkMark, ActiveOn, TablesTypeOK, LinkExists
      <3>2. d = q.dev => ActiveOn(d) = {q.link}
        BY <2>0, <2>2 DEF UnlinkMark, WorksOn, Stage
      <3>3. d # q.dev => q.link \notin ActiveOn(d)
        BY <2>0, <2>2 DEF UnlinkMark, Shape, ActiveOn
      <3>. QED
        BY <3>1, <3>2, <3>3
    <2>3. CASE RemoveDelete(r)
      <3>1. ActiveOn(d)' = {l \in ActiveOn(d) : LinkUser[l] # q.user}
        <4>1. DeleteUser(q.user)
          BY <1>0, <2>3 DEF RemoveDelete, ReqTypeOK, Request
        <4>. QED
          BY <1>0, <4>1, DeleteUserActive
      <3>2. CASE d \in q.scope
        BY <2>0, <2>3, <3>1, <3>2 DEF RemoveDelete, WorksOn, Stage
      <3>3. CASE d \notin q.scope
        BY <2>0, <2>3, <3>1, <3>3 DEF RemoveDelete, StageOK
      <3>. QED
        BY <3>2, <3>3
    <2>4. CASE ~(LinkInsert(r) \/ UnlinkMark(r) \/ RemoveDelete(r))
      <3>1. UNCHANGED userEmulators
        <4>1. CASE Receives(r)
          BY <1>0, <4>1, ReceivesType DEF tables
        <4>2. CASE Breaks(r)
          BY <4>2 DEF Breaks, LinkBreaks, QueryFails, RemoveDeleteFails, tables
        <4>3. CASE Serves(r)
          BY <2>4, <4>3 DEF Serves, LinkCheck, LinkInsertRefused, LinkRoot,
             LinkGrant, LinkRegister, UnlinkFind, UnlinkRevoke, UnlinkFree, RemoveFree, SetState,
             AssignFind, AssignApply, UnassignFind, UnassignApply, ExtendWrite, FindLink,
             ShotLoad, ShotWrite, ShotInsert, tables
        <4>. QED
          BY <1>1, <4>1, <4>2, <4>3 DEF Runs, Stops, Forgets, Breaks
      <3>. QED
        BY <3>1, ActiveKept
    <2>. QED
      BY <2>1, <2>2, <2>3, <2>4
  <1>2. CASE Directory /\ Track({})
    BY <1>0, <1>2, DirectoryStep
  <1>3. ASSUME NEW c \in Device, Pulls(c)
        PROVE  ActiveOn(d)' = ActiveOn(d) \/ ActiveOn(d)' = {}
    BY <1>0, <1>3, PullStep
  <1>4. CASE UNCHANGED auditVars
    BY <1>4, ActiveKept DEF auditVars, vars, tables
  <1>. QED
    BY <1>1, <1>2, <1>3, <1>4 DEF AuditNext

\* The handlers implement the ledger: among the devices no overlap or break
\* has touched, a lease starts only where there is none, for one user.
THEOREM LedgerRefined == AuditSpec => LedgerSpec
  <1>1. AuditInit => Ledger!Init
    BY DEF AuditInit, Init, Ledger!Init, ActiveOn
  <1>2. IInv /\ IInv' /\ [AuditNext]_auditVars =>
          [Ledger!Next]_<<[d \in Device |-> {LinkUser[l] : l \in ActiveOn(d)}], disturbed>>
    <2>. SUFFICES ASSUME IInv, IInv', [AuditNext]_auditVars
                  PROVE  Ledger!Next
      OBVIOUS
    <2>1. \A d \in Device : HoldersOf(d)' \in SUBSET User
      BY SchemaAssumption DEF HoldersOf, ActiveOn
    <2>2. disturbed \subseteq disturbed' /\ disturbed' \in SUBSET Device
      BY DEF AuditNext, Runs, Stops, Forgets, Pulls, Track, auditVars, IInv, TypeOK
    <2>3. ASSUME NEW d \in Device \ disturbed'
          PROVE  \/ HoldersOf(d) = {} /\ \E u \in User : HoldersOf(d)' = {u}
                 \/ HoldersOf(d)' = {}
                 \/ HoldersOf(d)' = HoldersOf(d)
      <3>1. CASE ActiveOn(d)' = ActiveOn(d)
        BY <3>1 DEF HoldersOf
      <3>2. CASE ActiveOn(d)' = {}
        BY <3>2 DEF HoldersOf
      <3>3. CASE ActiveOn(d) = {} /\ \E l \in LinkId : ActiveOn(d)' = {l}
        BY <3>3, SchemaAssumption DEF HoldersOf
      <3>. QED
        BY <3>1, <3>2, <3>3, ActiveChanges
    <2>. QED
      BY <2>1, <2>2, <2>3 DEF Ledger!Next, Ledger!Taken, Ledger!Ended, Ledger!Kept, HoldersOf
  <1>. QED
    BY <1>1, <1>2, Inductive, PTL DEF AuditSpec, LedgerSpec, Ledger!Spec

-----------------------------------------------------------------------------
(* What the lists of the devices show.                                       *)
\* What the list of an account is made from.
LEMMA AccountList ==
  ASSUME NEW a \in Account, NEW d \in Device
  PROVE  /\ a \notin Root => (d \in findAll(TokenOf(a)) <=>
              \E l \in ActiveLinksOf(AccountUser[a], d) : GrantedTo(a, l))
         /\ a \in Root => (d \in findAll(TokenOf(a)) <=>
              ActiveLinksOf(AccountUser[a], d) # {} /\ emulators[d] = "REGISTERED")
  <1>1. a # None
    BY ServiceAssumption
  <1>2. CASE a \notin Root
    BY <1>1, <1>2 DEF findAll, TokenOf
  <1>3. CASE a \in Root
    BY <1>3 DEF findAll, TokenOf
  <1>. QED
    BY <1>2, <1>3

\* An active link of d is an active link of d and its user.
LEMMA ActiveOfUser ==
  \A d \in Device, u \in User, l \in LinkId :
    l \in ActiveLinksOf(u, d) <=> l \in ActiveOn(d) /\ LinkUser[l] = u
  BY DEF ActiveLinksOf, LinksOf, LinkExists, ActiveOn

\* The pages read the same rows; the list of an ordinary account misses only
\* the leases of other users, for which a request must have named the account.
THEOREM ViewsAgree == AuditSpec => []AccountViewsAgree
  <1>1. GrantsOwned => AccountViewsAgree
    <2>. SUFFICES ASSUME GrantsOwned, NEW a \in Account \ Root, NEW d \in Device
                  PROVE  /\ d \in findOne(a) <=> a \in findLinkedDevices(d)
                         /\ d \in findAll(TokenOf(a)) => d \in findOne(a)
                         /\ d \in findOne(a) =>
                              \/ d \in findAll(TokenOf(a))
                              \/ \E l \in ActiveOn(d) :
                                   GrantedTo(a, l) /\ <<a, LinkUser[l]>> \in named
      BY DEF AccountViewsAgree
    <2>1. AccountUser[a] \in User
      BY SchemaAssumption
    <2>2. ActiveLinksOf(AccountUser[a], d) \subseteq ActiveOn(d) /\ ActiveOn(d) \subseteq LinkId
      BY DEF ActiveLinksOf, LinksOf, ActiveOn
    <2>3. d \in findOne(a) <=> \E l \in ActiveOn(d) : GrantedTo(a, l)
      BY DEF findOne
    <2>4. d \in findAll(TokenOf(a)) => d \in findOne(a)
      BY <2>2, <2>3, AccountList
    <2>5. ASSUME NEW l \in ActiveOn(d), GrantedTo(a, l), <<a, LinkUser[l]>> \notin named
          PROVE  d \in findAll(TokenOf(a))
      <3>1. LinkUser[l] = AccountUser[a]
        BY <2>5 DEF GrantsOwned, GrantedTo
      <3>2. l \in ActiveLinksOf(AccountUser[a], d)
        BY <2>1, <2>2, <3>1, ActiveOfUser
      <3>. QED
        BY <2>5, <3>2, AccountList
    <2>6. d \in findOne(a) <=> a \in findLinkedDevices(d)
      BY <2>3 DEF findLinkedDevices
    <2>. QED
      BY <2>3, <2>4, <2>5, <2>6
  <1>. QED
    BY <1>1, GrantsAlwaysOwned, PTL

\* An undisturbed device is shown alike: from the agreement of its state and
\* its one link.
THEOREM HoldersSeen == AuditSpec => []HolderSeen
  <1>1. LeaseConsistent /\ GrantsOwned => HolderSeen
    <2>. SUFFICES ASSUME LeaseConsistent, GrantsOwned,
                         NEW d \in Device \ disturbed, ~Busy(d), NEW a \in Account
                  PROVE  /\ d \in findAll(TokenOf(a)) => AccountUser[a] \in LesseeShown(d)
                         /\ a \in Root => (d \in findAll(TokenOf(a))
                                             <=> AccountUser[a] \in LesseeShown(d))
                         /\ \A u, v \in LesseeShown(d) : u = v
      BY DEF HolderSeen
    <2>1. AccountUser[a] \in User
      BY SchemaAssumption
    <2>2. ActiveLinksOf(AccountUser[a], d) \subseteq LinkId /\ ActiveOn(d) \subseteq LinkId
      BY DEF ActiveLinksOf, LinksOf, ActiveOn
    <2>3. CASE Free(d)
      <3>1. LesseeShown(d) = {}
        BY <2>3 DEF Free, LesseeShown
      <3>2. ActiveLinksOf(AccountUser[a], d) = {}
        BY <2>1, <2>2, <2>3, ActiveOfUser DEF Free
      <3>. QED
        BY <3>1, <3>2, AccountList
    <2>4. CASE Held(d)
      <3>1. PICK l \in LinkId : ActiveOn(d) = {l}
        BY <2>4 DEF Held
      <3>2. LesseeShown(d) = {LinkUser[l]}
        BY <2>4, <3>1 DEF Held, LesseeShown
      <3>3. ActiveLinksOf(AccountUser[a], d) # {} <=> AccountUser[a] = LinkUser[l]
        BY <2>1, <2>2, <3>1, ActiveOfUser
      <3>. QED
        BY <2>4, <3>2, <3>3, AccountList DEF Held
    <2>. QED
      BY <2>3, <2>4 DEF LeaseConsistent
  <1>. QED
    BY <1>1, LeasesConsistent, GrantsAlwaysOwned, PTL

\* The count of a user's emulators is the length of the root account's list:
\* the links counted and the devices listed correspond one to one.
THEOREM CountsSeen ==
  ASSUME IsFiniteSet(LinkId)
  PROVE  AuditSpec => []CountSeen
  <1>1. LeaseConsistent => CountSeen
    <2>. SUFFICES ASSUME LeaseConsistent,
                         \A d \in Device : d \notin disturbed /\ ~Busy(d),
                         NEW a \in Root
                  PROVE  emulatorsCount(AccountUser[a]) = Cardinality(findAll(TokenOf(a)))
      BY DEF CountSeen
    <2>. DEFINE L == {l \in LinkId : LinkUser[l] = AccountUser[a] /\ userEmulators[l] = "active"}
                D == findAll(TokenOf(a))
                F == [l \in L |-> LinkDevice[l]]
    <2>1. a \in Account /\ AccountUser[a] \in User
      BY SchemaAssumption
    <2>2. \A d \in Device : Free(d) \/ Held(d)
      BY DEF LeaseConsistent
    <2>3. \A l \in L : LinkDevice[l] \in Device /\ l \in ActiveOn(LinkDevice[l])
      BY SchemaAssumption DEF ActiveOn
    <2>4. \A l \in L : Held(LinkDevice[l])
      BY <2>2, <2>3 DEF Free
    <2>5. D \subseteq Device
      BY DEF findAll, TokenOf
    <2>6. F \in [L -> D]
      <3>1. \A l \in L : LinkDevice[l] \in D
        <4>1. \A l \in L : l \in ActiveLinksOf(AccountUser[a], LinkDevice[l])
          BY <2>1, <2>3, ActiveOfUser
        <4>. QED
          BY <2>1, <2>3, <2>4, <4>1, AccountList DEF Held
      <3>. QED
        BY <3>1
    <2>7. \A l, m \in L : F[l] = F[m] => l = m
      BY <2>3, <2>4 DEF Held
    <2>8. \A d \in D : \E l \in L : F[l] = d
      <3>. SUFFICES ASSUME NEW d \in D PROVE \E l \in L : LinkDevice[l] = d
        OBVIOUS
      <3>1. ActiveLinksOf(AccountUser[a], d) # {}
        BY <2>1, <2>5, AccountList
      <3>. QED
        BY <3>1 DEF ActiveLinksOf, LinksOf
    <2>9. F \in Bijection(L, D)
      BY <2>6, <2>7, <2>8 DEF Bijection, Injection, Surjection, IsInjective
    <2>10. IsFiniteSet(L)
      BY FS_Subset
    <2>11. Cardinality(D) = Cardinality(L)
      <3>1. ExistsBijection(L, D)
        BY <2>9 DEF ExistsBijection
      <3>. QED
        BY <2>10, <3>1, FS_Bijection
    <2>. QED
      BY <2>11 DEF emulatorsCount
  <1>. QED
    BY <1>1, LeasesConsistent, PTL

-----------------------------------------------------------------------------
(* Edits.                                                                    *)

\* u has, or has had, a lease of a device of the set D.
Leased(u, D) == \E l \in LinkId :
    LinkUser[l] = u /\ LinkDevice[l] \in D /\ userEmulators[l] # "new"

\* An edit that has been let pass is of a device its author has, or had, leased.
EditsBacked == \A p \in Put : put[p] # None => Leased(put[p][1], {put[p][2]})

\* A row goes by its own key at least.
OwnKey == \A d \in Device : d \in ids[d]

EditInv == PutTypeOK /\ EditsBacked /\ OwnKey /\ EditedByLessee

\* A step of the leasing keeps an edit backed: no link becomes new again.
LEMMA EditsLeasing ==
  ASSUME TypeOK, ReqTypeOK, EditInv, LeasingGoesOn
  PROVE  EditInv'
  <1>1. \A l \in LinkId : userEmulators[l] # "new" => userEmulators'[l] # "new"
    BY LinkGone DEF LeasingGoesOn
  <1>2. put' = put
    BY DEF LeasingGoesOn
  <1>3. \A d \in Device :
          (details'[d] = None) \/ (details'[d] = details[d] /\ ids'[d] = ids[d])
    BY DEF LeasingGoesOn
  <1>4. PutTypeOK'
    BY <1>2 DEF EditInv, PutTypeOK, LeasingGoesOn
  <1>5. EditsBacked'
    BY <1>1, <1>2 DEF EditInv, EditsBacked, Leased
  <1>6. EditedByLessee'
    BY <1>1, <1>3 DEF EditInv, EditedByLessee
  <1>7. OwnKey'
    BY DEF EditInv, OwnKey, LeasingGoesOn
  <1>. QED
    BY <1>4, <1>5, <1>6, <1>7 DEF EditInv

\* An update of an operator, or of one who leases or has leased the device.
LEMMA EditsUpdate ==
  ASSUME TypeOK, EditInv, NEW author \in Author, NEW d \in Device, NEW e \in Device,
         author \in Operators \/ Leased(author, {d}), Update(author, d, e)
  PROVE  /\ EditedByLessee' /\ OwnKey' /\ TypeOK' /\ UNCHANGED <<userEmulators, req>>
         /\ details' \in [Device -> Author \cup {None}] /\ ids' \in [Device -> SUBSET Device]
  <1>0. /\ details \in [Device -> Author \cup {None}] /\ ids \in [Device -> SUBSET Device]
        /\ emulators \in [Device -> DeviceRow] /\ OwnKey /\ EditedByLessee
    BY DEF EditInv, PutTypeOK, TypeOK, TablesTypeOK
  <1>1. CASE UNCHANGED <<auditVars, details, ids>>
    BY <1>0, <1>1 DEF EditedByLessee, OwnKey, TypeOK, TablesTypeOK, auditVars, vars, tables
  <1>2. CASE e = d /\ details' = [details EXCEPT ![d] = author] /\ UNCHANGED <<auditVars, ids>>
    <2>1. \A x \in Device : details'[x] = IF x = d THEN author ELSE details[x]
      BY <1>0, <1>2
    <2>2. userEmulators' = userEmulators /\ ids' = ids /\ req' = req
      BY <1>2 DEF auditVars, vars, tables
    <2>3. EditedByLessee'
      BY <1>0, <2>1, <2>2 DEF EditedByLessee, Leased, OwnKey
    <2>. QED
      BY <1>0, <1>2, <2>2, <2>3 DEF OwnKey, TypeOK, TablesTypeOK, auditVars, vars, tables
  <1>3. CASE /\ emulators[d] # "ABSENT" /\ MayRename(d, e) /\ Rename(d, e)
             /\ details' = [details EXCEPT ![e] = author, ![d] = None]
    <2>1. d # e
      BY <1>3 DEF MayRename
    <2>2. /\ \A x \in Device : details'[x] = IF x = d THEN None ELSE IF x = e THEN author ELSE details[x]
          /\ \A x \in Device : ids'[x] = IF x = d THEN {d} ELSE IF x = e THEN ids[d] \cup {e} ELSE ids[x]
      BY <1>0, <1>3, <2>1 DEF Rename
    <2>3. userEmulators' = userEmulators /\ req' = req
      BY <1>3 DEF Rename
    <2>4. EditedByLessee'
      BY <1>0, <2>1, <2>2, <2>3 DEF EditedByLessee, Leased, OwnKey
    <2>5. OwnKey'
      BY <1>0, <2>2 DEF OwnKey
    <2>6. TypeOK'
      <3>1. emulators[d] \in DeviceRow /\ "ABSENT" \in DeviceRow
        BY <1>0 DEF DeviceRow
      <3>2. emulators' \in [Device -> DeviceRow]
        BY <1>0, <1>3, <3>1 DEF Rename
      <3>3. disturbed' \subseteq Device
        BY <1>3 DEF Rename, TypeOK
      <3>. QED
        BY <1>3, <3>2, <3>3 DEF Rename, TypeOK, TablesTypeOK
    <2>7. details' \in [Device -> Author \cup {None}] /\ ids' \in [Device -> SUBSET Device]
      BY <1>0, <1>3 DEF Rename
    <2>. QED
      BY <2>3, <2>4, <2>5, <2>6, <2>7
  <1>. QED
    BY <1>1, <1>2, <1>3 DEF Update

\* So does a step of an edit.
LEMMA EditsOwnStep ==
  ASSUME TypeOK, ReqTypeOK, EditInv, NEW p \in Put, PutCheck(p) \/ PutWrite(p) \/ PutFails(p)
  PROVE  TypeOK' /\ ReqTypeOK' /\ EditInv'
  <1>0. PutTypeOK /\ EditsBacked /\ None \notin User
    BY ServiceAssumption DEF EditInv
  <1>1. ASSUME UNCHANGED <<auditVars, details, ids>>, put' \in [Put -> (User \X Device) \cup {None}],
               EditsBacked'
        PROVE  TypeOK' /\ ReqTypeOK' /\ EditInv'
    BY <1>1 DEF auditVars, vars, tables, TypeOK, TablesTypeOK, ReqTypeOK, EditInv, PutTypeOK,
         EditedByLessee, OwnKey
  <1>2. CASE PutCheck(p)
    <2>1. PICK u \in User, d \in Device :
            ActiveLinksOf(u, d) # {} /\ put' = [put EXCEPT ![p] = <<u, d>>]
      BY <1>2 DEF PutCheck
    <2>2. Leased(u, {d})
      BY <2>1 DEF ActiveLinksOf, LinksOf, Leased
    <2>3. \A q \in Put : put'[q] = IF q = p THEN <<u, d>> ELSE put[q]
      BY <1>0, <2>1 DEF PutTypeOK
    <2>4. userEmulators' = userEmulators
      BY <1>2 DEF PutCheck, auditVars, vars, tables
    <2>5. EditsBacked'
      BY <1>0, <2>2, <2>3, <2>4 DEF EditsBacked, Leased
    <2>6. put' \in [Put -> (User \X Device) \cup {None}]
      BY <1>0, <2>1 DEF PutTypeOK
    <2>. QED
      BY <1>1, <1>2, <2>5, <2>6 DEF PutCheck
  <1>3. CASE PutFails(p)
    <2>1. \A q \in Put : put'[q] = IF q = p THEN None ELSE put[q]
      BY <1>0, <1>3 DEF PutFails, PutTypeOK
    <2>2. userEmulators' = userEmulators
      BY <1>3 DEF PutFails, auditVars, vars, tables
    <2>3. EditsBacked'
      BY <1>0, <2>1, <2>2 DEF EditsBacked, Leased
    <2>4. put' \in [Put -> (User \X Device) \cup {None}]
      BY <1>0, <1>3 DEF PutFails, PutTypeOK
    <2>. QED
      BY <1>1, <1>3, <2>3, <2>4 DEF PutFails
  <1>4. CASE PutWrite(p)
    <2>1. put[p] \in User \X Device
      BY <1>0, <1>4 DEF PutWrite, PutTypeOK
    <2>. DEFINE u == put[p][1]
                d == put[p][2]
    <2>2. PICK e \in Device : Update(u, d, e)
      BY <1>4 DEF PutWrite
    <2>3. u \in Author /\ d \in Device /\ Leased(u, {d})
      BY <1>0, <1>4, <2>1 DEF PutWrite, EditsBacked, Author
    <2>4. /\ EditedByLessee' /\ OwnKey' /\ TypeOK' /\ UNCHANGED <<userEmulators, req>>
          /\ details' \in [Device -> Author \cup {None}] /\ ids' \in [Device -> SUBSET Device]
      <3>. HIDE DEF u, d
      <3>. QED
        BY <2>2, <2>3, EditsUpdate
    <2>5. put' = [put EXCEPT ![p] = None]
      BY <1>4 DEF PutWrite
    <2>6. \A q \in Put : put'[q] = IF q = p THEN None ELSE put[q]
      BY <1>0, <2>5 DEF PutTypeOK
    <2>7. EditsBacked'
      BY <1>0, <2>4, <2>6 DEF EditsBacked, Leased
    <2>8. put' \in [Put -> (User \X Device) \cup {None}]
      BY <1>0, <2>5 DEF PutTypeOK
    <2>. QED
      BY <2>4, <2>7, <2>8 DEF EditInv, PutTypeOK, ReqTypeOK
  <1>. QED
    BY <1>2, <1>3, <1>4

\* And a step of an operator.
LEMMA EditsOperator ==
  ASSUME TypeOK, ReqTypeOK, EditInv, NEW o \in Operators, PutUnchecked(o)
  PROVE  TypeOK' /\ ReqTypeOK' /\ EditInv'
  <1>1. PICK d \in Device, e \in Device : Update(o, d, e)
    BY DEF PutUnchecked
  <1>2. /\ EditedByLessee' /\ OwnKey' /\ TypeOK' /\ UNCHANGED <<userEmulators, req>>
        /\ details' \in [Device -> Author \cup {None}] /\ ids' \in [Device -> SUBSET Device]
    BY <1>1, EditsUpdate DEF Author
  <1>. QED
    BY <1>2 DEF PutUnchecked, EditInv, PutTypeOK, EditsBacked, Leased, ReqTypeOK

\* The author of a device's details is an operator, or leases or has leased the
\* device under one of its names.
THEOREM EditsAreLessees == PutSpec => []EditedByLessee
  <1>1. PutInit => TypeOK /\ ReqTypeOK /\ EditInv
    BY TypeInit DEF PutInit, EditInv, PutTypeOK, EditsBacked, OwnKey, EditedByLessee
  <1>2. TypeOK /\ ReqTypeOK /\ EditInv /\ [PutNext]_putVars => TypeOK' /\ ReqTypeOK' /\ EditInv'
    <2>. SUFFICES ASSUME TypeOK, ReqTypeOK, EditInv, [PutNext]_putVars
                  PROVE  TypeOK' /\ ReqTypeOK' /\ EditInv'
      OBVIOUS
    <2>1. CASE LeasingGoesOn
      BY <2>1, EditsLeasing, TypeStep DEF LeasingGoesOn
    <2>2. CASE \E p \in Put : PutCheck(p) \/ PutWrite(p) \/ PutFails(p)
      BY <2>2, EditsOwnStep
    <2>3. CASE \E o \in Operators : PutUnchecked(o)
      BY <2>3, EditsOperator
    <2>4. CASE UNCHANGED putVars
      BY <2>4 DEF putVars, auditVars, vars, tables, TypeOK, TablesTypeOK, ReqTypeOK, EditInv,
           PutTypeOK, EditsBacked, Leased, OwnKey, EditedByLessee
    <2>. QED
      BY <2>1, <2>2, <2>3, <2>4 DEF PutNext
  <1>3. EditInv => EditedByLessee
    BY DEF EditInv
  <1>. QED
    BY <1>1, <1>2, <1>3, PTL DEF PutSpec

=============================================================================
