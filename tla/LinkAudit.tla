------------------------------ MODULE LinkAudit -----------------------------
(***************************************************************************)
(* What may be expected of LinkService, which runs its handlers without    *)
(* transactions or locks.  A history variable records the devices on which *)
(* something went wrong that no handler guards against: two requests       *)
(* overlapped on the device, a request broke off half-way through its      *)
(* writes, or the device was deleted under a request; another, the leases  *)
(* on which two extensions overlapped; a third, the accounts that a        *)
(* request to assign or unassign named although they are not the user's.   *)
(* The properties say what holds of all the others.                        *)
(***************************************************************************)
EXTENDS LinkService

VARIABLES disturbed, raced, named

auditVars == <<vars, disturbed, raced, named>>

-----------------------------------------------------------------------------
ActiveOn(d) == {l \in LinkId : LinkDevice[l] = d /\ userEmulators[l] = "active"}

\* q is a request whose writes concern the row or the links of d.
WorksOn(q, d) ==
    /\ q.pc \in LinkPc \cup UnlinkPc \cup RemovePc \cup ShotPc
    /\ d = q.dev \/ d \in q.todo \/ d \in q.scope

Busy(d) == \E r \in Req : WorksOn(req[r], d)

\* Two requests overlap on d: both work on it, or one links it to a user
\* whom the other is deleting.
Overlap(p, q, d) ==
    /\ WorksOn(p, d)
    /\ \/ WorksOn(q, d)
       \/ p.pc \in LinkPc /\ q.pc \in RemovePc /\ p.user = q.user

Contended(f, d) == \E r, s \in Req : r # s /\ Overlap(f[r], f[s], d)

\* The devices on which q has done some but not all of its writes.
HalfDone(q) ==
    IF q.pc \in {"linkRoot", "linkGrant", "linkRegister", "unlinkRevoke", "unlinkFree"}
      THEN {q.dev}
    ELSE IF q.pc = "removeDelete" THEN q.scope \ q.todo
    ELSE IF q.pc = "removeDrain" THEN q.todo
    ELSE {}

Extends(q, l) == q.pc = "extendWrite" /\ q.link = l

\* Two requests are between reading and writing the expiry of l.
Racing(f, l) == \E r, s \in Req : r # s /\ Extends(f[r], l) /\ Extends(f[s], l)

\* A request names the account a with the userId u, which is not its user's.
Naming(f, a, u) == AccountUser[a] # u /\ \E r \in Req :
    f[r].pc \in GrantPc /\ f[r].user = u /\ a \in f[r].accts

Track(hit) ==
    /\ disturbed' = disturbed \cup hit \cup {d \in Device : Contended(req', d)}
    /\ raced' = raced \cup {l \in LinkId : Racing(req', l)}
    /\ named' = named \cup {g \in Account \X User : Naming(req', g[1], g[2])}

AuditInit == Init /\ disturbed = {} /\ raced = {} /\ named = {}

Runs(r)   == (Receives(r) \/ Serves(r)) /\ Track({})
Stops(r)  == (LinkBreaks(r) \/ QueryFails(r)) /\ Track(HalfDone(req[r]))
Forgets(r) == RemoveDeleteFails(r) /\ Track(req[r].scope)
Pulls(d)  == RemoveEmulator(d) /\ Track(IF Busy(d) THEN {d} ELSE {})

AuditNext ==
    \/ \E r \in Req : Runs(r) \/ Stops(r) \/ Forgets(r)
    \/ Directory /\ Track({})
    \/ \E d \in Device : Pulls(d)

AuditSpec == AuditInit /\ [][AuditNext]_auditVars

FairAuditSpec == AuditSpec /\ \A r \in Req : WF_auditVars(Runs(r) /\ req[r] # Idle)

-----------------------------------------------------------------------------
\* Type invariant: every table and every request has its columns' values.
TypeOK ==
    /\ TablesTypeOK /\ req \in [Req -> Request]
    /\ disturbed \subseteq Device /\ raced \subseteq LinkId
    /\ named \subseteq Account \X User

Free(d) == emulators[d] \in {"AVAILABLE", "ABSENT"} /\ ActiveOn(d) = {}
Held(d) == emulators[d] = "REGISTERED" /\ \E l \in LinkId : ActiveOn(d) = {l}

\* A device no request is working on, and on which requests never overlapped
\* nor broke off, has the two halves of its lease in agreement: its state is
\* REGISTERED and exactly one link is active, or neither.  Nothing else ties
\* emulators.state to user_emulators: three handlers write both in several
\* statements, and a fourth writes back a state it read earlier.
LeaseConsistent == \A d \in Device \ disturbed : Busy(d) \/ Free(d) \/ Held(d)

\* Whoever may use a leased device is a live account, on a link that exists,
\* and an account of the user the device is leased to unless some request named
\* that very account with that user, which no handler refuses: across assign,
\* unlink, account, user and device deletion in any interleaving, failures
\* included.
GrantsOwned == \A g \in accountEmulators :
    /\ GrantRefersToRows(g[1], g[2])
    /\ AccountUser[g[1]] = LinkUser[g[2]] \/ <<g[1], LinkUser[g[2]]>> \in named

\* A step that marks a device AVAILABLE again finds no lease on it but one
\* of a user being deleted by that very request, and a step that marks it
\* REGISTERED finds exactly one.
Freed(d)   == emulators[d] = "REGISTERED" /\ emulators'[d] = "AVAILABLE"
Filled(d)  == emulators[d] = "AVAILABLE" /\ emulators'[d] = "REGISTERED"
StateFollowsLease == [][ \A d \in Device \ disturbed :
    /\ Freed(d) => \A l \in ActiveOn(d) : \E r \in Req :
                     /\ req[r].pc = "removeDelete" /\ d \in req[r].scope
                     /\ LinkUser[l] = req[r].user
    /\ Filled(d) => \E l \in LinkId : ActiveOn(d) = {l} ]_auditVars

\* A user's deletion frees every device the user held when it was asked for,
\* although UserService.remove answers without waiting for the updates.
RemovalOf(d) == \E r \in Req : req[r].pc \in RemovePc /\ d \in req[r].scope
RemovalFrees == \A d \in Device :
    RemovalOf(d) ~> (emulators[d] # "REGISTERED" \/ d \in disturbed)

\* An extension adds its days to what the lease's row holds when it writes,
\* although it writes a sum made from an earlier read, unless two extensions
\* of the lease overlapped: no other request moves an expiry meanwhile.
ExtendAdds == [][ \A r \in Req :
    LET l == req[r].link IN
    ExtendWrite(r) /\ LinkExists(l) /\ l \notin raced =>
      expiresAt'[l] = expiresAt[l] + ExtendDays ]_auditVars

\* The devices' holders follow the ledger: taken only when free, by one user.
Ledger == INSTANCE LeaseLedger WITH
    holders <- [d \in Device |-> {LinkUser[l] : l \in ActiveOn(d)}],
    wild    <- disturbed

LedgerSpec == Ledger!Spec

-----------------------------------------------------------------------------
(* The inductive invariant behind LeaseConsistent.  s and A stand for the    *)
(* state of the device d and the active links on it.                         *)

Settled(s, A) ==
    \/ s \in {"AVAILABLE", "ABSENT"} /\ A = {}
    \/ s = "REGISTERED" /\ \E l \in LinkId : A = {l}

\* Where the lease of d stands while the request q is at its pc.
Stage(q, s, A, d) ==
    /\ q.pc \in LinkPc \cup UnlinkPc /\ d \in q.todo => Settled(s, A)
    /\ q.pc \in {"linkCheck", "unlinkFind", "shotLoad"} => Settled(s, A)
    /\ q.pc = "shotLoad" => s = q.seen
    /\ q.pc \notin {"shotWrite", "shotInsert"}
    /\ q.pc = "linkInsert" /\ d = q.dev => s \in {"AVAILABLE", "ABSENT"} /\ A = {}
    /\ q.pc \in {"linkRoot", "linkGrant", "linkRegister"} /\ d = q.dev =>
         s = "AVAILABLE" /\ A = {q.link}
    /\ q.pc = "unlinkMark" /\ d = q.dev => s = "REGISTERED" /\ A = {q.link}
    /\ q.pc \in {"unlinkRevoke", "unlinkFree"} /\ d = q.dev => s = "REGISTERED" /\ A = {}
    /\ q.pc = "removeDelete" => \E l \in LinkId : A = {l} /\ LinkUser[l] = q.user
    /\ q.pc = "removeDrain" => A = {}
    /\ q.pc \in RemovePc => s = IF d \in q.todo THEN "REGISTERED" ELSE "AVAILABLE"

\* f stands for req.
DeviceInv(f, s, A, d) ==
    /\ ~Contended(f, d)
    /\ (\E r \in Req : WorksOn(f[r], d)) \/ Settled(s, A)
    /\ \A r \in Req : WorksOn(f[r], d) => Stage(f[r], s, A, d)
    /\ \A r \in Req : f[r].pc = "removeDelete" /\ d \notin f[r].scope =>
         \A l \in A : LinkUser[l] # f[r].user

\* The shape of a request's record at each pc.
Shape(q) ==
    /\ q.pc = "idle" => q = Idle
    /\ q.pc \notin ShotPc \cup {"idle"} => q.user \in User
    /\ q.pc \in ShotPc =>
         q.dev \in Device /\ q.todo = {} /\ q.scope = {} /\ q.seen # "ABSENT"
    /\ q.pc = "extendWrite" => q.link \in LinkId
    /\ q.pc \in LinkPc \cup UnlinkPc \cup GrantPc =>
         q.dev \in Device /\ q.dev \notin q.todo /\ q.scope = {}
    /\ q.pc \in {"linkRoot", "linkGrant", "linkRegister", "unlinkMark", "unlinkRevoke",
                 "unlinkFree", "assignApply", "unassignApply"} =>
         q.link \in LinkId /\ LinkUser[q.link] = q.user /\ LinkDevice[q.link] = q.dev
    /\ q.pc \in RemovePc => q.dev = None /\ q.todo \subseteq q.scope
    /\ q.pc \in GrantPc => q.left \subseteq q.accts
    /\ q.pc = "linkGrant" => \A a \in q.left : AccountUser[a] = q.user

LeaseInv == \A d \in Device \ disturbed : DeviceInv(req, emulators[d], ActiveOn(d), d)

\* The expiry an extension read is still the row's, unless extensions raced.
ExtendInv == \A r \in Req, l \in LinkId : Extends(req[r], l) =>
    /\ userEmulators[l] # "new"
    /\ LinkExists(l) /\ l \notin raced => req[r].base = expiresAt[l]

RaceInv == \A l \in LinkId : Racing(req, l) => l \in raced

\* Every account a request still names for another user has been recorded.
NamedInv == \A a \in Account, u \in User : Naming(req, a, u) => <<a, u>> \in named

IInv ==
    /\ TypeOK /\ \A r \in Req : Shape(req[r])
    /\ GrantsOwned /\ NamedInv /\ LeaseInv /\ ExtendInv /\ RaceInv

-----------------------------------------------------------------------------
(* Claims of the repository that the handlers do not keep. *)

\* "@throws HttpException if the device is already linked": no device is ever
\* leased twice.  Two requests may both pass the check before either inserts.
NeverLinkedTwice == \A d \in Device : \A l, m \in ActiveOn(d) : l = m

\* linkEmulator is "marking it as registered and associating it with an
\* account": a device on which no request works and that has a lease is marked.
LinkMarksRegistered ==
    \A d \in Device : ~Busy(d) /\ ActiveOn(d) # {} => emulators[d] = "REGISTERED"

\* "Extended emulator expiry date": no extension makes a lease end earlier.
\* One that read the expiry before two others wrote it does.
ExtendNeverShortens == [][ \A r \in Req :
    LET l == req[r].link IN
    ExtendWrite(r) /\ LinkExists(l) => expiresAt'[l] >= expiresAt[l] ]_auditVars

\* "Device has been assigned to multiple accounts": an account an assign
\* request has dealt with is on the user's current lease of the device.
AssignReachesLease == [][ \A r \in Req : AssignApply(r) =>
    LET L == ActiveLinksOf(req[r].user, req[r].dev) IN
    L # {} => req[r].link \in L ]_auditVars

=============================================================================
