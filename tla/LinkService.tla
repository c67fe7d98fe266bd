---------------------------- MODULE LinkService -----------------------------
(***************************************************************************)
(* The handlers of EmulatorService that lease emulators to users (link,    *)
(* unlink, assign, unassign, extend), the one that stores a screenshot and *)
(* rewrites the emulator's row, and UserService.remove, which ends leases. *)
(*                                                                         *)
(* Node.js runs the handlers of all requests in one thread, but every      *)
(* `await` of a query gives the others a turn and no handler opens a       *)
(* transaction.  So one awaited query, with the code up to the next        *)
(* `await`, is one action, and the state of a handler between two queries  *)
(* is a record in req.  The handlers that issue one statement are atomic   *)
(* actions ("directory" below).                                            *)
(***************************************************************************)
EXTENDS LinkTables

CONSTANTS
    Req,          \* slots for requests being served at the same time
    None,         \* an unset field of a request
    DeviceLists,  \* the deviceIds arrays clients send, as sets of devices
    AccountLists, \* the accountIds arrays, as sets of accounts
    DefaultDays,  \* configService.get('DEFAULT_DAYS') || 30
    ExtendDays,   \* the days of an extend request
    MaxExpiry,    \* bound: no lease is extended beyond this day
    Ops,          \* the operations clients use
    Faults        \* TRUE: a query may fail (lost connection, process killed)

Operation == {"link", "unlink", "removeUser", "assign", "unassign", "extend",
              "screenshot", "removeAccount", "removeDevice"}

ASSUME ServiceAssumption ==
    /\ None \notin User \cup Account \cup Device \cup LinkId
    /\ DeviceLists \subseteq (SUBSET Device) \ {{}}
    /\ AccountLists \subseteq (SUBSET Account) \ {{}}
    /\ DefaultDays \in Nat /\ ExtendDays \in Nat /\ MaxExpiry \in Nat
    /\ Ops \subseteq Operation
    /\ Faults \in BOOLEAN

VARIABLE req

vars == <<tables, req>>

LinkPc   == {"linkCheck", "linkInsert", "linkRoot", "linkGrant", "linkRegister"}
UnlinkPc == {"unlinkFind", "unlinkMark", "unlinkRevoke", "unlinkFree"}
RemovePc == {"removeDelete", "removeDrain"}
GrantPc  == {"assignFind", "assignApply", "unassignFind", "unassignApply"}
ShotPc   == {"shotLoad", "shotWrite", "shotInsert"}
Pc == {"idle", "extendWrite"} \cup ShotPc \cup LinkPc \cup UnlinkPc \cup RemovePc \cup GrantPc

Request == [pc    : Pc,
            user  : User \cup {None},    \* the userId of the DTO
            todo  : SUBSET Device,       \* devices not started, or updates not done
            dev   : Device \cup {None},  \* the device of this iteration
            link  : LinkId \cup {None},  \* the link found or inserted
            accts : SUBSET Account,      \* the accountIds of the DTO
            left  : SUBSET Account,      \* accounts still to be (un)assigned
            scope : SUBSET Device,       \* UserService.remove: its snapshot
            base  : Nat,                 \* extend: the expiry it read
            seen  : DeviceRow]           \* screenshot: the row it read

Idle == [pc |-> "idle", user |-> None, todo |-> {}, dev |-> None, link |-> None,
         accts |-> {}, left |-> {}, scope |-> {}, base |-> 0, seen |-> "ABSENT"]

Init ==
    /\ users = [u \in User |-> "new"]
    /\ accounts = [a \in Account |-> "new"]
    /\ emulators = [d \in Device |-> "ABSENT"]
    /\ userEmulators = [l \in LinkId |-> "new"]
    /\ expiresAt = [l \in LinkId |-> 0]
    /\ accountEmulators = {}
    /\ req = [r \in Req |-> Idle]

-----------------------------------------------------------------------------
\* The request q goes on with any of its remaining devices (the order is the
\* client's), at the first query of the loop body, or has answered.
NextDevice(q, first) ==
    IF q.todo = {} THEN {Idle}
    ELSE {[q EXCEPT !.pc = first, !.dev = d, !.todo = @ \ {d}, !.link = None, !.left = {}]
            : d \in q.todo}

Goto(r, Q) == \E q \in Q : req' = [req EXCEPT ![r] = q]

\* A client sends a request with this userId, deviceIds and accountIds; its
\* handler starts.
Asked(u, D, A) == [Idle EXCEPT !.user = u, !.todo = D, !.accts = A]

Receive(r, op, u, D, A, first) ==
    /\ op \in Ops /\ req[r] = Idle
    /\ users[u] = "live"
    /\ Goto(r, NextDevice(Asked(u, D, A), first))
    /\ UNCHANGED tables

-----------------------------------------------------------------------------
(* linkEmulator *)

LinkBegin(r) == \E u \in User, D \in DeviceLists :
    Receive(r, "link", u, D, {}, "linkCheck")

\* Mutant: the check is left out.
LinkUnchecked(r) ==
    /\ req[r].pc = "linkCheck"
    /\ Goto(r, {[req[r] EXCEPT !.pc = "linkInsert"]})
    /\ UNCHANGED tables

\* findEmulatorByDeviceId(device_id, REGISTERED), and the exception if it is.
LinkCheck(r) ==
    /\ req[r].pc = "linkCheck"
    /\ IF emulators[req[r].dev] = "REGISTERED"
         THEN Goto(r, {Idle})
         ELSE Goto(r, {[req[r] EXCEPT !.pc = "linkInsert"]})
    /\ UNCHANGED tables

LinkInsert(r) ==
    LET q == req[r] IN
    /\ q.pc = "linkInsert"
    /\ users[q.user] = "live" /\ emulators[q.dev] # "ABSENT"
    /\ \E l \in FreshLinks(q.user, q.dev) :
         /\ userEmulators' = [userEmulators EXCEPT ![l] = "active"]
         /\ expiresAt' = [expiresAt EXCEPT ![l] = DefaultDays]
         /\ Goto(r, {[q EXCEPT !.pc = "linkRoot", !.link = l]})
    /\ UNCHANGED <<users, accounts, emulators, accountEmulators>>

\* A foreign key of the insert refers to no row: the request fails.
LinkInsertRefused(r) ==
    LET q == req[r] IN
    /\ q.pc = "linkInsert"
    /\ users[q.user] # "live" \/ emulators[q.dev] = "ABSENT"
    /\ Goto(r, {Idle})
    /\ UNCHANGED tables

\* Mutant: a null adminAccount goes on to the insert of the grant.
LinkRootOptional(r) ==
    LET q == req[r]
        found == IF RootsOf(q.user) = {} THEN {None} ELSE RootsOf(q.user)
    IN  /\ q.pc = "linkRoot"
        /\ Goto(r, {[q EXCEPT !.pc = "linkGrant", !.left = {a}] : a \in found})
        /\ UNCHANGED tables

\* accountService.findRootAccount(userId)
LinkRoot(r) ==
    LET q == req[r] IN
    /\ q.pc = "linkRoot"
    /\ Goto(r, {[q EXCEPT !.pc = "linkGrant", !.left = {a}] : a \in RootsOf(q.user)})
    /\ UNCHANGED tables

LinkGrant(r) ==
    LET q == req[r] IN
    /\ q.pc = "linkGrant"
    /\ \E a \in q.left :
         /\ GrantRefersToRows(a, q.link) /\ <<a, q.link>> \notin accountEmulators
         /\ accountEmulators' = accountEmulators \cup {<<a, q.link>>}
    /\ Goto(r, {[q EXCEPT !.pc = "linkRegister", !.left = {}]})
    /\ UNCHANGED <<users, accounts, emulators, userEmulators, expiresAt>>

\* adminAccount is null (a TypeError), or the insert of the grant violates a
\* constraint: the request fails and leaves the link it inserted.
LinkBreaks(r) ==
    LET q == req[r] IN
    /\ \/ q.pc = "linkRoot" /\ RootsOf(q.user) = {}
       \/ /\ q.pc = "linkGrant"
          /\ \E a \in q.left : ~GrantRefersToRows(a, q.link) \/ <<a, q.link>> \in accountEmulators
    /\ Goto(r, {Idle})
    /\ UNCHANGED tables

\* An UPDATE by primary key: no row, no effect.
SetState(d, s) ==
    /\ emulators' = IF emulators[d] = "ABSENT" THEN emulators ELSE [emulators EXCEPT ![d] = s]
    /\ UNCHANGED <<users, accounts, userEmulators, expiresAt, accountEmulators>>

LinkRegister(r) ==
    /\ req[r].pc = "linkRegister"
    /\ SetState(req[r].dev, "REGISTERED")
    /\ Goto(r, NextDevice(req[r], "linkCheck"))

-----------------------------------------------------------------------------
(* unlinkEmulator *)

UnlinkBegin(r) == \E u \in User, D \in DeviceLists :
    Receive(r, "unlink", u, D, {}, "unlinkFind")

UnlinkFind(r) ==
    LET q == req[r]
        found == ActiveLinksOf(q.user, q.dev)
    IN  /\ q.pc = "unlinkFind"
        /\ Goto(r, IF found = {} THEN NextDevice(q, "unlinkFind")
                   ELSE {[q EXCEPT !.pc = "unlinkMark", !.link = l] : l \in found})
        /\ UNCHANGED tables

UnlinkMark(r) ==
    LET q == req[r] IN
    /\ q.pc = "unlinkMark"
    /\ userEmulators' = IF LinkExists(q.link) THEN [userEmulators EXCEPT ![q.link] = "unlinked"]
                        ELSE userEmulators
    /\ Goto(r, {[q EXCEPT !.pc = "unlinkRevoke"]})
    /\ UNCHANGED <<users, accounts, emulators, expiresAt, accountEmulators>>

UnlinkRevoke(r) ==
    LET q == req[r] IN
    /\ q.pc = "unlinkRevoke"
    /\ accountEmulators' = {g \in accountEmulators : g[2] # q.link}
    /\ Goto(r, {[q EXCEPT !.pc = "unlinkFree"]})
    /\ UNCHANGED <<users, accounts, emulators, userEmulators, expiresAt>>

\* Mutant: the device is not set AVAILABLE.
UnlinkForgets(r) ==
    /\ req[r].pc = "unlinkFree"
    /\ Goto(r, NextDevice(req[r], "unlinkFind"))
    /\ UNCHANGED tables

UnlinkFree(r) ==
    /\ req[r].pc = "unlinkFree"
    /\ SetState(req[r].dev, "AVAILABLE")
    /\ Goto(r, NextDevice(req[r], "unlinkFind"))

-----------------------------------------------------------------------------
(* UserService.remove: reads the devices the user holds, starts one UPDATE  *)
(* per device without awaiting any, and deletes the user.  The updates are  *)
(* applied in any order before and after the delete.                        *)

RemoveBegin(r) == \E u \in User :
    /\ "removeUser" \in Ops /\ req[r] = Idle
    /\ users[u] = "live"
    /\ Goto(r, {[Idle EXCEPT !.pc = "removeDelete", !.user = u,
                             !.todo = DevicesHeldBy(u), !.scope = DevicesHeldBy(u)]})
    /\ UNCHANGED tables

\* Mutant: the updates not applied before the delete are dropped.
DrainingDropped(q, D) == IF q.pc = "removeDrain" THEN Idle ELSE [q EXCEPT !.todo = D]

\* The record of a removal that has the updates of D still under way.
Draining(q, D) == IF D = {} /\ q.pc = "removeDrain" THEN Idle ELSE [q EXCEPT !.todo = D]

RemoveFree(r) ==
    /\ req[r].pc \in RemovePc
    /\ \E d \in req[r].todo :
         /\ SetState(d, "AVAILABLE")
         /\ Goto(r, {Draining(req[r], req[r].todo \ {d})})

RemoveDelete(r) ==
    LET q == [req[r] EXCEPT !.pc = "removeDrain"] IN
    /\ req[r].pc = "removeDelete"
    /\ DeleteUser(q.user)
    /\ Goto(r, {Draining(q, q.todo)})

-----------------------------------------------------------------------------
(* assignEmulatorsToAccount (many devices, one account) and assignEmulator  *)
(* (one device, many accounts); likewise unassignEmulatorsToAccount and     *)
(* unassignEmulatorFromAccounts.  No handler compares the accounts with the  *)
(* userId: a client may name the account of another user, or a deleted one.  *)

Known(A) == \A a \in A : accounts[a] # "new"

OneToMany(D, A) == (\E d \in Device : D = {d}) \/ \E a \in Account : A = {a}

AssignBegin(r) == \E u \in User, D \in DeviceLists : \E A \in AccountLists :
    /\ OneToMany(D, A) /\ Known(A)
    /\ Receive(r, "assign", u, D, A, "assignFind")

UnassignBegin(r) == \E u \in User, D \in DeviceLists : \E A \in AccountLists :
    /\ OneToMany(D, A) /\ Known(A)
    /\ Receive(r, "unassign", u, D, A, "unassignFind")

\* The lookup by device and user that all four share.
FindLink(r, find, apply) ==
    LET q == req[r]
        found == LinksOf(q.user, q.dev)
    IN  /\ q.pc = find
        /\ Goto(r, IF found = {} THEN NextDevice(q, find)
                   ELSE {[q EXCEPT !.pc = apply, !.link = l, !.left = q.accts] : l \in found})
        /\ UNCHANGED tables

\* After the account a: the next account, or the next device.
NextAccount(q, a, find) ==
    IF q.left = {a} THEN NextDevice(q, find) ELSE {[q EXCEPT !.left = @ \ {a}]}

AssignFind(r) == FindLink(r, "assignFind", "assignApply")

\* The upsert; a violated foreign key, like any error, is caught and the loop goes on.
AssignApply(r) ==
    LET q == req[r] IN
    /\ q.pc = "assignApply"
    /\ \E a \in q.left :
         /\ \/ /\ GrantRefersToRows(a, q.link)
               /\ accountEmulators' = accountEmulators \cup {<<a, q.link>>}
            \/ /\ ~GrantRefersToRows(a, q.link) \/ Faults
               /\ UNCHANGED accountEmulators
         /\ Goto(r, NextAccount(q, a, "assignFind"))
    /\ UNCHANGED <<users, accounts, emulators, userEmulators, expiresAt>>

UnassignFind(r) == FindLink(r, "unassignFind", "unassignApply")

UnassignApply(r) ==
    LET q == req[r] IN
    /\ q.pc = "unassignApply"
    /\ \E a \in q.left :
         /\ \/ accountEmulators' = accountEmulators \ {<<a, q.link>>}
            \/ Faults /\ UNCHANGED accountEmulators
         /\ Goto(r, NextAccount(q, a, "unassignFind"))
    /\ UNCHANGED <<users, accounts, emulators, userEmulators, expiresAt>>

-----------------------------------------------------------------------------
(* extend: reads a link and its expiry, then writes the sum. *)

ExtendBegin(r) == \E u \in User, d \in Device : \E l \in LinksOf(u, d) :
    /\ "extend" \in Ops /\ req[r] = Idle
    /\ expiresAt[l] + ExtendDays <= MaxExpiry
    /\ Goto(r, {[Idle EXCEPT !.pc = "extendWrite", !.user = u, !.dev = d, !.link = l,
                             !.base = expiresAt[l]]})
    /\ UNCHANGED tables

\* Mutant: the days are counted from today instead of from the expiry.
ExtendFromToday(r) ==
    LET q == req[r] IN
    /\ q.pc = "extendWrite"
    /\ expiresAt' = IF LinkExists(q.link)
                      THEN [expiresAt EXCEPT ![q.link] = ExtendDays] ELSE expiresAt
    /\ Goto(r, {Idle})
    /\ UNCHANGED <<users, accounts, emulators, userEmulators, accountEmulators>>

ExtendWrite(r) ==
    LET q == req[r] IN
    /\ q.pc = "extendWrite"
    /\ expiresAt' = IF LinkExists(q.link)
                      THEN [expiresAt EXCEPT ![q.link] = q.base + ExtendDays] ELSE expiresAt
    /\ Goto(r, {Idle})
    /\ UNCHANGED <<users, accounts, emulators, userEmulators, accountEmulators>>

-----------------------------------------------------------------------------
(* linkScreenshot: reads the row, sets its screenshot and saves it.  save   *)
(* of TypeORM reads the row again and writes back every column in which the *)
(* object differs from it, the state included; when the row is not there    *)
(* any more, it inserts the object.                                         *)

ShotBegin(r) == \E d \in Device :
    /\ "screenshot" \in Ops /\ req[r] = Idle
    /\ emulators[d] # "ABSENT"
    /\ Goto(r, {[Idle EXCEPT !.pc = "shotLoad", !.dev = d, !.seen = emulators[d]]})
    /\ UNCHANGED tables

ShotLoad(r) ==
    LET q == req[r]
        now == emulators[q.dev]
        next == IF now = "ABSENT" THEN "shotInsert" ELSE "shotWrite"
    IN  /\ q.pc = "shotLoad"
        /\ Goto(r, {IF now = q.seen THEN Idle ELSE [q EXCEPT !.pc = next]})
        /\ UNCHANGED tables

ShotWrite(r) ==
    /\ req[r].pc = "shotWrite"
    /\ SetState(req[r].dev, req[r].seen)
    /\ Goto(r, {Idle})

\* The insert, which fails if the device has been registered anew.
ShotInsert(r) ==
    LET q == req[r] IN
    /\ q.pc = "shotInsert"
    /\ emulators' = IF emulators[q.dev] = "ABSENT"
                      THEN [emulators EXCEPT ![q.dev] = q.seen] ELSE emulators
    /\ Goto(r, {Idle})
    /\ UNCHANGED <<users, accounts, userEmulators, expiresAt, accountEmulators>>

-----------------------------------------------------------------------------
(* Handlers of one statement.  UserService.create is InsertUser and then    *)
(* InsertAccount of a root account, which a failure between them leaves out.*)

InsertUser(u) ==
    /\ users[u] = "new"
    /\ users' = [users EXCEPT ![u] = "live"]
    /\ UNCHANGED <<accounts, emulators, userEmulators, expiresAt, accountEmulators, req>>

InsertAccount(a) ==
    /\ accounts[a] = "new" /\ users[AccountUser[a]] = "live"
    /\ accounts' = [accounts EXCEPT ![a] = "live"]
    /\ UNCHANGED <<users, emulators, userEmulators, expiresAt, accountEmulators, req>>

RemoveAccount(a) ==
    /\ "removeAccount" \in Ops /\ accounts[a] = "live"
    /\ DeleteAccount(a)
    /\ UNCHANGED req

\* EmulatorService.create: its primary key makes the lookup and insert one.
CreateEmulator(d) ==
    /\ emulators[d] = "ABSENT"
    /\ emulators' = [emulators EXCEPT ![d] = "AVAILABLE"]
    /\ UNCHANGED <<users, accounts, userEmulators, expiresAt, accountEmulators, req>>

\* EmulatorService.remove
RemoveEmulator(d) ==
    /\ "removeDevice" \in Ops /\ emulators[d] # "ABSENT"
    /\ DeleteEmulator(d)
    /\ UNCHANGED req

-----------------------------------------------------------------------------
(* A query rejects, or the process dies: the handler stops where it is. *)

QueryFails(r) ==
    /\ Faults /\ req[r] # Idle
    /\ Goto(r, {Idle})
    /\ UNCHANGED tables

\* Only the delete of UserService.remove rejects: its updates still run.
RemoveDeleteFails(r) ==
    LET q == [req[r] EXCEPT !.pc = "removeDrain"] IN
    /\ Faults /\ req[r].pc = "removeDelete"
    /\ Goto(r, {Draining(q, q.todo)})
    /\ UNCHANGED tables

-----------------------------------------------------------------------------
Receives(r) ==
    \/ LinkBegin(r) \/ UnlinkBegin(r) \/ RemoveBegin(r)
    \/ AssignBegin(r) \/ UnassignBegin(r) \/ ExtendBegin(r)
    \/ ShotBegin(r)

\* The next query of r is answered and its handler goes on.
Serves(r) ==
    \/ LinkCheck(r) \/ LinkInsert(r) \/ LinkInsertRefused(r)
    \/ LinkRoot(r) \/ LinkGrant(r) \/ LinkRegister(r)
    \/ UnlinkFind(r) \/ UnlinkMark(r) \/ UnlinkRevoke(r) \/ UnlinkFree(r)
    \/ RemoveFree(r) \/ RemoveDelete(r)
    \/ AssignFind(r) \/ AssignApply(r) \/ UnassignFind(r) \/ UnassignApply(r)
    \/ ExtendWrite(r) \/ ShotLoad(r) \/ ShotWrite(r) \/ ShotInsert(r)

Breaks(r) == LinkBreaks(r) \/ QueryFails(r) \/ RemoveDeleteFails(r)

Directory ==
    \/ \E u \in User : InsertUser(u)
    \/ \E a \in Account : InsertAccount(a) \/ RemoveAccount(a)
    \/ \E d \in Device : CreateEmulator(d)

Next ==
    \/ \E r \in Req : Receives(r) \/ Serves(r) \/ Breaks(r)
    \/ Directory
    \/ \E d \in Device : RemoveEmulator(d)

Spec == Init /\ [][Next]_vars

=============================================================================
