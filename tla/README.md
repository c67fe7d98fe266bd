# A verification of the emulator leasing server

The repository is a NestJS server that leases Android emulators to users, lets the
accounts of a user (its "profiles") use them, and relays the WebRTC signalling between
an emulator and the phone that controls it. This directory holds TLA+ models of the
parts whose correctness depends on the order in which things happen, the configurations
that model-check them with TLC, and theorems about them that the TLA+ proof system
(TLAPS) checks.

Paths below are relative to the repository's root; `src/src/...` in `PROJECT.json` is the
same file seen from the directory above it.

1. [The system](#1-the-system)
2. [Modules and the code they model](#2-modules-and-the-code-they-model)
3. [Runs](#3-runs)
4. [Theorems](#4-theorems)
5. [Assumptions](#5-assumptions)
6. [Disagreements between the code and its documentation](#6-disagreements)
7. [Not modelled](#7-not-modelled)
8. [Plan](#8-plan)

---

## 1. The system

One Node.js process, one PostgreSQL database behind TypeORM, clients that speak HTTP, and
clients (emulators and phones) that speak Socket.IO.

| Component | State | Operations |
|---|---|---|
| Leasing: `EmulatorService` | `emulators.state`; `user_emulators` (a lease, "link"); `account_emulators` (which accounts may use it); `expires_at` | link, unlink, assign/unassign (many devices to one account, one device to many), extend, screenshot upload, create, update (which may rename the device or set its status), remove |
| `UsersService` | `users` | create (with a root account), update, remove (frees the devices of the user) |
| `AccountsService` | `accounts`: owner, `is_admin`, PIN | create, update, remove |
| `AuthService` | none; signs JWTs | login, by e-mail and password, then PIN for an Android user |
| Authorization guards | none | admit a JWT by its role and sub-role |
| `SignalingServerGateway` | `connections`, a map in memory from a device or account id to a socket; `emulators.status`; `emulator_connections` (who was connected when) | start streaming, offer, connect, disconnect of a socket; relays |
| Interceptors, exception handler | one flag in the database, `encryption.enabled` | guard, envelope, decrypt, encrypt, report an error |
| Seeder | roles, two operators, the flag | look up and insert each, before the server listens |
| `ApkService` | one file on disk, the rows of `apk` | upload, announce the latest version, download |
| Activity log | rows of `activity_log` | appended by `UsersService`; posted, put and deleted by operators |
| Demo clients: a page on the emulator, one on the phone | one peer connection each | stream, offer, answer, candidates |

**How they interact.** The services share tables and nothing else. Deleting a user, an
account or an emulator reaches the tables of the leasing by `ON DELETE CASCADE`; linking
calls `AccountsService.findRootAccount`; creating a user calls
`AccountsService.create`; deleting a user updates emulators. The gateway calls
`EmulatorService.connectEmulator` and `disconnectEmulator`, which write the status and the
connection log. Every HTTP request passes the guards, then `ResponseInterceptor`, then
`EncryptionInterceptor`, then its handler, and the interceptors again.

**What is hard.** There are no transactions, no locks, and few unique constraints. Every
`await` of a query lets another request run, so each handler of several queries is a
sequence of atomic steps that any other handler's steps may come between, and each of the
steps may be the last: a query rejects, a null is dereferenced, or the process dies.
The places where this matters most:

* *Leasing.* The lease of a device is stored twice, as `emulators.state` and as a row of
  `user_emulators` with `unlinked_at` null. Three handlers write both in separate
  statements; the screenshot upload writes back a state it read earlier; and
  `UsersService.remove` starts updates of devices without awaiting them and then deletes
  the user whose leases they belong to.
* *Presence.* A socket event changes the map at once and the database later. Nothing orders
  the updates that different events have started; the map never forgets a socket; a restart
  forgets all of them.
* *Accounts.* "One root account per user" and "one PIN per account" are checked by a lookup
  before the write, with no constraint behind them.
* *Signalling.* An answer or a candidate is addressed to an account and names no offer; the page
  of the emulator awaits four times in its handler of an offer and keeps one peer connection
  for all of them. Messages are under way in both directions when a socket closes.
* *Start-up and uploads.* Several servers may seed one database at once, and be stopped half-way;
  uploads of an APK share one file and replace each other's row in two statements.
* *Reads.* Six queries in three services say who may use a device, each with conditions of its own.

**What makes each component correct.**

| Component | Property |
|---|---|
| Leasing | state and leases agree on every device no requests overlap on; a device has one holder at a time and changes hands through being free; a grant belongs to a live account, on a link that exists, and to an account of the lessee unless a request named another; deleting a user frees what it held; an extension adds its days |
| Gateway | the status says whether the emulator's socket is open; a late disconnect of a replaced socket changes nothing; a gone emulator is seen offline in the end, unless a PUT says otherwise; a session has one open row of the log |
| Users, accounts, login | one root account per Android user; different PINs within a user |
| Leasing, read | the lists of an account, of its page and of the device's page agree; the lessee an operator sees is the one whose root account lists the device; only operators and lessees edit a device |
| Signalling | a page sets no answer that was made for another offer; no candidate precedes the answer it needs; no answer comes to a page that waits for none |
| Reply pipeline | no failure is answered as a success; what arrived encrypted is not answered in the clear, but for the APK download |
| Seeder | a server that listens has all it needs; refused inserts do not end the last server; a start brings back the operators that are missing |
| APK | what an undisturbed upload published is announced and sent; mixtures come from overlaps only |
| Activity log | services tell of every removal, of every e-mail the seeder did not give, and of no creation that did not happen |

The hazards, each with its line and the properties that cover it, are listed in
`PROJECT.json`.

---

## 2. Modules and the code they model

```
LinkTables -> LinkService -> LinkAudit -> LeaseViews, DeviceUpdate -> LinkAuditProofs
                                       -> LeaseViews -> MCLink; MCLink, DeviceUpdate -> MCLease
SignalingGateway -> GatewayAudit -> GatewayProofs, MCGateway
SignalingRelay -> RelayAudit -> RelayProofs, MCRelay
Access -> Directory -> DirectoryAudit -> DirectoryProofs, MCDirectory
ReplyPipeline -> ReplyAudit -> ReplyProofs
Seeder -> SeederAudit -> SeederProofs
ApkStore -> ApkAudit -> ApkProofs, MCApk
ActivityTrail -> TrailAudit -> TrailProofs, MCTrail

LeaseLedger (abstract): implemented by LinkAudit
Tenancy (abstract): implemented by DirectoryAudit
```

(`A -> B`: B extends A.) Each component has a module of the code, an *audit* module with
the properties, a module of TLC's constants, and a module of proofs. The audit modules add
*history variables* and change nothing of the behaviour: their actions conjoin an action of
the code with an update of the history.

**Granularity.** One action is one awaited query with the code up to the next `await`. The
local variables of a handler that waits for a query are a record in `req[r]`; `req[r] =
Idle` is a slot in which no request is being served. The number of slots is a constant, so
the proofs hold for any number of concurrent requests.

**Rows.** A primary key is a constant, and so is each column no code updates: the user and
device of a link, the user of an account, `is_admin`. A row is its life: not inserted yet,
live, gone. Generated keys are never reused; a `device_id` is chosen by the client and is
inserted again in the model too. `findOne` without an `ORDER BY` may return any matching
row, and the model chooses one nondeterministically.

### LinkTables, LinkService: `emulators/services/emulator.service.ts`, `users/services/user.service.ts`

| TLA+ | Code |
|---|---|
| `users`, `accounts`, `emulators`, `userEmulators`, `accountEmulators`, `expiresAt` | the five entities; `emulators[d]` is `state`, `"ABSENT"` when there is no row |
| `DeleteUser`, `DeleteEmulator`, `DeleteAccount` | deletes with the cascades of the entities |
| `LinkBegin`, `LinkCheck`, `LinkInsert`, `LinkRoot`, `LinkGrant`, `LinkRegister` | `linkEmulator`, once round its loop per device |
| `LinkInsertRefused`, `LinkBreaks` | a refused foreign key or uniqueness constraint; `adminAccount` null |
| `UnlinkFind`, `UnlinkMark`, `UnlinkRevoke`, `UnlinkFree` | `unlinkEmulator` |
| `RemoveBegin`, `RemoveFree`, `RemoveDelete` | `UsersService.remove`; `RemoveFree` is one of the updates that are not awaited and may come after the delete |
| `AssignBegin`, `AssignFind`, `AssignApply`, `UnassignBegin`, `UnassignFind`, `UnassignApply` | the two assign and two unassign handlers, which catch the error of each account; the accounts may be anybody's (`AccountLists`), deleted ones too |
| `ExtendBegin`, `ExtendWrite` | `extend` |
| `ShotBegin`, `ShotLoad`, `ShotWrite`, `ShotInsert` | `linkScreenshot`: `findOne`, then the `SELECT` and the `UPDATE` or `INSERT` of `save` |
| `InsertUser`, `InsertAccount`, `RemoveAccount`, `CreateEmulator`, `RemoveEmulator` | handlers of other services, as one statement each (Directory has them in detail) |
| `QueryFails`, `RemoveDeleteFails` | a query rejects or the handler dies, anywhere |

`LinkAudit` keeps three histories. `disturbed` holds the devices on which two requests were at work at once (or
one linked it to a user whom the other was deleting), on which a request broke off after some of its writes, or
which were deleted under a request; `raced` holds the leases that two extensions were between reading and
writing at the same time; `named` holds the pairs of an account and a user that some request to assign or
unassign named although the account is not the user's. All three are conditions of the *environment*, not of the
properties: a device is never put into `disturbed` because its data became wrong. `LeaseLedger` is the abstract
specification, in two variables: who holds each device.

### LeaseViews, DeviceUpdate: the reads and `EmulatorService.update`

`LeaseViews` has the queries as operators on the tables: `findAll` (the emulators of a list, by
the role of the token), `LesseeShown` (`emulatorResponseMapper`), `findLinkedDevices` (the
accounts of a device), `findOne` (the devices of an account) and `emulatorsCount`. They are
evaluated in every state, thus between any two queries of the handlers.

`DeviceUpdate` adds the edit of a device. For a root account `PutCheck` looks the lease up and
`PutWrite` writes the row, and the leasing (`LeasingGoesOn`) comes between them; an operator's edit
looks nothing up (`PutUnchecked`). `Update` is the statement itself. The body is stored as it is:
`details` stands for the columns nothing else reads, and a `device_id` in it gives the row another key
(`Rename`), unless the key is taken or a link refers to the row (`MayRename`; the foreign key has no
`ON UPDATE CASCADE`). `ids` is a history of the keys a row has had. The status in the body is the
gateway's (`PutStatus`).

### SignalingGateway: `core/signaling/SignalingServerGateway.ts`

| TLA+ | Code |
|---|---|
| `connections` | the map; no action removes a key, as no line of the code does |
| `sock` | whether the server sees the socket as open |
| `tasks` | promises that are pending, each with the query it waits for |
| `StartStreaming`, `Offer`, `Connect`, `Drop` | `handleStartStreaming`, `handleOffer`, the connect event, `handleDisconnect`, up to their first `await` |
| `SetOnline`, `LookUp`, `SetOffline`, `FindRow`, `CloseRow`, `FindGrant`, `InsertRow` | the queries of the handlers, of `connectEmulator` and of `disconnectEmulator` |
| `Upload`, `ShotLoad`, `ShotWrite`, `ShotInsert` | `linkScreenshot`, whose `save` writes back the status it read |
| `PutStatus` | `EmulatorService.update` with a status in the body, which the DTO declares and `update` stores |
| `CreateDevice`, `RemoveDevice`, `Grant`, `Revoke` | the leasing, as far as the gateway's rows depend on it: registering and deleting a device, giving and withdrawing a grant, with the cascade to `emulator_connections` |
| `Restart` | the process is stopped and started: `Dies` empties the map, closes the sockets and drops what is pending |
| `Unhandled` | nothing awaits the promise of `disconnectEmulator`: its rejection ends the process (`Dies`) |
| `TaskFails` | the query of another task rejects |

`GatewayAudit` records `stale` (devices with two tasks under way at once, a failed task, a registration after
the emulator had reported, a status a PUT has changed with no event under way that will write it, or a status a
restart left online), `mixed` (accounts whose sessions overlapped, whose queries failed or whose grant was
withdrawn under them) and `session` (the socket an account has connected with). `stale` heals: one event on a
device with no other under way takes it out again.

### SignalingRelay: the gateway's relays and the two pages

Each socket has a queue to the server (`up`) and one from it (`down`). The server's handlers are
`StartStreaming`, `Offer`, `Answer` and `IceCandidate`; `Emit` to a closed socket loses the message. The phone's
page has `ClickConnect`, `GetAnswer` and `GetCandidate`; the emulator's page has `ClickStream`, `GetOffer` and,
between the awaits of its handler, `CreatePeer`, `SetRemote`, `CreateAnswer`, `SendAnswer` and `Gather`, all of
which use the one `peer` of the page. `sdp` and candidates are abstracted to the offer they belong to, which the
program's messages do not name. A page lives as long as its socket. The emulator's page trickles candidates as
long as there is `Room`, a bound on the queues; one candidate of a client stands for all it sends with an offer.
`RelayAudit` records `hasty` (accounts that offered while something of an earlier offer was under way) and
`shared` (emulators' pages that got an offer while answering another).

### Access, Directory: guards, `users`, `accounts`, `auth`

`Access` has the decision of the guards. `Directory` has `UsersService.create` (`CreateUser`,
`UserInsert`, then the path of `AccountsService.create`) and `remove`; `AccountsService.create`
(`CreateAccount`, `RootCheck`, `Insert`), `update` (`UpdateAccount`, `UpdateOwner`,
`PinCheck`, `PinWrite`) and `remove` (`RemoveAccount`, `RemoveOwner`, `AccountDelete`); and
`AuthService.login` (`Login`, `LoginIssue`), which adds to the set of tokens that are
believed from then on. `DirectoryAudit` records `unrooted` (users whose creation broke off or
whose root account was removed) and `muddled` (users with an account created with a PIN in
use, or for whom two PIN checks crossed).

`Tenancy` is the abstract specification of how users and accounts come and go: an account is added for a
live user only, goes alone or with its user, and nothing comes back. `DirectoryAudit` implements it
(`TenancySpec`), although the user was looked up several queries before the account is inserted. The
leasing has its own outline of these services, one statement each; that the two fit together is not
proved, and the outline allows more than the directory does (a second root account, for one).

### ReplyPipeline: the interceptors

`Arrive`, `Refuse` or `Admit` (guards), `OuterRead` (`ResponseInterceptor` reads the flag),
`InnerRead` (`EncryptionInterceptor` reads it again), `Handle`, `Reply`. The continuations
are `FromInner` and `ToClient`. Ciphers and JSON are abstracted to the form of a body. Two routes are kinds
of their own: `POST /decrypt` ("json") answers whatever JSON was encrypted, null included, of which the
envelope keeps `message` and `data` at most; and `GET /apks/download` ("download") sends its file through
`@Res`, so that Nest drops what the interceptors make (`Sent`): the file goes out in the clear, and when
the handler or the decryption fails while encryption is on, nothing is ever sent.
`ReplyAudit` records `crossed`: the requests for which the flag was switched between the
two reads.

### Seeder: `core/database/coredataseeder.service.ts`, `main.ts`

Each of several servers goes through `Seeds` in order: `Bootstrap`, then for each row `Find`, for an
operator `FindRole`, and `Insert`, which a unique column refuses when another server was first; the
refusal rejects `bootstrap()` and the server is down. `Stops` is a fault. While a server listens, the user
with an operator's configured e-mail may be deleted (`Remove`) or given another (`Rename`), and another
user may get the e-mail (`Take`): `row` is what a start finds under the configured name, e-mail or key.
`SeederAudit` records the e-mails that were freed, at all (`removed`) and since each server started
(`since`).

### ApkStore: `modules/apks`

`Begin` (the file is written in chunks from then on: `file` is the set of uploads whose bytes it may
have), `Written`, `Delete` (all rows), `Insert` (refused without a number as version), `Fails`. `Announced`
and `Downloaded` are what the two reads answer. `ApkAudit` records `crossed` and `settled`.

### ActivityTrail: `modules/activity_logs`, `users/services/user.service.ts`

The create, update and remove of `UsersService`, query by query, with the entries they append in between,
and the operators' `Post`, `PutEntry` and `DeleteEntry`, with any action and metadata: they can write what
only a service should. The seeder's operators are there from the start, and a later start may add one
(`Seed`); neither has an entry. `RowOf` drops what the table has no columns for. `TrailAudit` records which
rows are a service's (`ours`), the `erased` entries of services, `inserted` e-mails and `untold` creations.
What an operator wrote tells nothing (`Told`).

---

## 3. Runs

Every passing run covers its whole state space. Each takes at most about two and a half minutes with two workers.

| Run | Instance | Shows |
|---|---|---|
| `isolation` | 2 requests; 2 users with a root account each; 1 device; 2 leases for one user, 1 for the other; failures; link, unlink, extend (once), screenshot, delete a user, delete the device | `TypeOK`; `LeaseConsistent`: without overlap, state and active leases agree; `StateFollowsLease`: a device is freed only without a lease (but that of the user being deleted), and registered only with exactly one; `LedgerSpec`: refinement of `LeaseLedger`; `ExtendAdds`, unless two extensions of the lease raced |
| `grants` | 2 requests; 2 users with a root account each and an ordinary one; 1 device, 1 lease for each user; all registered at the start; failures; link, unlink, assign and unassign of the ordinary account with either user, delete user, account, device | `GrantsOwned`: of live rows, and of the lessee unless a request named the account with another user; `AccountViewsAgree`, `HolderSeen`, `CountSeen`: the lists agree with each other |
| `removal` | 2 requests, each naming any of 2 devices; link, unlink, delete user, delete account; no failures; fair | `LeaseConsistent` for requests with lists; `RemovalFrees`: what a deleted user held does not stay registered |
| `edits` | 1 request, 1 edit of a root account under way, and an operator's edits; 2 users with a root account each; a device, leased up to twice to one user and once to the other, and a free `device_id`; failures; link, unlink, delete user | `LeaseConsistent` under renames; `EditedByLessee` |
| `presence` | 2 sockets of an emulator, 1 of an account; the device comes, goes, is photographed and is given a status, the grant comes and goes; failures, restarts; fair | `AuditTypeOK`, `PresenceAccurate`, `SessionsAccurate`, `StaysOnline`, `GoesOffline` |
| `relay` | a page of an emulator, pages of two accounts, one of which offers twice; sockets close at any time | `AnswersFit`, `CandidatesFollow`, `AnswersAwaited` |
| `directory` | operator, Android user, 2 possible root accounts and an ordinary one, 2 PINs, 2 requests; failures | `AuditTypeOK`, `RootExact`, `PinsDistinct`; `TenancySpec`: refinement of `Tenancy` |
| `reply` | 2 requests; routes of the API, the APK download, excluded ones, those that answer a string or any JSON, those that switch the flag | `AuditTypeOK`, `ReplyTruthful`, `SealedOnceDecrypted`; also that no state is a deadlock |
| `seeding` | 3 servers start, stop and start again; operators are deleted or renamed, their e-mails taken; failures; fair | `ListeningIsSeeded`, `SomeServerUp`, `StartRestores`, `SomeServerListens` |
| `apk` | 4 uploads: two versions in either order, one of them twice, one without a version; failures | `UploadTakesEffect`, `OnlyOverlapsMix` |
| `trail` | 2 requests; a seeded operator, an Android user and one more who may be created or seeded; 2 e-mails, one of them configured; 3 rows of the log, 1 entry erased, 1 written by an operator (`CREATE_USER`, `CREATE_ACCOUNT` or `DELETE_USER`, true or not); failures | `RemovalsTold`, `EmailsTold`, `CreationsHappened` |
| `double_link` | the smallest instance | `NeverLinkedTwice` is violated (section 6) |

**Why these bounds.** *Two requests* are what a race of two handlers takes; the inductive proofs cover any
number for the safety properties. *Two leases* for one user let a device be leased again to the same user, which
is when a lookup without `unlinked_at: IsNull()` has an ended link to find; the second user adds the change of
hands. *One device* suffices where requests name one: devices interact only through a request that names both,
which `removal` has. *Two sockets* of an emulator are the replaced one and its replacement; a status that a race
left wrong is healed by the disconnect of the second. One socket of an account makes one session; sessions that
follow each other or overlap are covered by the proof of `SessionsAccurate`, for any number of sockets and
devices. In `relay`, one account that offers twice can be hasty and two accounts can share the emulator's page.
*Three servers* let one seed, one be refused and one start later. *Four uploads* include one that crosses two
others. In `grants` the second user and the ordinary account tell the lists apart: whom a root sees, whom an
ordinary account sees, and who is neither; and let an account be assigned a device that is leased to the other
user. `PopulatedSpec` starts `grants` with every row there and no request under way, a state the program comes
to by creating them. In `edits` the second device has no lease of its own: it is the key a rename moves to and
from. One candidate more than the answer (`Trickle = 1`) lets candidates follow candidates in a queue. `Leases`
bounds the leases of a device, `AccountLists` names the accounts of assignments, `MaxExpiry` bounds extensions
(one in `isolation`; the theorem has any number), `Rows` the connection log, `MaxOffers` the offers of a page,
`Row` the entries of the log at a time, `MaxErased` those operators erase, `MaxWritten` those they write at a
time and `Written` what those say, `Trickle` the queues that candidates are added to, `Put` the edits under way,
and `ShotDevice` names the devices that are photographed.

**`CHECK_DEADLOCK FALSE`** is in all runs but `reply`. Each generated key and each socket is used
once; when all are used up, the model stops although the program would not.

**Symmetry** is used in safety runs only, between request slots (which are interchangeable:
no action tells two apart), edits, PINs, e-mails and rows of the log.

**Fairness** is stated for three runs. `FairAuditSpec` of `LinkAudit` has, for each slot, weak
fairness of the steps of the request in it: the database answers every query and Node.js
resumes the handler. No request is assumed to be *sent*, and no step to be fair against a
failure: `removal` is run without failures, because a process that dies between the
unawaited updates does leave devices registered. `FairAuditSpec` of `GatewayAudit` has, for each
device and kind of query, weak fairness of the queries of that kind that wait for the device. Socket
events are never fair: `GoesOffline` does not depend on an emulator's coming back. `FairAuditSpec` of
`SeederAudit` has weak fairness of each server's seeding once it has started, and of no start:
`SomeServerListens` is about servers that somebody has started, and exempts faults.

**Mutants.** For each property of each passing run, `PROJECT.json` names a mutated form of a
definition (a check left out, a cascade missing, a lookup by the wrong key) under which the
same run violates the property. They stand beside the definitions they mutate.

---

## 4. Theorems

All are proved for arbitrary constants: any number of users, accounts, devices, leases,
sockets, PINs and concurrent requests, from the named `ASSUME`s of the modules.

| Module | Theorem | States |
|---|---|---|
| `LinkAuditProofs` | `Inductive`, `TypeCorrect`, `LeasesConsistent`, `GrantsAlwaysOwned`, `StateAlwaysFollowsLease`, `ExtensionsAdd`, `LedgerRefined` | `IInv`, `TypeOK`, `LeaseConsistent`, `GrantsOwned`, `StateFollowsLease`, `ExtendAdds`, `LedgerSpec` |
| `LinkAuditProofs` | `ViewsAgree`, `HoldersSeen`, `CountsSeen`, `EditsAreLessees` | `AccountViewsAgree`, `HolderSeen`, `CountSeen`, `EditedByLessee` |
| `GatewayProofs` | `PresenceInductive`, `GatewayTypeCorrect`, `PresenceIsAccurate`, `StreamingStaysOnline`, `SessionsAreAccurate` | `PresenceIInv`, `AuditTypeOK`, `PresenceAccurate`, `StaysOnline`, `SessionsAccurate` |
| `RelayProofs` | `RelayTypes`, `AnswersAreFit`, `TurnsInductive`, `CandidatesComeBehind`, `AnswersAreAwaited` | `AuditTypeOK`, `AnswersFit`, `TurnIInv`, `CandidatesFollow`, `AnswersAwaited` |
| `DirectoryProofs` | `DirectoryInductive`, `DirectoryTypeCorrect`, `RootAlwaysExact`, `PinsAlwaysDistinct`, `TenancyKept` | `DirectoryIInv`, `AuditTypeOK`, `RootExact`, `PinsDistinct`, `TenancySpec` of the directory |
| `ReplyProofs` | `ReplyInductive`, `RepliesTypeCorrect`, `RepliesAreTruthful`, `DecryptedIsSealed` | `ReplyIInv`, `AuditTypeOK`, `ReplyTruthful`, `SealedOnceDecrypted` |
| `SeederProofs` | `SeederInductive`, `ListeningAlwaysSeeded`, `AServerStaysUp`, `StartsRestore` | `SeederIInv`, `ListeningIsSeeded`, `SomeServerUp`, `StartRestores` |
| `ApkProofs` | `ApkInductive`, `UploadsTakeEffect`, `MixedOnlyByOverlaps` | `ApkIInv`, `UploadTakesEffect`, `OnlyOverlapsMix` |
| `TrailProofs` | `TrailInductive`, `RemovalsAlwaysTold`, `EmailsAlwaysTold`, `ToldCreationsHappened` | `TrailIInv`, `RemovalsTold`, `EmailsTold`, `CreationsHappened` |

**Leasing.** `LeaseConsistent` speaks of devices on which no request works and is not
inductive: while a request is between its writes, state and leases disagree, and what makes
the next quiet state right is what the request has already done. `IInv` therefore says, for each
undisturbed device, that at most one request works on it (`~Contended`) and where the lease
stands at that request's pc (`Stage`): after `linkInsert`, say, the device is AVAILABLE and
the request's link is the only active one. `Shape` ties the fields of a request to its pc, and
`GrantsOwned` needs it because a grant is inserted for accounts and a link looked up before: the accounts
of a request are its user's, or `named` with that user, and the link it found is that user's.
The proof goes device by device. `DeviceInv(f, s, A, d)` depends on the requests, the
device's state and its active links only, so a step of a request that does not work on `d`
preserves it by a lemma about those three; a step of the one that does is a case per action;
a step that makes two requests work on `d` puts it into `disturbed`. `ExtendInv` and
`RaceInv` do the same for the expiry of a lease. The ledger is refined step by step: the
map from a state to its holders, and from each step to one of `Taken`, `Ended` and `Kept` on
every undisturbed device.

**Gateway.** `PresenceInv`: for a device that is not stale, either nothing is under way and the status is right,
or exactly one task is, and it will write what the socket calls for. `MapOK` (the map holds no socket that was
never open) is what `Open` needs, and `TasksOK` that a task on a device writes a status and one on an account a
row. A PUT changes neither map nor tasks: of an idle device it makes the status wrong until the next event,
which is `stale`, and it disturbs no event that will still write. `SessionInv` does the same for accounts: one
that kept to a session at a time has at most one task under way, the socket of its session is the one the map
has, and the task will leave exactly one row open, or none.

**Relay.** What `AnswersFit` rests on is that an account that is not hasty has *one* offer: `Only(a, c)`
says that everything under way for the account `a`, in either direction and in the handlers of any unshared
page, is of the last offer of one page `c`, and that an answer to it finds `c` in the map.
`Steady` says of an unshared page that it answers one offer at a time with the peer connection made for
it. `Addressed` and `Pages` give the shape of the messages and of what a handler finds. Each event
takes one message out of one queue and adds at most one to another, and the proof has one case per event.

The *order* of the messages is a second invariant on top of that one, `TurnIInv`. An account that is not hasty
has one *turn*: its Offer on the way, then the handler of it, then the Answer on the way, each in one place at
most and never two of the three at a time (`OneTurn`); as long as it has one, the page that offered waits, and
once the server has taken the offer it is the page of the map (`Waited`). `AnswersAwaited` follows: an Answer
that a page takes is the account's turn. `Follows(a, e)` says that what the page `e` gathers for `a` comes
behind its answer in each of the three places it passes: behind the handlers of `e`, in the queue to the server,
and in the queue to the page, where it is enough that the page has the answer already (`Given`). Between the
queues the condition on the second is relative to the third: a candidate may be first in the queue to the server
only if the answer is in the queue to the page, or there already (`Known`). `Unopened` is needed for a page that
connects: nothing was sent by it, nor is it anybody's in the map, so it cannot inherit candidates. The proof has
one lemma per step for the turns and one for the order, over lemmas about what taking the first message of a
queue and appending one do to the places and to the order (`FirstTaken`, `AppendedTurn`, `OrderedAppend`).

**Views.** The two pages agree by the conditions they share; that the account's list has what they have needs
`GrantsOwned` (a grant across users is one that was named), and the operator's view needs `LeaseInv`: that a
device is REGISTERED exactly while it has one active link. `CountsSeen` maps a user's active links one-to-one to
the devices of the list.

**Edits.** `EditsAreLessees` needs of the renames that a link's device keeps its key: `MayRename` moves a row to
which no link refers, so what is known of a leased device is not disturbed, and `ids` carries the keys along.
The theorems of the leasing that name `AuditSpec` are about servers on which nobody renames a device; this one,
and the run `edits`, include renames.

**Tenancy.** `TenancyKept` shows that every step of the directory is a step of `Tenancy` or leaves users and
accounts alone: a request that inserts an account for a deleted user is refused by the foreign key.

**Seeder.** `Passed`: a server that has come past a row of `Seeds` has seen it there, so it is there still,
unless an operator's e-mail was freed, which must have been since this server started (`since`). `InserterUp`:
the server that inserted last has not been refused, for nothing was inserted since it looked; hence it is up,
whichever others a unique column ended.

**APK.** `Alone`: an upload that is at work and crossed by none is the only one at work, and the file is
its own. `SinceDelete`: what the table holds when an upload inserts was put there by crossed ones.

**Directory.** `RootInv` gives each user one of four stages: not inserted; inserted, with exactly
one request making its root account and nobody able to sign in for it; with exactly one root
account and no request past the check; deleted. The second stage is the reason the unguarded
check of `AccountsService.create` is enough: only a token of the user can ask for a second
root account, and no token exists before the first. `PinInv`: a PIN that was looked up and not yet
written is still free, unless two requests crossed.

**Reply.** `ReadsAgree`: past its second read, an uncrossed request has read one value twice.
`Progress`: what is known of a request at each pc.

**Trail.** `Stages` says what a request at each stage has logged or done: an update has its entry before it
writes, a removal before it deletes, a creation has its user before its entry. Each action keeps
a service's entries in `Told` because an operator who deletes one or writes over one puts it into `erased`, and no
operator adds one, because an operator's row is not in `ours`. `EmailsTold` exempts
requests between insert and entry, which is where the history variable `untold` takes over when they fail.

**Model-checked only.** `RemovalFrees`, `GoesOffline` and `SomeServerListens` are liveness properties: they
need `ENABLED` under weak fairness, which the backends do not handle. Their safety halves are theorems:
once nothing is under way, devices and leases agree (`LeasesConsistent`), the status is that of the socket
(`PresenceIsAccurate`), and some server has not been refused (`AServerStaysUp`). Every other property of a
passing run is stated by a theorem. The violated properties of section 6 have their counterexamples only.


---

## 5. Assumptions

* One server process, but for `Seeder`, which has several. Two processes on one database would add no
  interleaving of the HTTP handlers (they already interleave at every query), but would split the
  `connections` map.
* Each statement is atomic, and sees the effect of every statement answered before it.
  `save` of a loaded entity is a `SELECT`, and an `UPDATE` of the columns that differ, or
  an `INSERT` when there is no row.
* `PUT /emulators/:id` is sent with fields of its DTO: `device_id`, `device_name`, `details`, `status`
  (`emulator.dto.ts:6-21`). Nothing holds clients to that: validation is commented out (`main.ts:16`) and the body
  is stored whole (`emulator.service.ts:84`), so a `state` in it would overwrite what the leases say.
* A device is renamed in `DeviceUpdate` only. `SignalingGateway`, and the runs and theorems of the leasing but
  `edits` and `EditsAreLessees`, take a `device_id` to be kept. Screenshots are not stored in the run `edits`
  (`PutAssumption`): they would write back the details they read.
* A socket names itself in its events: the `deviceId` of StartStreaming and the `clientId` of Offer and Connect are
  those of the emulator or the account the socket is of, as the pages send them
  (`SignalingServerGateway.ts:43`, `:54`, `:117`). The code believes any id in the message.
* Operators come from the seeder only, and nobody leases a device to one. Tokens do not expire in the model: it
  has every behaviour in which they do.
* `None` stands for `null` and `undefined`, and is none of the values it is told apart from: no message, no entry of
  the log, no socket or offer (`MessageAssumption`, `TrailAssumption`, `RelayAssumption`).
* Code outside the repository (TypeORM, PostgreSQL, Socket.IO, NestJS's order of guards, interceptors
  and filters) is modelled from how the code uses it.

---

## 6. Disagreements

Shown by a run that ends in a violation:

| Run | Code | What it does | What the code says of itself |
|---|---|---|---|
| `double_link` | `emulator.service.ts:350` | two requests pass the check before either inserts | `emulator.service.ts:346`: "@throws HttpException if the device is already linked." |

Shown by configurations that stand beside the runs, each of a property stated at the end of the audit module
it is about, which TLC finds violated (`tlc -config rootless_link.cfg MCLink`, and so on):

| Configuration | Module, property | Code | What it does | What the code says of itself |
|---|---|---|---|---|
| `rootless_link` | `MCLink`, `LinkMarksRegistered` | `emulator.service.ts:363` | a link for a user without a root account inserts the lease and then throws; the device stays AVAILABLE | `emulator.service.ts:343`: "marking it as registered and associating it with an account" |
| `assign_ended` | `MCLink`, `AssignReachesLease` | `emulator.service.ts:236` | the lookup may return the user's ended lease, and the grant goes there | `emulator.controller.ts:158`: "Device has been assigned to multiple accounts" |
| `extend_shortens` | `MCLink`, `ExtendNeverShortens` | `emulator.service.ts:279` | an extension that read before two others wrote makes the lease end earlier | `emulator.controller.ts:136`: "Extended emulator expiry date" |
| `update_ended` | `MCLease`, `EditorLeases` | `emulator.service.ts:84` | the lease ends between the lookup and the write: the former lessee's edit is stored | `emulator.service.ts:81`: 'You are not authorized to update this emulator' |
| `stale_offer` | `MCGateway`, `OfferNeedsEmulator` | `SignalingServerGateway.ts:64` | the socket of a gone emulator is found in the map, and the offer sent to nobody | `SignalingServerGateway.ts:66`: 'Emulator not found' |
| `shared_peer` | `MCRelay`, `AnswersOwnClient` | `client/android-emulator.html:140` | two accounts offer at once: the page answers one with the description made for the other | `client/android-emulator.html:146`: 'Sent answer to client: ${clientId}' |
| `bad_version` | `MCApk`, `BadVersionHarmless` | `apk.service.ts:43` | an upload whose version is no number deletes the published one before its insert is refused | `modules/app/dtos/ApkDto.ts:4`: `@IsNumber()`; the pipe that would enforce it is commented out at `main.ts:16` |

Noticed in reading, with no run of their own:

* `account.service.ts:27` speaks of "ensuring only one admin account per user"; after a root
  account is removed by an operator or by itself there is none (the `unrooted` of `DirectoryAudit`).
* `account.service.ts:102` refuses a PIN in use on update; create does not look (`muddled`).
* `account.controller.ts:51` lets an ordinary account call the update, whose service refuses every
  requester but the user's admin and operators.
* `README.md:80` says all responses are encrypted; a refusal by a guard is answered in the
  clear, because guards run before interceptors (`Refuse`).
* `app.controller.ts:22`: with encryption off, the health check's string is lost in the
  envelope, which keeps `data.message` and `data.data` (`"hollow"`).
* `emulator.controller.ts:28`: "Android users or Emulator Admin can view emulators"; `findAll`
  (`emulator.service.ts:110`) treats an emulator operator as an ordinary account, and lists the devices
  leased to it, which are none.
* `README.md:51` lists `device_id` among the details of the logs; `log`
  (`activity_log.service.ts:16`) drops it, and the table has no column for it (`RowOf`).
* `emulator.service.ts:279`: `extend` too looks a lease up without `unlinked_at: IsNull()`.
* `emulator.service.ts:157`: the accounts of an assignment are not compared with the lessee. A grant to another
  user's account appears on that account's page and on the device's, and on no list of the account (`named`).
* `emulator.controller.ts:79` describes "Emulator Update" of an `EmulatorDto` whose status belongs to the sockets: a
  PUT can say that a device is online whose emulator is gone (`PutStatus`).
* `apk.controller.ts:41`: the download goes around the interceptors, so it is not encrypted, and an error of it is
  answered with nothing while encryption is on (`"unanswered"`).
* `coredataseeder.service.ts:24`, `:39`: an operator who was deleted or given another e-mail is made anew by the
  next start, with the configured password (`StartRestores`).

---

## 7. Not modelled

* **The Disconnect event and `restartConnection`** of the gateway: no page sends the one, and the other is
  a broadcast that changes nothing on the server.
* **`EncryptionService`'s ciphers**, hashing, dates, random strings: functions of libraries. The models
  have who encrypts and decrypts what, and take the ciphers as inverse to each other.
* **`last_login`, `first_login`**: nothing the properties speak of depends on them. The other reads of the
  controllers answer one row and change nothing.
* **Guards of reads and of socket events** (`EmulatorAdmin`, `EmulatorUsers`): their verdict is
  taken as given by the models of what they guard.
* **`online-users.html`**, which waits for an event the server never sends; the pages' video, data
  channel and gestures, which pass between the phones without the server.
* **Configuration and wiring** (`app.module.ts`, `modules.registry.ts`, the TypeORM options), and the
  **key generation script**: nothing in them has state that changes.

---

## 8. Plan

Done: leasing with its views and edits, gateway, relays, users and accounts, reply pipeline, seeder, APK upload,
activity log; in the gateway the composition of uploads, edits, grants and deletions with open sockets. Left,
most important first:

1. Guards: the whole matrix of roles and routes as operators, against a reference table.
2. Compose leasing and directory: the directory's handlers in place of the outline the leasing has of them.
3. Compose relays and gateway: the database work of the events beside the messages between pages, with one
   `connections` for both.
4. Liveness of the relays: an offer to a page that stays is answered.
