--------------------------- MODULE SignalingGateway -------------------------
(***************************************************************************)
(* SignalingServerGateway and the methods of EmulatorService it calls or   *)
(* competes with: which socket speaks for an emulator or an account (the   *)
(* connections map, in memory), whether an emulator is online              *)
(* (emulators.status, which a screenshot upload writes too) and the log of *)
(* who was connected to what (emulator_connections), whose rows belong to  *)
(* grants (account_emulators) and go with them.                            *)
(*                                                                         *)
(* A socket event runs to the first await without interruption: it changes *)
(* the map at once and leaves the database writes as a task, whose queries *)
(* are the later actions.  Nothing orders the tasks of different events.   *)
(* SignalingRelay has what the sockets are sent.                           *)
(*                                                                         *)
(* Two restrictions: a socket names itself in its events, the emulator or  *)
(* the account it is of (the code believes any deviceId or clientId in the *)
(* message), and an emulator keeps its device_id (see DeviceUpdate).       *)
(***************************************************************************)
EXTENDS Naturals, FiniteSets

CONSTANTS
    Device, Account,   \* the keys of the map: device_ids and account ids
    Socket, None,
    Owner,             \* the emulator or the account a socket is of
    RowId,             \* keys of emulator_connections: account, device, number
    Faults,            \* TRUE: queries fail and the server process restarts
    ShotDevice         \* bound: devices screenshots are uploaded of, one at a time

Peer == Device \cup Account

ASSUME GatewayAssumption ==
    /\ Device \cap Account = {}
    /\ None \notin Socket
    /\ Owner \in [Socket -> Peer]
    /\ RowId \subseteq Account \X Device \X Nat
    /\ Faults \in BOOLEAN
    /\ ShotDevice \subseteq Device

VARIABLES
    sock,         \* "new", "open" or "closed", as the server sees the socket
    connections,  \* Map<string, Socket>
    status,       \* emulators.status, "absent" when the device is not registered
    granted,      \* account_emulators: which accounts may use which devices
    rows,         \* emulator_connections: "open" while disconnected_at is null
    tasks         \* the database work of events whose handlers have returned or wait

vars == <<sock, connections, status, granted, rows, tasks>>

\* The query a task waits for.  A Connect names a device, the lookup of an
\* open row of emulator_connections yields the row to close, and an upload
\* has seen a status.
DropOp == {"disconnect", "offline", "findRow", "closeRow"}
ShotOp == {"shotLoad", "shotWrite", "shotInsert"}
TaskOp == {"online", "connect", "insertRow"} \cup DropOp \cup ShotOp
Status == {"offline", "online"}
Task == [op : TaskOp, peer : Peer, sock : Socket \cup {None}, dev : Device \cup {None},
         row : RowId \cup {None}, seen : Status \cup {None}]

NewTask(op, p, s, d) ==
    [op |-> op, peer |-> p, sock |-> s, dev |-> d, row |-> None, seen |-> None]

TypeOK ==
    /\ sock \in [Socket -> {"new", "open", "closed"}]
    /\ connections \in [Peer -> Socket \cup {None}]
    /\ status \in [Device -> Status \cup {"absent"}]
    /\ granted \in [Account \X Device -> {"new", "live", "gone"}]
    /\ rows \in [RowId -> {"new", "open", "closed", "gone"}]
    /\ tasks \in SUBSET Task

Init ==
    /\ sock = [s \in Socket |-> "new"]
    /\ connections = [p \in Peer |-> None]
    /\ status = [d \in Device |-> "absent"]
    /\ granted = [g \in Account \X Device |-> "new"]
    /\ rows = [i \in RowId |-> "new"]
    /\ tasks = {}

-----------------------------------------------------------------------------
(* Socket events *)

Open(s) ==
    /\ sock[s] = "new"
    /\ sock' = [sock EXCEPT ![s] = "open"]
    /\ UNCHANGED <<connections, status, granted, rows, tasks>>

\* Mutant: the map is given the device's id instead of its socket.
StartStreamingById(s, d) ==
    /\ sock[s] = "open" /\ Owner[s] = d
    /\ connections' = [connections EXCEPT ![d] = d]
    /\ tasks' = tasks \cup {NewTask("online", d, s, None)}
    /\ UNCHANGED <<sock, status, granted, rows>>

\* handleStartStreaming, to the update of the status (bound: a socket does not
\* start again before its first update is done).
StartStreaming(s, d) ==
    /\ sock[s] = "open" /\ Owner[s] = d
    /\ NewTask("online", d, s, None) \notin tasks
    /\ connections' = [connections EXCEPT ![d] = s]
    /\ tasks' = tasks \cup {NewTask("online", d, s, None)}
    /\ UNCHANGED <<sock, status, granted, rows>>

\* handleOffer: 'Emulator not found' changes nothing, so only the other branch.
Offer(s, d) ==
    /\ sock[s] = "open" /\ Owner[s] \in Account
    /\ connections[d] # None
    /\ connections' = [connections EXCEPT ![Owner[s]] = s]
    /\ UNCHANGED <<sock, status, granted, rows, tasks>>

\* connect, sent once the peer connection is set up (bound: one per socket and
\* device at a time).
Connect(s, d) ==
    /\ sock[s] = "open" /\ Owner[s] \in Account
    /\ \A t \in tasks : ~(t.sock = s /\ t.dev = d)
    /\ tasks' = tasks \cup {NewTask("connect", Owner[s], s, d)}
    /\ UNCHANGED <<sock, connections, status, granted, rows>>

SpokenForBy(s) == {p \in Peer : connections[p] = s}

\* Mutant: whoever the socket is of is disconnected, still in the map or not.
DropByOwner(s) ==
    /\ sock[s] = "open"
    /\ sock' = [sock EXCEPT ![s] = "closed"]
    /\ tasks' = tasks \cup {NewTask("disconnect", Owner[s], s, None)}
    /\ UNCHANGED <<connections, status, granted, rows>>

\* Mutant: the map is not searched for the socket.
DropUnseen(s) ==
    /\ sock[s] = "open"
    /\ sock' = [sock EXCEPT ![s] = "closed"]
    /\ UNCHANGED <<connections, status, granted, rows, tasks>>

\* handleDisconnect: one disconnectEmulator per key of the map that still has
\* this socket.  No key is ever removed from the map.
Drop(s) ==
    /\ sock[s] = "open"
    /\ sock' = [sock EXCEPT ![s] = "closed"]
    /\ tasks' = tasks \cup {NewTask("disconnect", p, s, None) : p \in SpokenForBy(s)}
    /\ UNCHANGED <<connections, status, granted, rows>>

-----------------------------------------------------------------------------
(* Queries of the tasks *)

Finish(t) == tasks' = tasks \ {t}
Continue(t, u) == tasks' = (tasks \ {t}) \cup {u}

\* An update of emulators, which finds no row of a device that is not registered.
SetStatus(d, s) == status' = IF status[d] = "absent" THEN status ELSE [status EXCEPT ![d] = s]

\* emulatorRepository.update(deviceId, { status })
SetOnline(t) ==
    /\ t.op = "online"
    /\ SetStatus(t.peer, "online")
    /\ Finish(t)
    /\ UNCHANGED <<sock, connections, granted, rows>>

\* Mutant: every id is taken for an account's.
LookUpAccount(t) ==
    /\ t.op = "disconnect"
    /\ Continue(t, [t EXCEPT !.op = "findRow"])
    /\ UNCHANGED <<sock, connections, status, granted, rows>>

Registered(p) == p \in Device /\ status[p] # "absent"

\* disconnectEmulator: is the id a device's?  That of a deleted one is not.
LookUp(t) ==
    /\ t.op = "disconnect"
    /\ Continue(t, [t EXCEPT !.op = IF Registered(t.peer) THEN "offline" ELSE "findRow"])
    /\ UNCHANGED <<sock, connections, status, granted, rows>>

SetOffline(t) ==
    /\ t.op = "offline"
    /\ SetStatus(t.peer, "offline")
    /\ Finish(t)
    /\ UNCHANGED <<sock, connections, granted, rows>>

OpenRows(a) == {i \in RowId : i[1] = a /\ rows[i] = "open"}

\* Mutant: the row is looked up by the device it is of.
FindDeviceRow(t) ==
    LET found == {i \in RowId : i[2] = t.peer /\ rows[i] = "open"} IN
    /\ t.op = "findRow"
    /\ \/ found = {} /\ Finish(t)
       \/ \E i \in found : Continue(t, [t EXCEPT !.op = "closeRow", !.row = i])
    /\ UNCHANGED <<sock, connections, status, granted, rows>>

\* Any one open row of the account, whatever the device; none for a device.
FindRow(t) ==
    /\ t.op = "findRow"
    /\ \/ OpenRows(t.peer) = {} /\ Finish(t)
       \/ \E i \in OpenRows(t.peer) : Continue(t, [t EXCEPT !.op = "closeRow", !.row = i])
    /\ UNCHANGED <<sock, connections, status, granted, rows>>

CloseRow(t) ==
    /\ t.op = "closeRow"
    /\ rows' = IF rows[t.row] = "open" THEN [rows EXCEPT ![t.row] = "closed"] ELSE rows
    /\ Finish(t)
    /\ UNCHANGED <<sock, connections, status, granted>>

\* connectEmulator: with no account_emulators row it is a TypeError.
FindGrant(t) ==
    /\ t.op = "connect"
    /\ IF granted[t.peer, t.dev] = "live"
         THEN Continue(t, [t EXCEPT !.op = "insertRow"]) ELSE Finish(t)
    /\ UNCHANGED <<sock, connections, status, granted, rows>>

\* The insert is refused if the grant has gone.
InsertRow(t) ==
    /\ t.op = "insertRow"
    /\ \/ /\ granted[t.peer, t.dev] = "live"
          /\ \E i \in RowId :
               /\ i[1] = t.peer /\ i[2] = t.dev /\ rows[i] = "new"
               /\ rows' = [rows EXCEPT ![i] = "open"]
       \/ granted[t.peer, t.dev] # "live" /\ rows' = rows
    /\ Finish(t)
    /\ UNCHANGED <<sock, connections, status, granted>>

-----------------------------------------------------------------------------
(* linkScreenshot: findOne, and the SELECT and the statement of save.       *)

Upload(d) ==
    /\ d \in ShotDevice /\ ~\E t \in tasks : t.peer = d /\ t.op \in ShotOp
    /\ Registered(d)
    /\ tasks' = tasks \cup {[NewTask("shotLoad", d, None, None) EXCEPT !.seen = status[d]]}
    /\ UNCHANGED <<sock, connections, status, granted, rows>>

\* save compares the entity with the row: a status that differs is written
\* with the screenshot, and a row that is not there is inserted.
ShotLoad(t) ==
    /\ t.op = "shotLoad"
    /\ \/ status[t.peer] = t.seen /\ Finish(t)
       \/ status[t.peer] = "absent" /\ Continue(t, [t EXCEPT !.op = "shotInsert"])
       \/ status[t.peer] \in Status \ {t.seen} /\ Continue(t, [t EXCEPT !.op = "shotWrite"])
    /\ UNCHANGED <<sock, connections, status, granted, rows>>

ShotWrite(t) ==
    /\ t.op = "shotWrite"
    /\ SetStatus(t.peer, t.seen)
    /\ Finish(t)
    /\ UNCHANGED <<sock, connections, granted, rows>>

\* The insert, which is refused if the device has been registered anew.
ShotInsert(t) ==
    /\ t.op = "shotInsert"
    /\ status' = IF status[t.peer] = "absent"
                   THEN [status EXCEPT ![t.peer] = t.seen] ELSE status
    /\ Finish(t)
    /\ UNCHANGED <<sock, connections, granted, rows>>

-----------------------------------------------------------------------------
(* Requests that change the rows the gateway works on.                      *)

\* EmulatorService.create; the insert decides, whatever the lookup said.
CreateDevice(d) ==
    /\ status[d] = "absent"
    /\ status' = [status EXCEPT ![d] = "offline"]
    /\ UNCHANGED <<sock, connections, granted, rows, tasks>>

\* Deleting grants deletes their rows of emulator_connections.
DeleteGrants(G) ==
    /\ granted' = [g \in DOMAIN granted |->
                     IF g \in G /\ granted[g] = "live" THEN "gone" ELSE granted[g]]
    /\ rows' = [i \in RowId |->
                  IF <<i[1], i[2]>> \in G /\ rows[i] # "new" THEN "gone" ELSE rows[i]]

\* EmulatorService.update, whose body may have a status, which is stored.
PutStatus(d, s) ==
    /\ status[d] # "absent"
    /\ status' = [status EXCEPT ![d] = s]
    /\ UNCHANGED <<sock, connections, granted, rows, tasks>>

RemoveDevice(d) ==
    /\ status[d] # "absent"
    /\ status' = [status EXCEPT ![d] = "absent"]
    /\ DeleteGrants(Account \X {d})
    /\ UNCHANGED <<sock, connections, tasks>>

\* An assignment (bound: an account is given a device once).
Grant(a, d) ==
    /\ granted[a, d] = "new" /\ Registered(d)
    /\ granted' = [granted EXCEPT ![<<a, d>>] = "live"]
    /\ UNCHANGED <<sock, connections, status, rows, tasks>>

\* The grant goes: unassigned, unlinked, or with its account, user or lease.
Revoke(a, d) ==
    /\ granted[a, d] = "live"
    /\ DeleteGrants({<<a, d>>})
    /\ UNCHANGED <<sock, connections, status, tasks>>

-----------------------------------------------------------------------------
(* Failures *)

\* The memory of the process is lost, its sockets close.
Dies ==
    /\ sock' = [s \in Socket |-> IF sock[s] = "open" THEN "closed" ELSE sock[s]]
    /\ connections' = [p \in Peer |-> None]
    /\ tasks' = {}
    /\ UNCHANGED <<status, granted, rows>>

\* Nothing awaits or catches the promise of disconnectEmulator: its rejection
\* ends the process.
Unhandled(t) ==
    /\ \/ Faults /\ t.op \in DropOp
       \/ t.op = "findRow" /\ t.peer \in Device   \* a device_id where a uuid must be
    /\ Dies

\* The query of another task rejects and is answered with an error.
TaskFails(t) ==
    /\ Faults /\ t.op \notin DropOp
    /\ Finish(t)
    /\ UNCHANGED <<sock, connections, status, granted, rows>>

\* The process is restarted.
Restart == Faults /\ Dies

-----------------------------------------------------------------------------
Query(t) ==
    \/ SetOnline(t) \/ LookUp(t) \/ SetOffline(t)
    \/ FindRow(t) \/ CloseRow(t) \/ FindGrant(t) \/ InsertRow(t)
    \/ ShotLoad(t) \/ ShotWrite(t) \/ ShotInsert(t)

Next ==
    \/ \E s \in Socket : Open(s) \/ Drop(s)
    \/ \E s \in Socket, d \in Device : StartStreaming(s, d) \/ Offer(s, d) \/ Connect(s, d)
    \/ \E t \in tasks : Query(t) \/ TaskFails(t) \/ Unhandled(t)
    \/ \E d \in Device : Upload(d) \/ CreateDevice(d) \/ RemoveDevice(d)
    \/ \E d \in Device, s \in Status : PutStatus(d, s)
    \/ \E a \in Account, d \in Device : Grant(a, d) \/ Revoke(a, d)
    \/ Restart

Spec == Init /\ [][Next]_vars

=============================================================================
