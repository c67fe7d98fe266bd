---------------------------- MODULE GatewayAudit ----------------------------
(***************************************************************************)
(* When emulators.status and emulator_connections tell the truth about the *)
(* sockets.  The tasks of two events on one key are not ordered, so their  *)
(* result cannot be relied on; history variables record where that, or a   *)
(* failure, happened.                                                      *)
(***************************************************************************)
EXTENDS SignalingGateway

VARIABLES
    stale,    \* devices whose status may be wrong until the next quiet event
    mixed,    \* accounts whose rows of emulator_connections may be wrong for good
    session   \* the socket an account has connected with, or None

auditVars == <<vars, stale, mixed, session>>

TasksOn(p) == {t \in tasks : t.peer = p}

\* The emulator's latest socket is open.
Streaming(d) == connections[d] # None /\ sock[connections[d]] = "open"

AuditInit ==
    /\ Init
    /\ stale = {} /\ mixed = {}
    /\ session = [a \in Account |-> None]

\* An event on d: a task joins those of D.  With none under way the new task
\* decides the status, otherwise the tasks race.
Touch(D) == stale' = (stale \ D) \cup {d \in D : TasksOn(d) # {}}

Opens(s) == Open(s) /\ UNCHANGED <<stale, mixed, session>>

Starts(s, d) == StartStreaming(s, d) /\ Touch({d}) /\ UNCHANGED <<mixed, session>>

\* An offer on another socket than the session's supersedes it in the map.
Offers(s, d) ==
    LET a == Owner[s] IN
    /\ Offer(s, d)
    /\ mixed' = IF session[a] \notin {None, s} THEN mixed \cup {a} ELSE mixed
    /\ UNCHANGED <<stale, session>>

\* The first Connect since the account's last session, on the socket the map
\* has for it, begins a session; any other one leaves rows nobody will close.
Connects(s, d) ==
    LET a == Owner[s]
        first == /\ session[a] = None /\ TasksOn(a) = {} /\ connections[a] = s
                 /\ granted[a, d] = "live"
    IN  /\ Connect(s, d)
        /\ session' = IF first THEN [session EXCEPT ![a] = s] ELSE session
        /\ mixed' = IF first THEN mixed ELSE mixed \cup {a}
        /\ UNCHANGED stale

Drops(s) ==
    /\ Drop(s)
    /\ Touch(SpokenForBy(s) \cap Device)
    /\ session' = [a \in Account |-> IF session[a] = s THEN None ELSE session[a]]
    /\ mixed' = mixed \cup {a \in SpokenForBy(s) \cap Account : TasksOn(a) # {}}

\* An upload beside other work may write back a status it overwrites.
Uploads(d) ==
    /\ Upload(d)
    /\ stale' = IF TasksOn(d) = {} THEN stale ELSE stale \cup {d}
    /\ UNCHANGED <<mixed, session>>

\* A device is registered as offline: wrong of one whose emulator has already
\* reported that it streams.
CreatesDevice(d) ==
    /\ CreateDevice(d)
    /\ stale' = IF Streaming(d) /\ ~\E t \in TasksOn(d) : t.op = "online"
                  THEN stale \cup {d} ELSE stale
    /\ UNCHANGED <<mixed, session>>

\* A request that changes the status, unless an event that will write it is
\* under way.
Deciding(t) == t.op \in {"online", "disconnect", "offline"}

Puts(d, s) ==
    /\ PutStatus(d, s)
    /\ stale' = IF status[d] # s /\ ~\E t \in TasksOn(d) : Deciding(t)
                  THEN stale \cup {d} ELSE stale
    /\ UNCHANGED <<mixed, session>>

\* A grant that goes takes the row of a session with it, or the one a session
\* is about to insert.
Disturbed(d) == {a \in Account :
    \/ session[a] # None /\ \E i \in OpenRows(a) : i[2] = d
    \/ \E t \in TasksOn(a) : t.op \in {"connect", "insertRow"} /\ t.dev = d}

RemovesDevice(d) ==
    RemoveDevice(d) /\ mixed' = mixed \cup Disturbed(d) /\ UNCHANGED <<stale, session>>

Grants(a, d) == Grant(a, d) /\ UNCHANGED <<stale, mixed, session>>

Revokes(a, d) ==
    /\ Revoke(a, d)
    /\ mixed' = mixed \cup (Disturbed(d) \cap {a})
    /\ UNCHANGED <<stale, session>>

Queries(t) == Query(t) /\ UNCHANGED <<stale, mixed, session>>

Fails(t) ==
    /\ TaskFails(t)
    /\ stale' = IF t.op = "online" THEN stale \cup {t.peer} ELSE stale
    /\ mixed' = mixed \cup ({t.peer} \cap Account)
    /\ UNCHANGED session

\* The process ends: what was online stays so, and open sessions stay open.
Ends ==
    /\ Restart \/ \E t \in tasks : Unhandled(t)
    /\ stale' = {d \in Device : status[d] = "online"}
    /\ mixed' = mixed \cup {a \in Account : session[a] # None \/ TasksOn(a) # {}}
    /\ session' = [a \in Account |-> None]

AuditNext ==
    \/ \E s \in Socket : Opens(s) \/ Drops(s)
    \/ \E s \in Socket, d \in Device : Starts(s, d) \/ Offers(s, d) \/ Connects(s, d)
    \/ \E t \in tasks : Queries(t) \/ Fails(t)
    \/ \E d \in Device : Uploads(d) \/ CreatesDevice(d) \/ RemovesDevice(d)
    \/ \E d \in Device, s \in Status : Puts(d, s)
    \/ \E a \in Account, d \in Device : Grants(a, d) \/ Revokes(a, d)
    \/ Ends

AuditSpec == AuditInit /\ [][AuditNext]_auditVars

\* The database answers the queries of every kind that wait for a device.
FairAuditSpec ==
    /\ AuditSpec
    /\ \A d \in Device, o \in TaskOp \ {"connect", "insertRow", "closeRow"} :
         WF_auditVars(\E t \in TasksOn(d) : t.op = o /\ Queries(t))

-----------------------------------------------------------------------------
\* Type invariant of the gateway and of the history.
AuditTypeOK ==
    /\ TypeOK
    /\ stale \subseteq Device
    /\ mixed \subseteq Account
    /\ session \in [Account -> Socket \cup {None}]

\* A registered emulator's status is right when nothing is under way for it:
\* online if and only if the last socket that started streaming for it is open.
\* A late disconnect of a socket the emulator has replaced does not take it
\* offline, a screenshot upload that crosses nothing writes back what is right
\* (also when it brings back a deleted device), and one quiet event repairs what
\* a race, a restart, a late registration or an update that names a status left
\* wrong; an update while an event is under way leaves nothing wrong.
Settled(d) == status[d] = "absent" \/ (status[d] = "online" <=> Streaming(d))
PresenceAccurate == \A d \in Device \ stale : TasksOn(d) = {} => Settled(d)

\* The log of an account that kept to one session at a time has exactly one
\* open row while it is connected and none otherwise, whatever the deletion of
\* grants and devices takes away.
OneRowPerSession(a) ==
    IF session[a] = None THEN OpenRows(a) = {} ELSE \E i \in RowId : OpenRows(a) = {i}
SessionsAccurate == \A a \in Account \ mixed : TasksOn(a) = {} => OneRowPerSession(a)

\* Only the disconnect of the socket the map has for a device, or of one that
\* had it, takes the device offline, or an update that says so in its body: a
\* device that is streaming undisturbed stays online through everything other
\* sockets do.
StaysOnline == [][ \A d \in Device \ (stale \cup stale') :
    status[d] = "online" /\ status'[d] = "offline" =>
      ~Streaming(d) \/ PutStatus(d, "offline") ]_auditVars

\* An emulator whose socket is gone, and which no new socket replaces, is seen
\* offline in the end, unless an update of the emulator says otherwise later.
GoesOffline == \A d \in Device :
    (connections[d] # None /\ ~Streaming(d)) ~>
      (status[d] # "online" \/ Streaming(d) \/ d \in stale)

-----------------------------------------------------------------------------
(* The inductive invariants. *)

\* Tasks have the operations of their key's kind, and what the operation needs.
TasksOK == \A t \in tasks :
    /\ t.peer \in Device => t.op \in {"online", "disconnect", "offline", "findRow"} \cup ShotOp
    /\ t.peer \in Account => t.op \in {"disconnect", "findRow", "closeRow", "connect", "insertRow"}
    /\ t.op = "closeRow" => t.row \in RowId /\ t.row[1] = t.peer
    /\ t.op \in {"connect", "insertRow"} => t.dev \in Device
    /\ t.op \in ShotOp => t.seen \in Status

\* The map has no socket that has not been open.
MapOK == \A p \in Peer : connections[p] # None => sock[connections[p]] # "new"

\* What the only task under way for d is about to do to its status is right.
RightTask(t, d) ==
    /\ t.op = "online" => Streaming(d)
    /\ t.op \in {"disconnect", "offline", "findRow"} => ~Streaming(d)
    /\ t.op = "findRow" => status[d] # "online"
    /\ t.op \in ShotOp => t.op # "shotWrite" /\ Settled(d) /\ (t.seen = "online" <=> Streaming(d))

\* At most one task is under way for a device that is not stale.
PresenceInv == \A d \in Device \ stale :
    \/ TasksOn(d) = {} /\ Settled(d)
    \/ \E t \in tasks : TasksOn(d) = {t} /\ RightTask(t, d)

PresenceIInv == AuditTypeOK /\ TasksOK /\ MapOK /\ PresenceInv

\* The session of an account is on the socket the map has for it.
SessionMapped(a) == session[a] # None => connections[a] = session[a]

\* What the only task under way for an account is about to do to its rows is right.
RightRows(t, a) ==
    /\ t.op \in {"connect", "insertRow"} =>
         /\ session[a] # None /\ OpenRows(a) = {} /\ granted[a, t.dev] = "live"
    /\ t.op \in DropOp => session[a] = None
    /\ t.op \in {"disconnect", "findRow"} => \E i \in RowId \cup {None} : OpenRows(a) \subseteq {i}
    /\ t.op = "closeRow" => OpenRows(a) \subseteq {t.row}

\* At most one task is under way for an account that is not mixed.
SessionInv == \A a \in Account \ mixed :
    /\ SessionMapped(a)
    /\ \/ TasksOn(a) = {} /\ OneRowPerSession(a)
       \/ \E t \in tasks : TasksOn(a) = {t} /\ RightRows(t, a)

SessionIInv == AuditTypeOK /\ TasksOK /\ MapOK /\ SessionInv

-----------------------------------------------------------------------------
(* Claims of the repository that the gateway does not keep. *)

\* 'Emulator not found': an offer is refused unless the emulator is there to
\* receive it.  The map keeps the sockets that have closed.
OfferNeedsEmulator == [][ \A s \in Socket, d \in Device : Offer(s, d) => Streaming(d) ]_auditVars

=============================================================================
