---------------------------- MODULE GatewayProofs ---------------------------
(* Proofs that the presence of emulators and the log of sessions are right,  *)
(* for every set of devices, accounts, sockets and rows.                     *)
EXTENDS GatewayAudit, TLAPS

USE DEF DropOp, ShotOp, Status

\* Types, the kinds of tasks and the map: what the events and queries keep.
Base == AuditTypeOK /\ TasksOK /\ MapOK

LEMMA NewTaskType ==
    ASSUME NEW op \in TaskOp, NEW p \in Peer, NEW s \in Socket \cup {None},
           NEW d \in Device \cup {None}
    PROVE  /\ NewTask(op, p, s, d) \in Task
           /\ NewTask(op, p, s, d).op = op /\ NewTask(op, p, s, d).peer = p
           /\ NewTask(op, p, s, d).dev = d
  BY DEF NewTask, Task

LEMMA EventsBase ==
    ASSUME Base, NEW s \in Socket,
           \/ Open(s) \/ Drop(s)
           \/ \E d \in Device : StartStreaming(s, d) \/ Offer(s, d) \/ Connect(s, d)
    PROVE  TypeOK' /\ TasksOK' /\ MapOK'
  <1>. USE DEF Base, AuditTypeOK
  <1>1. CASE Open(s)
    BY <1>1 DEF Open, TypeOK, TasksOK, MapOK
  <1>2. CASE Drop(s)
    <2>1. ASSUME NEW p \in SpokenForBy(s)
          PROVE  /\ NewTask("disconnect", p, s, None) \in Task
                 /\ NewTask("disconnect", p, s, None).op = "disconnect"
      BY NewTaskType DEF SpokenForBy, TaskOp
    <2>2. TypeOK'
      BY <1>2, <2>1 DEF Drop, TypeOK
    <2>3. TasksOK'
      BY <1>2, <2>1 DEF Drop, TasksOK
    <2>4. MapOK'
      BY <1>2 DEF Drop, MapOK, TypeOK
    <2>. QED
      BY <2>2, <2>3, <2>4
  <1>3. ASSUME NEW d \in Device, StartStreaming(s, d)
        PROVE  TypeOK' /\ TasksOK' /\ MapOK'
    <2>. DEFINE t == NewTask("online", d, s, None)
    <2>1. t \in Task /\ t.op = "online" /\ t.peer = d
      BY NewTaskType DEF TaskOp, Peer
    <2>. HIDE DEF t
    <2>2. tasks' = tasks \cup {t}
      BY <1>3 DEF StartStreaming, t
    <2>3. d \notin Account
      BY GatewayAssumption
    <2>. QED
      BY <1>3, <2>1, <2>2, <2>3 DEF StartStreaming, TypeOK, TasksOK, MapOK, Peer
  <1>4. ASSUME NEW d \in Device, Offer(s, d)
        PROVE  TypeOK' /\ TasksOK' /\ MapOK'
    BY <1>4 DEF Offer, TypeOK, TasksOK, MapOK, Peer
  <1>5. ASSUME NEW d \in Device, Connect(s, d)
        PROVE  TypeOK' /\ TasksOK' /\ MapOK'
    <2>. DEFINE t == NewTask("connect", Owner[s], s, d)
    <2>1. t \in Task /\ t.op = "connect" /\ t.peer = Owner[s] /\ t.dev = d
      BY NewTaskType, <1>5 DEF Connect, TaskOp, Peer
    <2>. HIDE DEF t
    <2>2. tasks' = tasks \cup {t}
      BY <1>5 DEF Connect, t
    <2>3. Owner[s] \in Account /\ Owner[s] \notin Device
      BY <1>5, GatewayAssumption DEF Connect
    <2>. QED
      BY <1>5, <2>1, <2>2, <2>3 DEF Connect, TypeOK, TasksOK, MapOK
  <1>. QED
    BY <1>1, <1>2, <1>3, <1>4, <1>5

\* A query that leaves t done, or waiting for another query it may wait for.
LEMMA ContinueBase ==
    ASSUME Base, NEW t \in tasks, NEW op \in TaskOp, NEW i \in RowId \cup {None},
           Continue(t, [t EXCEPT !.op = op, !.row = i]),
           t.peer \in Device => op \in {"online", "disconnect", "offline", "findRow"} \cup ShotOp,
           t.peer \in Account => op \in {"disconnect", "findRow", "closeRow", "connect", "insertRow"},
           op = "closeRow" => i \in RowId /\ i[1] = t.peer,
           op \in {"connect", "insertRow"} => t.dev \in Device,
           op \in ShotOp => t.seen \in Status
    PROVE  tasks' \in SUBSET Task /\ TasksOK'
  <1>. DEFINE u == [t EXCEPT !.op = op, !.row = i]
  <1>1. t \in Task
    BY DEF Base, AuditTypeOK, TypeOK
  <1>2. u \in Task /\ u.op = op /\ u.peer = t.peer /\ u.row = i /\ u.dev = t.dev /\ u.seen = t.seen
    BY <1>1 DEF Task
  <1>. HIDE DEF u
  <1>3. tasks' = (tasks \ {t}) \cup {u}
    BY DEF Continue, u
  <1>. QED
    BY <1>2, <1>3 DEF Base, AuditTypeOK, TypeOK, TasksOK

LEMMA QueriesBase ==
    ASSUME Base, NEW t \in tasks, Query(t) \/ TaskFails(t)
    PROVE  TypeOK' /\ TasksOK' /\ MapOK'
  <1>. USE DEF Base, AuditTypeOK
  <1>0. t \in Task /\ t.row \in RowId \cup {None}
    BY DEF TypeOK, Task
  <1>1. ASSUME NEW op \in TaskOp
        PROVE  [t EXCEPT !.op = op] = [t EXCEPT !.op = op, !.row = t.row]
    BY <1>0 DEF Task
  <1>2. CASE LookUp(t)
    <2>0. PICK op \in {"offline", "findRow"} :
               Continue(t, [t EXCEPT !.op = op]) /\ (t.peer \in Account => op = "findRow")
      BY <1>2, GatewayAssumption DEF LookUp, Registered
    <2>1. tasks' \in SUBSET Task /\ TasksOK'
      <3>1. Continue(t, [t EXCEPT !.op = op, !.row = t.row])
        BY <1>1, <2>0 DEF TaskOp
      <3>. QED
        BY <1>0, <2>0, <3>1, ContinueBase DEF TaskOp
    <2>. QED
      BY <1>2, <2>1 DEF LookUp, TypeOK, MapOK
  <1>3. CASE FindRow(t)
    <2>1. CASE Finish(t)
      BY <1>3, <2>1 DEF FindRow, Finish, TypeOK, TasksOK, MapOK
    <2>2. ASSUME NEW i \in OpenRows(t.peer),
                 Continue(t, [t EXCEPT !.op = "closeRow", !.row = i])
          PROVE  TypeOK' /\ TasksOK' /\ MapOK'
      <3>1. i \in RowId /\ i[1] = t.peer /\ i[1] \in Account /\ t.peer \notin Device
        BY GatewayAssumption DEF OpenRows
      <3>2. tasks' \in SUBSET Task /\ TasksOK'
        BY <1>0, <2>2, <3>1, ContinueBase DEF TaskOp
      <3>. QED
        BY <1>3, <3>2 DEF FindRow, TypeOK, MapOK
    <2>. QED
      BY <1>3, <2>1, <2>2 DEF FindRow
  <1>4. CASE FindGrant(t)
    <2>1. CASE Finish(t)
      BY <1>4, <2>1 DEF FindGrant, Finish, TypeOK, TasksOK, MapOK
    <2>2. CASE Continue(t, [t EXCEPT !.op = "insertRow"])
      <3>1. t.peer \notin Device /\ t.dev \in Device
        BY <1>4 DEF FindGrant, TasksOK
      <3>2. Continue(t, [t EXCEPT !.op = "insertRow", !.row = t.row])
        BY <1>1, <2>2 DEF TaskOp
      <3>3. tasks' \in SUBSET Task /\ TasksOK'
        BY <1>0, <3>1, <3>2, ContinueBase DEF TaskOp
      <3>. QED
        BY <1>4, <3>3 DEF FindGrant, TypeOK, MapOK
    <2>. QED
      BY <1>4, <2>1, <2>2 DEF FindGrant
  <1>5. CASE ShotLoad(t)
    <2>1. t.seen \in Status /\ t.peer \notin Account
      BY <1>5 DEF ShotLoad, TasksOK
    <2>2. CASE Finish(t)
      BY <1>5, <2>2 DEF ShotLoad, Finish, TypeOK, TasksOK, MapOK
    <2>3. ASSUME NEW op \in {"shotInsert", "shotWrite"}, Continue(t, [t EXCEPT !.op = op])
          PROVE  TypeOK' /\ TasksOK' /\ MapOK'
      <3>1. Continue(t, [t EXCEPT !.op = op, !.row = t.row])
        BY <1>1, <2>3 DEF TaskOp
      <3>2. tasks' \in SUBSET Task /\ TasksOK'
        BY <1>0, <2>1, <3>1, ContinueBase DEF TaskOp
      <3>. QED
        BY <1>5, <3>2 DEF ShotLoad, TypeOK, MapOK
    <2>. QED
      BY <1>5, <2>2, <2>3 DEF ShotLoad
  <1>6. CASE SetOnline(t) \/ SetOffline(t) \/ ShotWrite(t) \/ ShotInsert(t)
    <2>1. t.op \in ShotOp => t.seen \in Status
      BY DEF TasksOK
    <2>. QED
      BY <1>0, <1>6, <2>1 DEF SetOnline, SetOffline, ShotWrite, ShotInsert, SetStatus, Finish,
         TypeOK, TasksOK, MapOK
  <1>7. CASE CloseRow(t) \/ InsertRow(t) \/ TaskFails(t)
    <2>1. rows' \in [RowId -> {"new", "open", "closed", "gone"}]
      <3>1. CASE CloseRow(t) \/ TaskFails(t)
        BY <3>1 DEF CloseRow, TaskFails, TypeOK
      <3>2. CASE InsertRow(t)
        BY <3>2 DEF InsertRow, TypeOK
      <3>. QED
        BY <1>7, <3>1, <3>2
    <2>2. tasks' = tasks \ {t} /\ UNCHANGED <<sock, connections, status, granted>>
      BY <1>7 DEF CloseRow, InsertRow, TaskFails, Finish
    <2>3. TypeOK'
      BY <2>1, <2>2 DEF TypeOK
    <2>4. TasksOK' /\ MapOK'
      BY <2>2 DEF TasksOK, MapOK
    <2>. QED
      BY <2>3, <2>4
  <1>. QED
    BY <1>2, <1>3, <1>4, <1>5, <1>6, <1>7 DEF Query

LEMMA DeletesRows ==
    ASSUME TypeOK, NEW G, DeleteGrants(G)
    PROVE  /\ granted' \in [Account \X Device -> {"new", "live", "gone"}]
           /\ rows' \in [RowId -> {"new", "open", "closed", "gone"}]
  BY DEF TypeOK, DeleteGrants

LEMMA RequestsBase ==
    ASSUME Base, NEW d \in Device,
           \/ Upload(d) \/ CreateDevice(d) \/ RemoveDevice(d)
           \/ \E a \in Account : Grant(a, d) \/ Revoke(a, d)
    PROVE  TypeOK' /\ TasksOK' /\ MapOK'
  <1>. USE DEF Base, AuditTypeOK
  <1>1. CASE Upload(d)
    <2>. DEFINE t == [NewTask("shotLoad", d, None, None) EXCEPT !.seen = status[d]]
    <2>1. t \in Task /\ t.op = "shotLoad" /\ t.peer = d /\ t.seen \in Status
      BY <1>1 DEF Upload, Registered, TypeOK, NewTask, Task, TaskOp, Peer
    <2>. HIDE DEF t
    <2>2. tasks' = tasks \cup {t} /\ UNCHANGED <<sock, connections, status, granted, rows>>
      BY <1>1 DEF Upload, t
    <2>3. d \notin Account
      BY GatewayAssumption
    <2>. QED
      BY <2>1, <2>2, <2>3 DEF TypeOK, TasksOK, MapOK
  <1>2. CASE CreateDevice(d)
    BY <1>2 DEF CreateDevice, TypeOK, TasksOK, MapOK
  <1>3. CASE RemoveDevice(d)
    BY <1>3, DeletesRows DEF RemoveDevice, TypeOK, TasksOK, MapOK
  <1>4. ASSUME NEW a \in Account, Grant(a, d)
        PROVE  TypeOK' /\ TasksOK' /\ MapOK'
    BY <1>4 DEF Grant, TypeOK, TasksOK, MapOK
  <1>5. ASSUME NEW a \in Account, Revoke(a, d)
        PROVE  TypeOK' /\ TasksOK' /\ MapOK'
    BY <1>5, DeletesRows DEF Revoke, TypeOK, TasksOK, MapOK
  <1>. QED
    BY <1>1, <1>2, <1>3, <1>4, <1>5

LEMMA BaseStep ==
    ASSUME Base, [AuditNext]_auditVars
    PROVE  Base'
  <1>. USE DEF Base
  <1>1. ASSUME NEW s \in Socket, Opens(s) \/ Drops(s)
        PROVE  Base'
    BY <1>1, EventsBase DEF Opens, Drops, Touch, AuditTypeOK, Peer, SpokenForBy
  <1>2. ASSUME NEW s \in Socket, NEW d \in Device, Starts(s, d) \/ Offers(s, d) \/ Connects(s, d)
        PROVE  Base'
    <2>1. TypeOK' /\ TasksOK' /\ MapOK'
      BY <1>2, EventsBase DEF Starts, Offers, Connects
    <2>2. CASE Starts(s, d)
      BY <2>1, <2>2 DEF Starts, Touch, AuditTypeOK
    <2>3. CASE Offers(s, d) \/ Connects(s, d)
      BY <2>1, <2>3 DEF Offers, Connects, Offer, Connect, AuditTypeOK
    <2>. QED
      BY <1>2, <2>2, <2>3
  <1>3. ASSUME NEW t \in tasks, Queries(t) \/ Fails(t)
        PROVE  Base'
    <2>1. t.op = "online" => t.peer \in Device
      BY DEF TasksOK, AuditTypeOK, TypeOK, Task, Peer
    <2>. QED
      BY <1>3, <2>1, QueriesBase DEF Queries, Fails, AuditTypeOK
  <1>4. CASE Ends
    <2>1. Dies
      BY <1>4 DEF Ends, Restart, Unhandled
    <2>. QED
      BY <1>4, <2>1 DEF Ends, Dies, AuditTypeOK, TypeOK, TasksOK, MapOK
  <1>6. ASSUME NEW d \in Device,
               \/ Uploads(d) \/ CreatesDevice(d) \/ RemovesDevice(d)
               \/ \E a \in Account : Grants(a, d) \/ Revokes(a, d)
        PROVE  Base'
    <2>1. TypeOK' /\ TasksOK' /\ MapOK'
      BY <1>6, RequestsBase DEF Uploads, CreatesDevice, RemovesDevice, Grants, Revokes
    <2>. QED
      BY <1>6, <2>1 DEF Uploads, CreatesDevice, RemovesDevice, Grants, Revokes, Disturbed, AuditTypeOK
  <1>7. ASSUME NEW d \in Device, NEW v \in Status, Puts(d, v)
        PROVE  Base'
    BY <1>7 DEF Puts, PutStatus, AuditTypeOK, TypeOK, TasksOK, MapOK
  <1>5. CASE UNCHANGED auditVars
    BY <1>5 DEF auditVars, vars, AuditTypeOK, TypeOK, TasksOK, MapOK
  <1>. QED
    BY <1>1, <1>2, <1>3, <1>4, <1>5, <1>6, <1>7 DEF AuditNext

-----------------------------------------------------------------------------
\* What the invariant says of one device.
PresenceOn(d) ==
    \/ TasksOn(d) = {} /\ Settled(d)
    \/ \E t \in tasks : TasksOn(d) = {t} /\ RightTask(t, d)

\* A step that leaves the tasks, the status and the socket of d alone.
LEMMA Untouched ==
    ASSUME NEW d \in Device, PresenceOn(d),
           TasksOn(d)' = TasksOn(d), status'[d] = status[d], Streaming(d)' <=> Streaming(d)
    PROVE  PresenceOn(d)'
  <1>1. \A t \in tasks : TasksOn(d) = {t} => t \in tasks'
    BY DEF TasksOn
  <1>2. Settled(d)' <=> Settled(d)
    BY DEF Settled
  <1>3. \A t : RightTask(t, d) => RightTask(t, d)'
    BY <1>2 DEF RightTask
  <1>. QED
    BY <1>1, <1>2, <1>3 DEF PresenceOn

\* A step that makes t the only task of d.
LEMMA OnlyTask ==
    ASSUME NEW d \in Device, NEW t, t \in tasks', t.peer = d, TasksOn(d)' \subseteq {t},
           RightTask(t, d)'
    PROVE  PresenceOn(d)'
  <1>1. TasksOn(d)' = {t}
    BY DEF TasksOn
  <1>. QED
    BY <1>1 DEF PresenceOn

LEMMA EventsPresence ==
    ASSUME PresenceIInv, NEW s \in Socket,
           \/ Opens(s) \/ Drops(s)
           \/ \E e \in Device : Starts(s, e) \/ Offers(s, e) \/ Connects(s, e),
           NEW d \in Device, d \notin stale'
    PROVE  PresenceOn(d)'
  <1>. USE DEF PresenceIInv
  <1>0. d \notin stale => PresenceOn(d)
    BY DEF PresenceInv, PresenceOn
  <1>1. CASE Opens(s)
    <2>1. TasksOn(d)' = TasksOn(d) /\ status'[d] = status[d] /\ (Streaming(d)' <=> Streaming(d))
      BY <1>1 DEF Opens, Open, TasksOn, Streaming, MapOK, AuditTypeOK, TypeOK, Peer
    <2>. QED
      BY <1>0, <1>1, <2>1, Untouched DEF Opens
  <1>2. CASE Drops(s)
    <2>1. CASE d \in SpokenForBy(s)
      <3>. DEFINE t == NewTask("disconnect", d, s, None)
      <3>1. t.op = "disconnect" /\ t.peer = d
        BY NewTaskType DEF TaskOp, Peer
      <3>2. t \in tasks'
        BY <1>2, <2>1 DEF Drops, Drop
      <3>3. TasksOn(d) = {}
        BY <1>2, <2>1 DEF Drops, Touch
      <3>4. \A p \in SpokenForBy(s) : NewTask("disconnect", p, s, None).peer = p
        BY DEF NewTask
      <3>5. TasksOn(d)' \subseteq {t}
        BY <1>2, <3>3, <3>4 DEF Drops, Drop, TasksOn
      <3>6. ~Streaming(d)'
        BY <1>2, <2>1 DEF Drops, Drop, Streaming, SpokenForBy, AuditTypeOK, TypeOK
      <3>. HIDE DEF t
      <3>7. RightTask(t, d)'
        BY <3>1, <3>6 DEF RightTask
      <3>. QED
        BY <3>1, <3>2, <3>5, <3>7, OnlyTask
    <2>2. CASE d \notin SpokenForBy(s)
      <3>1. d \notin stale
        BY <1>2, <2>2 DEF Drops, Touch
      <3>2. \A p \in SpokenForBy(s) : NewTask("disconnect", p, s, None).peer = p
        BY DEF NewTask
      <3>3. TasksOn(d)' = TasksOn(d)
        BY <1>2, <2>2, <3>2 DEF Drops, Drop, TasksOn
      <3>4. status'[d] = status[d] /\ (Streaming(d)' <=> Streaming(d))
        BY <1>2, <2>2 DEF Drops, Drop, Streaming, SpokenForBy, AuditTypeOK, TypeOK, Peer
      <3>. QED
        BY <1>0, <3>1, <3>3, <3>4, Untouched
    <2>. QED
      BY <2>1, <2>2
  <1>3. ASSUME NEW e \in Device, Starts(s, e)
        PROVE  PresenceOn(d)'
    <2>. DEFINE t == NewTask("online", e, s, None)
    <2>1. t.op = "online" /\ t.peer = e
      BY NewTaskType DEF TaskOp, Peer
    <2>2. tasks' = tasks \cup {t}
      BY <1>3 DEF Starts, StartStreaming
    <2>. HIDE DEF t
    <2>3. CASE e = d
      <3>1. TasksOn(d)' \subseteq {t} /\ t \in tasks'
        BY <1>3, <2>2, <2>3 DEF Starts, Touch, TasksOn
      <3>2. Streaming(d)'
        BY <1>3, <2>3, GatewayAssumption
           DEF Starts, StartStreaming, Streaming, AuditTypeOK, TypeOK, Peer
      <3>3. RightTask(t, d)'
        BY <2>1, <3>2 DEF RightTask
      <3>. QED
        BY <2>1, <2>3, <3>1, <3>3, OnlyTask
    <2>4. CASE e # d
      <3>1. d \notin stale
        BY <1>3, <2>4 DEF Starts, Touch
      <3>2. TasksOn(d)' = TasksOn(d)
        BY <2>1, <2>2, <2>4 DEF TasksOn
      <3>3. status'[d] = status[d] /\ (Streaming(d)' <=> Streaming(d))
        BY <1>3, <2>4 DEF Starts, StartStreaming, Streaming, AuditTypeOK, TypeOK, Peer
      <3>. QED
        BY <1>0, <3>1, <3>2, <3>3, Untouched
    <2>. QED
      BY <2>3, <2>4
  <1>4. ASSUME NEW e \in Device, Offers(s, e)
        PROVE  PresenceOn(d)'
    <2>1. Owner[s] # d
      BY <1>4, GatewayAssumption DEF Offers, Offer
    <2>2. TasksOn(d)' = TasksOn(d) /\ status'[d] = status[d] /\ (Streaming(d)' <=> Streaming(d))
      BY <1>4, <2>1 DEF Offers, Offer, TasksOn, Streaming, AuditTypeOK, TypeOK, Peer
    <2>. QED
      BY <1>0, <1>4, <2>2, Untouched DEF Offers
  <1>5. ASSUME NEW e \in Device, Connects(s, e)
        PROVE  PresenceOn(d)'
    <2>. DEFINE t == NewTask("connect", Owner[s], s, e)
    <2>1. t.peer = Owner[s]
      BY DEF NewTask
    <2>2. tasks' = tasks \cup {t}
      BY <1>5 DEF Connects, Connect
    <2>. HIDE DEF t
    <2>3. Owner[s] # d
      BY <1>5, GatewayAssumption DEF Connects, Connect
    <2>4. TasksOn(d)' = TasksOn(d)
      BY <2>1, <2>2, <2>3 DEF TasksOn
    <2>5. status'[d] = status[d] /\ (Streaming(d)' <=> Streaming(d))
      BY <1>5 DEF Connects, Connect, Streaming
    <2>. QED
      BY <1>0, <1>5, <2>4, <2>5, Untouched DEF Connects
  <1>. QED
    BY <1>1, <1>2, <1>3, <1>4, <1>5

\* What a query or a failure of t does to the tasks of another key.
LEMMA OthersKept ==
    ASSUME TypeOK, NEW t \in tasks, Query(t) \/ TaskFails(t), NEW p, t.peer # p
    PROVE  TasksOn(p)' = TasksOn(p)
  <1>. USE DEF Finish, Continue
  <1>1. t \in Task
    BY DEF TypeOK
  <1>2. \A op : [t EXCEPT !.op = op].peer = t.peer
    BY <1>1 DEF Task
  <1>3. \A op, i : [t EXCEPT !.op = op, !.row = i].peer = t.peer
    BY <1>1 DEF Task
  <1>4. /\ \A x \in tasks : x = t \/ x \in tasks'
        /\ \A x \in tasks' : x \in tasks \/ x.peer = t.peer
    <2>1. CASE LookUp(t) \/ FindGrant(t) \/ ShotLoad(t)
      BY <1>2, <2>1 DEF LookUp, FindGrant, ShotLoad
    <2>2. CASE FindRow(t)
      BY <1>3, <2>2 DEF FindRow
    <2>3. CASE tasks' = tasks \ {t}
      BY <2>3
    <2>. QED
      BY <2>1, <2>2, <2>3 DEF Query, TaskFails, SetOnline, SetOffline, CloseRow, InsertRow,
         ShotWrite, ShotInsert
  <1>. QED
    BY <1>4 DEF TasksOn

LEMMA QueriesPresence ==
    ASSUME PresenceIInv, NEW t \in tasks, Queries(t) \/ Fails(t), NEW d \in Device, d \notin stale'
    PROVE  PresenceOn(d)'
  <1>. USE DEF PresenceIInv, Finish, Continue
  <1>1. d \notin stale /\ PresenceOn(d)
    BY DEF PresenceInv, PresenceOn, Queries, Fails
  <1>2. t \in Task
    BY DEF AuditTypeOK, TypeOK
  <1>0. Streaming(d)' <=> Streaming(d)
    BY DEF Queries, Fails, Query, TaskFails, SetOnline, SetOffline, CloseRow, InsertRow, LookUp,
       FindRow, FindGrant, ShotLoad, ShotWrite, ShotInsert, Streaming
  <1>3. CASE t.peer # d
    <2>1. TasksOn(d)' = TasksOn(d)
      BY <1>3, OthersKept DEF Queries, Fails, AuditTypeOK
    <2>2. status'[d] = status[d]
      BY <1>2, <1>3 DEF Queries, Fails, Query, TaskFails, SetOnline, SetOffline, CloseRow, InsertRow,
           LookUp, FindRow, FindGrant, ShotLoad, ShotWrite, ShotInsert, SetStatus, AuditTypeOK,
           TypeOK, Task
    <2>. QED
      BY <1>0, <1>1, <2>1, <2>2, Untouched
  <1>4. CASE t.peer = d
    <2>1. TasksOn(d) = {t} /\ RightTask(t, d)
      BY <1>1, <1>4 DEF PresenceOn, TasksOn
    <2>2. t.op \in {"online", "disconnect", "offline", "findRow"} \cup ShotOp
      BY <1>4 DEF TasksOK
    <2>3. status[d] \in Status \cup {"absent"} /\ (t.op \in ShotOp => t.seen \in Status)
      BY DEF AuditTypeOK, TypeOK, TasksOK
    <2>4. ASSUME tasks' = tasks \ {t}, Settled(d)'
          PROVE  PresenceOn(d)'
      BY <2>1, <2>4 DEF PresenceOn, TasksOn
    <2>5. CASE SetOnline(t) \/ SetOffline(t)
      BY <1>0, <1>4, <2>1, <2>4, <2>5
         DEF SetOnline, SetOffline, SetStatus, Settled, RightTask, AuditTypeOK, TypeOK
    <2>6. CASE LookUp(t)
      <3>0. PICK op : /\ op = (IF status[d] # "absent" THEN "offline" ELSE "findRow")
                      /\ tasks' = (tasks \ {t}) \cup {[t EXCEPT !.op = op]}
                      /\ status' = status
        BY <1>4, <2>6 DEF Registered, LookUp
      <3>. DEFINE u == [t EXCEPT !.op = op]
      <3>1. /\ u.op = (IF status[d] # "absent" THEN "offline" ELSE "findRow") /\ u.peer = d
            /\ tasks' = (tasks \ {t}) \cup {u} /\ status' = status
        BY <1>2, <1>4, <3>0 DEF Task
      <3>. HIDE DEF u
      <3>2. TasksOn(d)' \subseteq {u} /\ u \in tasks'
        BY <2>1, <3>1 DEF TasksOn
      <3>3. RightTask(u, d)'
        BY <1>0, <2>1, <2>6, <3>1 DEF LookUp, RightTask
      <3>. QED
        BY <3>1, <3>2, <3>3, OnlyTask
    <2>7. CASE FindRow(t)
      <3>1. OpenRows(t.peer) = {}
        BY <1>4, GatewayAssumption DEF OpenRows
      <3>2. tasks' = tasks \ {t} /\ status' = status
        BY <2>7, <3>1 DEF FindRow
      <3>. QED
        BY <1>0, <2>1, <2>4, <2>7, <3>2 DEF FindRow, RightTask, Settled
    <2>8. CASE ShotLoad(t)
      <3>1. CASE tasks' = tasks \ {t}
        BY <1>0, <2>1, <2>4, <2>8, <3>1 DEF ShotLoad, RightTask, Settled
      <3>2. CASE tasks' # tasks \ {t}
        <4>. DEFINE u == [t EXCEPT !.op = "shotInsert"]
        <4>1. status[d] = "absent"
          BY <1>4, <2>1, <2>3, <2>8, <3>2 DEF ShotLoad, RightTask, Settled
        <4>2. tasks' = (tasks \ {t}) \cup {u} /\ status' = status
          BY <1>4, <2>8, <3>2, <4>1 DEF ShotLoad
        <4>3. u.op = "shotInsert" /\ u.peer = d /\ u.seen = t.seen
          BY <1>2, <1>4 DEF Task
        <4>. HIDE DEF u
        <4>4. TasksOn(d)' \subseteq {u} /\ u \in tasks'
          BY <2>1, <4>2 DEF TasksOn
        <4>5. RightTask(u, d)'
          BY <1>0, <2>1, <2>8, <4>2, <4>3 DEF ShotLoad, RightTask, Settled
        <4>. QED
          BY <4>3, <4>4, <4>5, OnlyTask
      <3>. QED
        BY <3>1, <3>2
    <2>9. CASE ShotWrite(t) \/ ShotInsert(t)
      BY <1>0, <1>4, <2>1, <2>3, <2>4, <2>9
         DEF ShotWrite, ShotInsert, SetStatus, Settled, RightTask, AuditTypeOK, TypeOK
    <2>10. CASE Fails(t)
      <3>1. t.op \in ShotOp /\ tasks' = tasks \ {t} /\ status' = status
        BY <1>4, <2>2, <2>10 DEF Fails, TaskFails
      <3>. QED
        BY <1>0, <2>1, <2>4, <3>1 DEF RightTask, Settled
    <2>. QED
      BY <2>2, <2>5, <2>6, <2>7, <2>8, <2>9, <2>10
         DEF Queries, Query, CloseRow, FindGrant, InsertRow
  <1>. QED
    BY <1>3, <1>4

LEMMA RequestsPresence ==
    ASSUME PresenceIInv, NEW e \in Device, NEW d \in Device, d \notin stale',
           \/ Uploads(e) \/ CreatesDevice(e) \/ RemovesDevice(e)
           \/ \E a \in Account : Grants(a, e) \/ Revokes(a, e)
    PROVE  PresenceOn(d)'
  <1>. USE DEF PresenceIInv
  <1>1. d \notin stale /\ PresenceOn(d)
    BY DEF Uploads, CreatesDevice, RemovesDevice, Grants, Revokes, PresenceInv, PresenceOn
  <1>2. Streaming(d)' <=> Streaming(d)
    BY DEF Uploads, Upload, CreatesDevice, CreateDevice, RemovesDevice, RemoveDevice, Grants, Grant,
       Revokes, Revoke, Streaming
  <1>3. CASE Uploads(e)
    <2>0. PICK t : t = [NewTask("shotLoad", e, None, None) EXCEPT !.seen = status[e]]
      OBVIOUS
    <2>1. t.op = "shotLoad" /\ t.peer = e /\ t.seen = status[e]
      BY <2>0 DEF NewTask
    <2>2. tasks' = tasks \cup {t} /\ status' = status
      BY <1>3, <2>0 DEF Uploads, Upload
    <2>3. CASE e = d
      <3>1. TasksOn(d) = {} /\ Settled(d) /\ status[d] # "absent"
        BY <1>1, <1>3, <2>3 DEF Uploads, Upload, Registered, PresenceOn
      <3>2. TasksOn(d)' \subseteq {t} /\ t \in tasks'
        BY <2>2, <3>1 DEF TasksOn
      <3>3. RightTask(t, d)'
        BY <1>2, <2>1, <2>2, <2>3, <3>1 DEF RightTask, Settled
      <3>. QED
        BY <2>1, <2>3, <3>2, <3>3, OnlyTask
    <2>4. CASE e # d
      <3>1. TasksOn(d)' = TasksOn(d)
        BY <2>1, <2>2, <2>4 DEF TasksOn
      <3>. QED
        BY <1>1, <1>2, <2>2, <3>1, Untouched
    <2>. QED
      BY <2>3, <2>4
  <1>4. CASE UNCHANGED tasks /\ status'[d] = status[d]
    <2>1. TasksOn(d)' = TasksOn(d)
      BY <1>4 DEF TasksOn
    <2>. QED
      BY <1>1, <1>2, <1>4, <2>1, Untouched
  <1>5. CASE CreatesDevice(d)
    <2>1. /\ tasks' = tasks /\ status[d] = "absent" /\ status'[d] = "offline"
          /\ Streaming(d) => \E t \in TasksOn(d) : t.op = "online"
      BY <1>5 DEF CreatesDevice, CreateDevice, AuditTypeOK, TypeOK
    <2>2. TasksOn(d)' = TasksOn(d)
      BY <2>1 DEF TasksOn
    <2>3. CASE TasksOn(d) = {}
      BY <1>2, <2>1, <2>2, <2>3 DEF PresenceOn, Settled
    <2>4. ASSUME NEW t \in tasks, TasksOn(d) = {t}, RightTask(t, d)
          PROVE  PresenceOn(d)'
      <3>1. t.op \in ShotOp => t.seen \in Status
        BY DEF TasksOK
      <3>2. RightTask(t, d)'
        BY <1>2, <2>1, <2>4, <3>1 DEF RightTask, Settled
      <3>. QED
        BY <2>1, <2>2, <2>4, <3>2 DEF PresenceOn
    <2>. QED
      BY <1>1, <2>3, <2>4 DEF PresenceOn
  <1>6. CASE RemovesDevice(d)
    <2>1. tasks' = tasks /\ status'[d] = "absent"
      BY <1>6 DEF RemovesDevice, RemoveDevice, AuditTypeOK, TypeOK
    <2>2. TasksOn(d)' = TasksOn(d)
      BY <2>1 DEF TasksOn
    <2>3. \A t \in tasks : RightTask(t, d) => RightTask(t, d)'
      BY <1>2, <2>1 DEF RightTask, Settled
    <2>. QED
      BY <1>1, <2>1, <2>2, <2>3 DEF PresenceOn, Settled
  <1>. QED
    BY <1>3, <1>4, <1>5, <1>6 DEF CreatesDevice, CreateDevice, RemovesDevice, RemoveDevice, Grants,
       Grant, Revokes, Revoke, AuditTypeOK, TypeOK

\* An update that names a status makes its device stale, or leaves the device
\* to the one event under way for it, which will write the status.
LEMMA PutsPresence ==
    ASSUME PresenceIInv, NEW e \in Device, NEW v \in Status, Puts(e, v),
           NEW d \in Device, d \notin stale'
    PROVE  PresenceOn(d)'
  <1>. USE DEF PresenceIInv
  <1>1. d \notin stale /\ PresenceOn(d)
    BY DEF Puts, PresenceInv, PresenceOn
  <1>2. /\ TasksOn(d)' = TasksOn(d) /\ tasks' = tasks /\ (Streaming(d)' <=> Streaming(d))
        /\ status'[d] = IF d = e THEN v ELSE status[d]
    BY DEF Puts, PutStatus, TasksOn, Streaming, AuditTypeOK, TypeOK
  <1>3. CASE status'[d] = status[d]
    BY <1>1, <1>2, <1>3, Untouched
  <1>4. CASE status'[d] # status[d]
    <2>1. PICK u \in TasksOn(d) : Deciding(u)
      BY <1>2, <1>4 DEF Puts
    <2>2. PICK t \in tasks : TasksOn(d) = {t} /\ RightTask(t, d)
      BY <1>1, <2>1 DEF PresenceOn
    <2>3. t.op \in {"online", "disconnect", "offline"}
      BY <2>1, <2>2 DEF Deciding
    <2>4. RightTask(t, d)'
      BY <1>2, <2>2, <2>3 DEF RightTask, ShotOp
    <2>. QED
      BY <1>2, <2>2, <2>4 DEF PresenceOn
  <1>. QED
    BY <1>3, <1>4

LEMMA PresenceStep ==
    ASSUME PresenceIInv, [AuditNext]_auditVars
    PROVE  PresenceIInv'
  <1>1. Base'
    BY BaseStep DEF PresenceIInv, Base
  <1>2. ASSUME NEW d \in Device, d \notin stale'
        PROVE  PresenceOn(d)'
    <2>1. CASE \E s \in Socket : \/ Opens(s) \/ Drops(s)
                                 \/ \E e \in Device : Starts(s, e) \/ Offers(s, e) \/ Connects(s, e)
      BY <1>2, <2>1, EventsPresence
    <2>2. CASE \E t \in tasks : Queries(t) \/ Fails(t)
      BY <1>2, <2>2, QueriesPresence
    <2>3. CASE Ends
      <3>1. status[d] # "online" /\ Dies
        BY <1>2, <2>3 DEF Ends, Restart, Unhandled
      <3>2. ~Streaming(d)' /\ TasksOn(d)' = {}
        BY <3>1 DEF Dies, Streaming, TasksOn, Peer
      <3>. QED
        BY <3>1, <3>2 DEF Dies, PresenceOn, Settled
    <2>5. CASE \E e \in Device : \/ Uploads(e) \/ CreatesDevice(e) \/ RemovesDevice(e)
                                 \/ \E a \in Account : Grants(a, e) \/ Revokes(a, e)
      BY <1>2, <2>5, RequestsPresence
    <2>6. CASE \E e \in Device, v \in Status : Puts(e, v)
      BY <1>2, <2>6, PutsPresence
    <2>4. CASE UNCHANGED auditVars
      <3>1. d \notin stale /\ TasksOn(d)' = TasksOn(d) /\ status'[d] = status[d]
            /\ (Streaming(d)' <=> Streaming(d))
        BY <1>2, <2>4 DEF auditVars, vars, TasksOn, Streaming
      <3>. QED
        BY <3>1, Untouched DEF PresenceIInv, PresenceInv, PresenceOn
    <2>. QED
      BY <2>1, <2>2, <2>3, <2>4, <2>5, <2>6 DEF AuditNext
  <1>. QED
    BY <1>1, <1>2 DEF PresenceIInv, PresenceInv, Base, PresenceOn

LEMMA PresenceInit ==
    ASSUME AuditInit
    PROVE  PresenceIInv
  BY DEF AuditInit, Init, PresenceIInv, AuditTypeOK, TypeOK, TasksOK, MapOK, PresenceInv,
     TasksOn, Settled, Peer

\* The tasks of the gateway, the map and the presence of every device are
\* as PresenceIInv says in every state.
THEOREM PresenceInductive == AuditSpec => []PresenceIInv
  BY PresenceInit, PresenceStep, PTL DEF AuditSpec

\* The variables of the gateway and of its history keep their types.
THEOREM GatewayTypeCorrect == AuditSpec => []AuditTypeOK
  <1>1. PresenceIInv => AuditTypeOK
    BY DEF PresenceIInv
  <1>. QED
    BY <1>1, PresenceInductive, PTL

\* For any number of emulators and sockets: a registered emulator for which
\* nothing is under way, and nothing raced or failed since its last quiet event,
\* is online exactly when the last socket that started streaming for it is open.
THEOREM PresenceIsAccurate == AuditSpec => []PresenceAccurate
  <1>1. PresenceIInv => PresenceAccurate
    BY DEF PresenceIInv, PresenceInv, PresenceAccurate
  <1>. QED
    BY <1>1, PresenceInductive, PTL

\* An emulator that streams undisturbed is never taken offline by the late
\* disconnect of another socket, only by an update that says offline.
THEOREM StreamingStaysOnline == AuditSpec => StaysOnline
  <1>1. ASSUME PresenceIInv, [AuditNext]_auditVars
        PROVE  [ \A d \in Device \ (stale \cup stale') :
                   status[d] = "online" /\ status'[d] = "offline" =>
                     ~Streaming(d) \/ PutStatus(d, "offline") ]_auditVars
    <2>. SUFFICES ASSUME AuditNext, NEW d \in Device \ (stale \cup stale'),
                         status[d] = "online", status'[d] = "offline"
                  PROVE  ~Streaming(d) \/ PutStatus(d, "offline")
      BY <1>1
    <2>0. status \in [Device -> Status \cup {"absent"}]
      BY <1>1 DEF PresenceIInv, AuditTypeOK, TypeOK
    <2>1. CASE \E e \in Device, v \in Status : Puts(e, v)
      <3>1. PICK e \in Device, v \in Status : PutStatus(e, v)
        BY <2>1 DEF Puts
      <3>2. e = d /\ v = "offline"
        BY <2>0, <3>1 DEF PutStatus
      <3>. QED
        BY <3>1, <3>2
    <2>2. CASE \E t \in tasks : SetOffline(t) \/ ShotWrite(t)
      <3>1. PICK t \in tasks : SetOffline(t) \/ ShotWrite(t)
        BY <2>2
      <3>2. t.peer = d /\ t.op \in {"offline", "shotWrite"}
        BY <2>0, <3>1 DEF SetOffline, ShotWrite, SetStatus
      <3>. QED
        BY <1>1, <3>2 DEF PresenceIInv, PresenceInv, TasksOn, RightTask
    <2>3. (\E e \in Device, v \in Status : Puts(e, v)) \/ \E t \in tasks : SetOffline(t) \/ ShotWrite(t)
      BY <2>0 DEF AuditNext, Opens, Drops, Starts, Offers, Connects, Queries, Fails, Ends, Query,
           Open, Drop, StartStreaming, Offer, Connect, TaskFails, Restart, Unhandled, Dies, SetOnline,
           SetStatus, LookUp, FindRow, CloseRow, FindGrant, InsertRow, ShotLoad, ShotInsert, Uploads,
           Upload, CreatesDevice, CreateDevice, RemovesDevice, RemoveDevice, Grants, Grant, Revokes,
           Revoke
    <2>. QED
      BY <2>1, <2>2, <2>3
  <1>. QED
    BY <1>1, PresenceInductive, PTL DEF AuditSpec, StaysOnline

-----------------------------------------------------------------------------
\* What the invariant says of one account.
SessionOn(a) ==
    /\ SessionMapped(a)
    /\ \/ TasksOn(a) = {} /\ OneRowPerSession(a)
       \/ \E t \in tasks : TasksOn(a) = {t} /\ RightRows(t, a)

\* A step that leaves the tasks, the open rows and the session of a alone.
LEMMA SessionUntouched ==
    ASSUME NEW a \in Account, TypeOK, TasksOK, SessionOn(a), SessionMapped(a)',
           TasksOn(a)' = TasksOn(a), OpenRows(a)' = OpenRows(a), session'[a] = session[a],
           \A d \in Device : granted[a, d] = "live" => granted'[a, d] = "live"
    PROVE  SessionOn(a)'
  <1>1. CASE TasksOn(a) = {} /\ OneRowPerSession(a)
    BY <1>1 DEF SessionOn, OneRowPerSession
  <1>2. ASSUME NEW t \in tasks, TasksOn(a) = {t}, RightRows(t, a)
        PROVE  SessionOn(a)'
    <2>1. t \in tasks'
      BY <1>2 DEF TasksOn
    <2>2. RightRows(t, a)'
      BY <1>2 DEF RightRows, TasksOK
    <2>. QED
      BY <1>2, <2>1, <2>2 DEF SessionOn
  <1>. QED
    BY <1>1, <1>2 DEF SessionOn

\* A step that makes t the only task of a.
LEMMA OnlyRowTask ==
    ASSUME NEW a \in Account, NEW t, t \in tasks', t.peer = a, TasksOn(a)' \subseteq {t},
           SessionMapped(a)', RightRows(t, a)'
    PROVE  SessionOn(a)'
  <1>1. TasksOn(a)' = {t}
    BY DEF TasksOn
  <1>. QED
    BY <1>1 DEF SessionOn

LEMMA EventsSession ==
    ASSUME SessionIInv, NEW s \in Socket,
           \/ Opens(s) \/ Drops(s)
           \/ \E e \in Device : Starts(s, e) \/ Offers(s, e) \/ Connects(s, e),
           NEW a \in Account, a \notin mixed'
    PROVE  SessionOn(a)'
  <1>. USE DEF SessionIInv, AuditTypeOK
  <1>1. a \notin mixed /\ SessionOn(a)
    BY DEF Opens, Drops, Starts, Offers, Connects, SessionInv, SessionOn
  <1>2. a \in Peer /\ a \notin Device
    BY GatewayAssumption DEF Peer
  <1>3. OpenRows(a)' = OpenRows(a) /\ granted' = granted
    BY DEF Opens, Open, Drops, Drop, Starts, StartStreaming, Offers, Offer, Connects, Connect, OpenRows
  <1>4. ASSUME TasksOn(a)' = TasksOn(a), session'[a] = session[a], SessionMapped(a)'
        PROVE  SessionOn(a)'
    BY <1>1, <1>3, <1>4, SessionUntouched
  <1>5. CASE Opens(s)
    BY <1>1, <1>4, <1>5 DEF Opens, Open, TasksOn, SessionOn, SessionMapped
  <1>6. CASE Drops(s)
    <2>1. \A p \in SpokenForBy(s) : NewTask("disconnect", p, s, None).peer = p
      BY DEF NewTask
    <2>2. session[a] = s => a \in SpokenForBy(s)
      BY <1>1, <1>2, GatewayAssumption DEF SessionOn, SessionMapped, SpokenForBy
    <2>3. CASE a \in SpokenForBy(s)
      <3>. DEFINE t == NewTask("disconnect", a, s, None)
      <3>1. t.op = "disconnect" /\ t.peer = a
        BY DEF NewTask
      <3>2. t \in tasks'
        BY <1>6, <2>3 DEF Drops, Drop
      <3>3. TasksOn(a) = {}
        BY <1>6, <2>3 DEF Drops
      <3>4. TasksOn(a)' \subseteq {t}
        BY <1>6, <2>1, <3>3 DEF Drops, Drop, TasksOn
      <3>. HIDE DEF t
      <3>5. session'[a] = None
        BY <1>1, <1>6, <2>3 DEF Drops, SpokenForBy, SessionOn, SessionMapped
      <3>6. \E i \in RowId \cup {None} : OpenRows(a) \subseteq {i}
        BY <1>1, <3>3 DEF SessionOn, OneRowPerSession, TasksOn
      <3>7. RightRows(t, a)' /\ SessionMapped(a)'
        BY <1>3, <3>1, <3>5, <3>6 DEF RightRows, SessionMapped
      <3>. QED
        BY <3>1, <3>2, <3>4, <3>7, OnlyRowTask
    <2>4. CASE a \notin SpokenForBy(s)
      <3>1. TasksOn(a)' = TasksOn(a)
        BY <1>6, <2>1, <2>4 DEF Drops, Drop, TasksOn
      <3>2. session'[a] = session[a] /\ connections' = connections
        BY <1>6, <2>2, <2>4 DEF Drops, Drop
      <3>. QED
        BY <1>1, <1>4, <3>1, <3>2 DEF SessionOn, SessionMapped
    <2>. QED
      BY <2>3, <2>4
  <1>7. ASSUME NEW e \in Device, Starts(s, e)
        PROVE  SessionOn(a)'
    <2>1. tasks' = tasks \cup {NewTask("online", e, s, None)}
          /\ NewTask("online", e, s, None).peer = e
      BY <1>7 DEF Starts, StartStreaming, NewTask
    <2>2. TasksOn(a)' = TasksOn(a)
      BY <1>2, <2>1 DEF TasksOn
    <2>3. session'[a] = session[a] /\ connections'[a] = connections[a]
      BY <1>2, <1>7 DEF Starts, StartStreaming, TypeOK
    <2>. QED
      BY <1>1, <1>4, <2>2, <2>3 DEF SessionOn, SessionMapped
  <1>8. ASSUME NEW e \in Device, Offers(s, e)
        PROVE  SessionOn(a)'
    <2>1. TasksOn(a)' = TasksOn(a) /\ session' = session
      BY <1>8 DEF Offers, Offer, TasksOn
    <2>2. connections'[a] = IF Owner[s] = a THEN s ELSE connections[a]
      BY <1>2, <1>8 DEF Offers, Offer, TypeOK
    <2>3. Owner[s] = a => session[a] \in {None, s}
      BY <1>1, <1>8 DEF Offers
    <2>4. SessionMapped(a)'
      BY <1>1, <2>1, <2>2, <2>3 DEF SessionOn, SessionMapped
    <2>. QED
      BY <1>4, <2>1, <2>4
  <1>9. ASSUME NEW e \in Device, Connects(s, e)
        PROVE  SessionOn(a)'
    <2>. DEFINE t == NewTask("connect", Owner[s], s, e)
    <2>1. t.op = "connect" /\ t.peer = Owner[s] /\ t.dev = e
      BY DEF NewTask
    <2>2. tasks' = tasks \cup {t} /\ connections' = connections
      BY <1>9 DEF Connects, Connect
    <2>. HIDE DEF t
    <2>3. CASE Owner[s] = a
      <3>1. session[a] = None /\ TasksOn(a) = {} /\ connections[a] = s /\ granted[a, e] = "live"
            /\ session'[a] = s
        BY <1>1, <1>9, <2>3 DEF Connects
      <3>2. OpenRows(a) = {}
        BY <1>1, <3>1 DEF SessionOn, OneRowPerSession, TasksOn
      <3>3. TasksOn(a)' \subseteq {t} /\ t \in tasks'
        BY <2>2, <3>1 DEF TasksOn
      <3>4. RightRows(t, a)' /\ SessionMapped(a)'
        BY <1>3, <2>1, <2>2, <3>1, <3>2, GatewayAssumption DEF RightRows, SessionMapped
      <3>. QED
        BY <2>1, <2>3, <3>3, <3>4, OnlyRowTask
    <2>4. CASE Owner[s] # a
      <3>1. TasksOn(a)' = TasksOn(a)
        BY <2>1, <2>2, <2>4 DEF TasksOn
      <3>2. session'[a] = session[a]
        BY <1>9, <2>4 DEF Connects, Connect
      <3>. QED
        BY <1>1, <1>4, <2>2, <3>1, <3>2 DEF SessionOn, SessionMapped
    <2>. QED
      BY <2>3, <2>4
  <1>. QED
    BY <1>5, <1>6, <1>7, <1>8, <1>9

LEMMA QueriesSession ==
    ASSUME SessionIInv, NEW t \in tasks, Queries(t) \/ Fails(t), NEW a \in Account, a \notin mixed'
    PROVE  SessionOn(a)'
  <1>. USE DEF SessionIInv, AuditTypeOK
  <1>1. a \notin mixed /\ SessionOn(a)
    BY DEF Queries, Fails, SessionInv, SessionOn
  <1>2. t \in Task /\ a \notin Device
    BY GatewayAssumption DEF TypeOK
  <1>3. session' = session /\ connections' = connections /\ granted' = granted
    BY DEF Queries, Fails, Query, TaskFails, SetOnline, SetOffline, CloseRow, InsertRow, LookUp,
       FindRow, FindGrant, ShotLoad, ShotWrite, ShotInsert
  <1>4. SessionMapped(a)'
    BY <1>1, <1>3 DEF SessionOn, SessionMapped
  <1>5. CASE t.peer # a
    <2>1. TasksOn(a)' = TasksOn(a)
      BY <1>5, OthersKept DEF Queries, Fails
    <2>2. \A i \in RowId : i[1] = a => (rows'[i] = "open" <=> rows[i] = "open")
      <3>1. CASE CloseRow(t)
        <4>1. t.row \in RowId /\ t.row[1] # a
          BY <1>5, <3>1 DEF CloseRow, TasksOK
        <4>. QED
          BY <3>1, <4>1 DEF CloseRow, TypeOK
      <3>2. CASE InsertRow(t)
        BY <1>5, <3>2 DEF InsertRow, TypeOK
      <3>3. CASE rows' = rows
        BY <3>3
      <3>. QED
        BY <3>1, <3>2, <3>3 DEF Queries, Fails, Query, TaskFails, SetOnline, SetOffline, LookUp,
           FindRow, FindGrant, ShotLoad, ShotWrite, ShotInsert
    <2>3. OpenRows(a)' = OpenRows(a)
      BY <2>2 DEF OpenRows
    <2>. QED
      BY <1>1, <1>3, <1>4, <2>1, <2>3, SessionUntouched
  <1>6. CASE t.peer = a
    <2>1. TasksOn(a) = {t} /\ RightRows(t, a)
      BY <1>1, <1>6 DEF SessionOn, TasksOn
    <2>2. Query(t) /\ t.op \in {"disconnect", "findRow", "closeRow", "connect", "insertRow"}
      BY <1>6 DEF Queries, Fails, TasksOK
    <2>3. ASSUME tasks' = tasks \ {t}, OneRowPerSession(a)'
          PROVE  SessionOn(a)'
      BY <1>4, <2>1, <2>3 DEF SessionOn, TasksOn
    <2>4. ASSUME NEW u, u.peer = a, Continue(t, u), RightRows(u, a)'
          PROVE  SessionOn(a)'
      <3>1. TasksOn(a)' \subseteq {u} /\ u \in tasks'
        BY <2>1, <2>4 DEF Continue, TasksOn
      <3>. QED
        BY <1>4, <2>4, <3>1, OnlyRowTask
    <2>5. CASE LookUp(t)
      <3>. DEFINE u == [t EXCEPT !.op = "findRow"]
      <3>1. u.op = "findRow" /\ u.peer = a
        BY <1>2, <1>6 DEF Task
      <3>2. Continue(t, u) /\ OpenRows(a)' = OpenRows(a)
        BY <1>2, <1>6, <2>5 DEF LookUp, Registered, OpenRows
      <3>. HIDE DEF u
      <3>3. RightRows(u, a)'
        BY <1>3, <2>1, <2>5, <3>1, <3>2 DEF LookUp, RightRows
      <3>. QED
        BY <2>4, <3>1, <3>2, <3>3
    <2>6. CASE FindRow(t)
      <3>1. OpenRows(a)' = OpenRows(a) /\ session[a] = None
        BY <2>1, <2>6 DEF FindRow, OpenRows, RightRows
      <3>2. CASE OpenRows(a) = {} /\ Finish(t)
        BY <1>3, <2>3, <3>1, <3>2 DEF Finish, OneRowPerSession
      <3>3. ASSUME NEW i \in OpenRows(a), Continue(t, [t EXCEPT !.op = "closeRow", !.row = i])
            PROVE  SessionOn(a)'
        <4>. DEFINE u == [t EXCEPT !.op = "closeRow", !.row = i]
        <4>1. u.op = "closeRow" /\ u.peer = a /\ u.row = i
          BY <1>2, <1>6 DEF Task
        <4>2. Continue(t, u)
          BY <3>3
        <4>. HIDE DEF u
        <4>3. OpenRows(a) \subseteq {i}
          BY <2>1, <2>6 DEF FindRow, RightRows
        <4>4. RightRows(u, a)'
          BY <1>3, <3>1, <4>1, <4>3 DEF RightRows
        <4>. QED
          BY <2>4, <4>1, <4>2, <4>4
      <3>. QED
        BY <1>6, <2>6, <3>2, <3>3 DEF FindRow
    <2>7. CASE CloseRow(t)
      <3>1. OpenRows(a) \subseteq {t.row} /\ session[a] = None /\ t.row \in RowId
        BY <2>1, <2>7 DEF CloseRow, RightRows, TasksOK
      <3>2. OpenRows(a)' = {}
        BY <2>7, <3>1 DEF CloseRow, OpenRows, TypeOK
      <3>. QED
        BY <1>3, <2>3, <2>7, <3>1, <3>2 DEF CloseRow, Finish, OneRowPerSession
    <2>8. CASE FindGrant(t)
      <3>. DEFINE u == [t EXCEPT !.op = "insertRow"]
      <3>1. u.op = "insertRow" /\ u.peer = a /\ u.dev = t.dev
        BY <1>2, <1>6 DEF Task
      <3>2. Continue(t, u) /\ OpenRows(a)' = OpenRows(a)
        BY <1>6, <2>1, <2>8 DEF FindGrant, OpenRows, RightRows
      <3>. HIDE DEF u
      <3>3. RightRows(u, a)'
        BY <1>3, <2>1, <2>8, <3>1, <3>2 DEF FindGrant, RightRows
      <3>. QED
        BY <2>4, <3>1, <3>2, <3>3
    <2>9. CASE InsertRow(t)
      <3>1. OpenRows(a) = {} /\ session[a] # None /\ granted[a, t.dev] = "live"
        BY <2>1, <2>9 DEF InsertRow, RightRows
      <3>2. PICK i \in RowId : i[1] = a /\ rows' = [rows EXCEPT ![i] = "open"]
        BY <1>6, <2>9, <3>1 DEF InsertRow
      <3>3. OpenRows(a)' = {i}
        BY <3>1, <3>2 DEF OpenRows, TypeOK
      <3>. QED
        BY <1>3, <2>3, <2>9, <3>1, <3>3 DEF InsertRow, Finish, OneRowPerSession
    <2>. QED
      BY <2>2, <2>5, <2>6, <2>7, <2>8, <2>9
         DEF Query, SetOnline, SetOffline, ShotLoad, ShotWrite, ShotInsert
  <1>. QED
    BY <1>5, <1>6

\* Deleting grants that no session of a stands on.
LEMMA DeleteSession ==
    ASSUME SessionIInv, NEW G, NEW e \in Device, DeleteGrants(G), G \subseteq Account \X {e},
           UNCHANGED <<tasks, connections, session>>,
           NEW a \in Account, a \notin mixed, a \in Disturbed(e) => <<a, e>> \notin G
    PROVE  SessionOn(a)'
  <1>. USE DEF SessionIInv, AuditTypeOK
  <1>1. SessionOn(a) /\ SessionMapped(a)' /\ TasksOn(a)' = TasksOn(a)
    BY DEF SessionInv, SessionOn, SessionMapped, TasksOn
  <1>2. \A i \in OpenRows(a)' : i \in OpenRows(a)
    BY DEF DeleteGrants, OpenRows, TypeOK
  <1>3. \A d \in Device : <<a, d>> \notin G => granted'[a, d] = granted[a, d]
    BY DEF DeleteGrants, TypeOK
  <1>4. \A i \in OpenRows(a) : <<a, i[2]>> \notin G => i \in OpenRows(a)'
    BY DEF DeleteGrants, OpenRows, TypeOK
  <1>5. CASE <<a, e>> \notin G
    <2>1. \A d \in Device : <<a, d>> \notin G
      BY <1>5
    <2>2. \A i \in OpenRows(a) : i[2] \in Device
      BY GatewayAssumption DEF OpenRows
    <2>3. OpenRows(a)' = OpenRows(a)
      BY <1>2, <1>4, <2>1, <2>2
    <2>. QED
      BY <1>1, <1>3, <2>1, <2>3, SessionUntouched
  <1>6. CASE a \notin Disturbed(e)
    <2>1. \A d : <<a, d>> \in G => d = e
      OBVIOUS
    <2>2. session[a] # None => OpenRows(a)' = OpenRows(a)
      BY <1>2, <1>4, <1>6, <2>1 DEF Disturbed
    <2>3. \A t \in TasksOn(a) : t.op \in {"connect", "insertRow"} => t.dev # e
      BY <1>6 DEF Disturbed
    <2>4. OneRowPerSession(a) => OneRowPerSession(a)'
      BY <1>2, <2>2 DEF OneRowPerSession
    <2>5. ASSUME NEW t \in tasks, TasksOn(a) = {t}, RightRows(t, a)
          PROVE  RightRows(t, a)'
      <3>1. t.op \in {"connect", "insertRow"} => t.dev \in Device /\ <<a, t.dev>> \notin G
        BY <2>1, <2>3, <2>5 DEF TasksOK
      <3>. QED
        BY <1>2, <1>3, <2>5, <3>1 DEF RightRows
    <2>. QED
      BY <1>1, <2>4, <2>5 DEF SessionOn
  <1>. QED
    BY <1>5, <1>6

LEMMA RequestsSession ==
    ASSUME SessionIInv, NEW e \in Device, NEW a \in Account, a \notin mixed',
           \/ Uploads(e) \/ CreatesDevice(e) \/ RemovesDevice(e)
           \/ \E b \in Account : Grants(b, e) \/ Revokes(b, e)
    PROVE  SessionOn(a)'
  <1>. USE DEF SessionIInv, AuditTypeOK
  <1>1. a \notin mixed /\ SessionOn(a)
    BY DEF Uploads, CreatesDevice, RemovesDevice, Grants, Revokes, SessionInv, SessionOn
  <1>2. session' = session /\ connections' = connections
    BY DEF Uploads, Upload, CreatesDevice, CreateDevice, RemovesDevice, RemoveDevice, Grants, Grant,
       Revokes, Revoke
  <1>3. ASSUME TasksOn(a)' = TasksOn(a), rows' = rows,
               \A d \in Device : granted[a, d] = "live" => granted'[a, d] = "live"
        PROVE  SessionOn(a)'
    <2>1. OpenRows(a)' = OpenRows(a)
      BY <1>3 DEF OpenRows
    <2>2. SessionMapped(a)'
      BY <1>1, <1>2 DEF SessionOn, SessionMapped
    <2>. QED
      BY <1>1, <1>2, <1>3, <2>1, <2>2, SessionUntouched
  <1>4. CASE Uploads(e)
    <2>. DEFINE t == [NewTask("shotLoad", e, None, None) EXCEPT !.seen = status[e]]
    <2>1. t.peer = e /\ tasks' = tasks \cup {t} /\ rows' = rows /\ granted' = granted
      BY <1>4 DEF Uploads, Upload, NewTask
    <2>2. TasksOn(a)' = TasksOn(a)
      BY <2>1, GatewayAssumption DEF TasksOn
    <2>. QED
      BY <1>3, <2>1, <2>2
  <1>5. CASE CreatesDevice(e)
    BY <1>3, <1>5 DEF CreatesDevice, CreateDevice, TasksOn
  <1>6. ASSUME NEW b \in Account, Grants(b, e)
        PROVE  SessionOn(a)'
    BY <1>3, <1>6 DEF Grants, Grant, TasksOn, TypeOK
  <1>7. CASE RemovesDevice(e)
    BY <1>1, <1>2, <1>7, DeleteSession DEF RemovesDevice, RemoveDevice
  <1>8. ASSUME NEW b \in Account, Revokes(b, e)
        PROVE  SessionOn(a)'
    <2>1. a \in Disturbed(e) => <<a, e>> \notin {<<b, e>>}
      BY <1>8 DEF Revokes
    <2>2. DeleteGrants({<<b, e>>}) /\ UNCHANGED <<tasks, connections, session>>
      BY <1>8 DEF Revokes, Revoke
    <2>3. {<<b, e>>} \subseteq Account \X {e}
      OBVIOUS
    <2>. QED
      BY <1>1, <2>1, <2>2, <2>3, DeleteSession
  <1>. QED
    BY <1>4, <1>5, <1>6, <1>7, <1>8

LEMMA SessionStep ==
    ASSUME SessionIInv, [AuditNext]_auditVars
    PROVE  SessionIInv'
  <1>1. Base'
    BY BaseStep DEF SessionIInv, Base
  <1>2. ASSUME NEW a \in Account, a \notin mixed'
        PROVE  SessionOn(a)'
    <2>1. CASE \E s \in Socket : \/ Opens(s) \/ Drops(s)
                                 \/ \E e \in Device : Starts(s, e) \/ Offers(s, e) \/ Connects(s, e)
      BY <1>2, <2>1, EventsSession
    <2>2. CASE \E t \in tasks : Queries(t) \/ Fails(t)
      BY <1>2, <2>2, QueriesSession
    <2>3. CASE Ends
      <3>1. session[a] = None /\ TasksOn(a) = {} /\ a \notin mixed /\ Dies /\ session'[a] = None
        BY <1>2, <2>3 DEF Ends, Restart, Unhandled
      <3>2. OpenRows(a) = {}
        BY <3>1 DEF SessionIInv, SessionInv, OneRowPerSession, TasksOn
      <3>. QED
        BY <3>1, <3>2 DEF Dies, SessionOn, SessionMapped, OneRowPerSession, TasksOn, OpenRows
    <2>4. CASE \E e \in Device : \/ Uploads(e) \/ CreatesDevice(e) \/ RemovesDevice(e)
                                 \/ \E b \in Account : Grants(b, e) \/ Revokes(b, e)
      BY <1>2, <2>4, RequestsSession
    <2>6. CASE \E e \in Device, v \in Status : Puts(e, v)
      <3>1. SessionOn(a) /\ TasksOn(a)' = TasksOn(a) /\ OpenRows(a)' = OpenRows(a)
            /\ UNCHANGED <<tasks, session, connections, granted>>
        BY <1>2, <2>6 DEF SessionIInv, SessionInv, SessionOn, Puts, PutStatus, TasksOn, OpenRows
      <3>2. SessionMapped(a)'
        BY <3>1 DEF SessionOn, SessionMapped
      <3>. QED
        BY <3>1, <3>2, SessionUntouched DEF SessionIInv, AuditTypeOK
    <2>5. CASE UNCHANGED auditVars
      <3>1. SessionOn(a) /\ TasksOn(a)' = TasksOn(a) /\ OpenRows(a)' = OpenRows(a)
            /\ UNCHANGED <<tasks, session, connections, granted>>
        BY <1>2, <2>5 DEF SessionIInv, SessionInv, SessionOn, auditVars, vars, TasksOn, OpenRows
      <3>2. SessionMapped(a)'
        BY <3>1 DEF SessionOn, SessionMapped
      <3>. QED
        BY <3>1, <3>2, SessionUntouched DEF SessionIInv, AuditTypeOK
    <2>. QED
      BY <2>1, <2>2, <2>3, <2>4, <2>5, <2>6 DEF AuditNext
  <1>. QED
    BY <1>1, <1>2 DEF SessionIInv, SessionInv, Base, SessionOn

\* For any number of accounts, devices and sockets: an account that kept to one
\* session at a time has one open row of the log while it is connected and none
\* otherwise, through failures, restarts and grants that are withdrawn.
THEOREM SessionsAreAccurate == AuditSpec => []SessionsAccurate
  <1>1. AuditInit => SessionIInv
    BY DEF AuditInit, Init, SessionIInv, AuditTypeOK, TypeOK, TasksOK, MapOK, SessionInv,
       SessionMapped, OneRowPerSession, OpenRows, TasksOn, Peer
  <1>2. SessionIInv => SessionsAccurate
    BY DEF SessionIInv, SessionInv, SessionsAccurate, TasksOn
  <1>. QED
    BY <1>1, <1>2, SessionStep, PTL DEF AuditSpec

=============================================================================
