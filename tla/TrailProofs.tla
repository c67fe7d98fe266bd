----------------------------- MODULE TrailProofs ----------------------------
(***************************************************************************)
(* What the activity log tells of the users, for any number of requests,   *)
(* users and entries and whatever operators write, write over and delete:  *)
(* what a service has once told is in the log or among what was erased.    *)
(***************************************************************************)
EXTENDS TrailAudit, TLAPS

USE TrailAssumption

-----------------------------------------------------------------------------
(* What steps do to the entries told *)

\* The metadata of entries and what they hold.
LEMMA MetaType ==
  ASSUME NEW u \in User \cup {None}, NEW e \in Email \cup {None}
  PROVE  Meta(u, e) \in Metadata /\ Meta(u, e).user = u /\ Meta(u, e).email = e
  BY DEF Meta, Metadata

\* What Append does to the log.
LEMMA Appended ==
  ASSUME TypeOK, NEW action \in Actions, NEW md \in Metadata, NEW u, NEW d,
         Append(Dto(u, d, action, md))
  PROVE  /\ [action |-> action, metadata |-> md] \in Entry
         /\ log' \in [Row -> Entry \cup {None}]
         /\ \E i \in Row :
              /\ log[i] = None
              /\ \A j \in Row : log'[j] = IF j = i THEN [action |-> action, metadata |-> md] ELSE log[j]
  <1>. DEFINE x == [action |-> action, metadata |-> md]
  <1>1. RowOf(Dto(u, d, action, md)) = x /\ x \in Entry /\ x # None
    BY DEF RowOf, Dto, Entry
  <1>. HIDE DEF x
  <1>2. PICK i \in Row : log[i] = None /\ log' = [log EXCEPT ![i] = x]
    BY <1>1 DEF Append
  <1>3. \A j \in Row : log'[j] = IF j = i THEN x ELSE log[j]
    BY <1>2 DEF TypeOK
  <1>4. log' \in [Row -> Entry \cup {None}]
    BY <1>1, <1>2 DEF TypeOK
  <1>. QED
    BY <1>1, <1>2, <1>3, <1>4 DEF x

\* What a service appends tells one thing more.
LEMMA AppendTells ==
  ASSUME AuditTypeOK, NEW action \in Actions, NEW md \in Metadata, NEW u, NEW d,
         Append(Dto(u, d, action, md)), Wrote, erased' = erased
  PROVE  /\ log' \in [Row -> Entry \cup {None}]
         /\ ours' \subseteq Row /\ \A i \in ours' : log'[i] # None
         /\ Told' = Told \cup {[action |-> action, metadata |-> md]}
  <1>. DEFINE x == [action |-> action, metadata |-> md]
  <1>1. x \in Entry /\ x # None /\ log' \in [Row -> Entry \cup {None}]
    BY Appended DEF AuditTypeOK
  <1>2. PICK i \in Row : log[i] = None /\ \A j \in Row : log'[j] = IF j = i THEN x ELSE log[j]
    BY Appended DEF AuditTypeOK
  <1>. HIDE DEF x
  <1>3. ours' = ours \cup {i} /\ i \notin ours
    BY <1>1, <1>2 DEF Wrote, AuditTypeOK
  <1>4. \A j \in ours : log'[j] = log[j]
    BY <1>2, <1>3 DEF AuditTypeOK
  <1>5. {log'[j] : j \in ours'} = {log[j] : j \in ours} \cup {x}
    BY <1>2, <1>3, <1>4
  <1>6. ours' \subseteq Row /\ \A j \in ours' : log'[j] # None
    BY <1>1, <1>2, <1>3, <1>4 DEF AuditTypeOK
  <1>. QED
    BY <1>1, <1>5, <1>6 DEF Told, x

\* What an operator appends tells nothing that counts.
LEMMA PostTells ==
  ASSUME AuditTypeOK, NEW d, NEW x \in Written, Posts(d, x)
  PROVE  /\ log' \in [Row -> Entry \cup {None}]
         /\ \A i \in ours' : log'[i] # None
         /\ Told' = Told
  <1>1. /\ x.action \in Actions /\ x.metadata \in Metadata /\ Append(Dto(None, d, x.action, x.metadata))
        /\ ours' = ours /\ erased' = erased
    BY DEF Posts, Post, Entry
  <1>2. /\ log' \in [Row -> Entry \cup {None}]
        /\ \E i \in Row : log[i] = None /\ \A j \in Row : j # i => log'[j] = log[j]
    BY <1>1, Appended DEF AuditTypeOK
  <1>3. \A j \in ours : log'[j] = log[j]
    BY <1>2 DEF AuditTypeOK
  <1>4. {log'[j] : j \in ours'} = {log[j] : j \in ours}
    BY <1>1, <1>3
  <1>. QED
    BY <1>1, <1>2, <1>3, <1>4 DEF Told, AuditTypeOK

\* Erasing tells nothing new, and forgets nothing.
LEMMA EraseTells ==
  ASSUME AuditTypeOK, NEW i \in Row, Erases(i)
  PROVE  /\ log' \in [Row -> Entry \cup {None}] /\ erased' \subseteq Entry
         /\ ours' \subseteq Row /\ \A j \in ours' : log'[j] # None
         /\ Told' = Told
  <1>1. PICK y \in Entry \cup {None} : log' = [log EXCEPT ![i] = y]
    <2>1. \A x \in Written : RowOf(Dto(None, None, x.action, x.metadata)) \in Entry
      BY DEF RowOf, Dto, Entry
    <2>. QED
      BY <2>1 DEF Erases, PutEntry, DeleteEntry
  <1>2. /\ log[i] \in Entry /\ ours' = ours \ {i}
        /\ erased' = IF i \in ours THEN erased \cup {log[i]} ELSE erased
    BY DEF Erases, PutEntry, DeleteEntry, AuditTypeOK, TypeOK
  <1>3. \A j \in Row : j # i => log'[j] = log[j]
    BY <1>1 DEF AuditTypeOK, TypeOK
  <1>4. log' \in [Row -> Entry \cup {None}] /\ erased' \subseteq Entry
    BY <1>1, <1>2 DEF AuditTypeOK, TypeOK
  <1>5. ours' \subseteq Row /\ \A j \in ours' : log'[j] = log[j] /\ log'[j] # None
    BY <1>2, <1>3 DEF AuditTypeOK
  <1>6. {log'[j] : j \in ours'} = {log[j] : j \in ours \ {i}}
    BY <1>2, <1>5
  <1>7. Told' = Told
    BY <1>2, <1>6 DEF Told
  <1>. QED
    BY <1>4, <1>5, <1>7

\* What is told stays told.
LEMMA StillTold ==
  ASSUME Told \subseteq Told', NEW action, NEW u, NEW e, Tells(action, u, e)
  PROVE  Tells(action, u, e)'
  BY DEF Tells

-----------------------------------------------------------------------------
(* Steps of a request that leave the users alone *)

\* A request goes on with q, having done what q's stage stands for; it leaves
\* the stage after the insert only with an entry, or broken off.
LEMMA GoesOn ==
  ASSUME TrailIInv, NEW r \in Req, NEW p \in Request, p = req[r],
         NEW q \in Request, Goto(r, q),
         UNCHANGED <<users, email>>, Told \subseteq Told',
         inserted \subseteq inserted', rooted \subseteq rooted', untold \subseteq untold',
         q.pc # "idle" => q.user \in User,
         q.pc = "insert" =>
            /\ q.email \in Email /\ users[q.user] = "new"
            /\ \A s \in Req : req[s].pc = "insert" => req[s].user # q.user,
         q.pc # "logCreate",
         q.pc = "logAccount" => q.user \in rooted',
         q.pc = "write" /\ q.email # None => Tells("UPDATE_USER", None, q.email)',
         q.pc = "delete" => Tells("DELETE_USER", q.user, None)',
         p.pc = "logCreate" =>
            Tells("CREATE_USER", None, p.email)' \/ <<p.user, p.email>> \in untold'
  PROVE  req' \in [Req -> Request] /\ Stages' /\ RemovalsTold' /\ EmailsTold'
  <1>1. /\ req' \in [Req -> Request]
        /\ \A s \in Req : req'[s] = IF s = r THEN q ELSE req[s]
    BY DEF Goto, TrailIInv, AuditTypeOK, TypeOK
  <1>2. Stages'
    <2>1. ASSUME NEW s \in Req, s # r
          PROVE  /\ req[s].pc # "idle" => req[s].user \in User
                 /\ req[s].pc = "insert" =>
                      /\ req[s].email \in Email /\ users[req[s].user] = "new"
                      /\ \A t \in Req : req'[t].pc = "insert" /\ req'[t].user = req[s].user => t = s
                 /\ req[s].pc = "logCreate" => req[s].email \in inserted'
                 /\ req[s].pc = "logAccount" => req[s].user \in rooted'
                 /\ req[s].pc = "write" /\ req[s].email # None =>
                      Tells("UPDATE_USER", None, req[s].email)'
                 /\ req[s].pc = "delete" => Tells("DELETE_USER", req[s].user, None)'
      BY <1>1, <2>1, StillTold DEF TrailIInv, Stages
    <2>2. q.pc = "insert" =>
            \A t \in Req : req'[t].pc = "insert" /\ req'[t].user = q.user => t = r
      BY <1>1
    <2>. QED
      BY <1>1, <2>1, <2>2 DEF Stages
  <1>3. RemovalsTold'
    BY StillTold DEF TrailIInv, RemovalsTold
  <1>4. EmailsTold'
    <2>. SUFFICES ASSUME NEW u \in User, users[u] = "live"
                  PROVE  \/ Tells("CREATE_USER", None, email[u])'
                         \/ Tells("UPDATE_USER", None, email[u])'
                         \/ <<u, email[u]>> \in untold'
                         \/ \E s \in Req : /\ req'[s].pc = "logCreate" /\ req'[s].user = u
                                           /\ req'[s].email = email[u]
      BY DEF EmailsTold
    <2>1. CASE Tells("CREATE_USER", None, email[u]) \/ Tells("UPDATE_USER", None, email[u])
      BY <2>1, StillTold
    <2>2. CASE <<u, email[u]>> \in untold
      BY <2>2
    <2>3. ASSUME NEW s \in Req, req[s].pc = "logCreate", req[s].user = u, req[s].email = email[u]
          PROVE  \/ Tells("CREATE_USER", None, email[u])'
                 \/ <<u, email[u]>> \in untold'
                 \/ \E t \in Req : /\ req'[t].pc = "logCreate" /\ req'[t].user = u
                                   /\ req'[t].email = email[u]
      <3>1. CASE s = r
        BY <2>3, <3>1
      <3>2. CASE s # r
        BY <1>1, <2>3, <3>2
      <3>. QED
        BY <3>1, <3>2
    <2>. QED
      BY <2>1, <2>2, <2>3 DEF TrailIInv, EmailsTold
  <1>. QED
    BY <1>1, <1>2, <1>3, <1>4

\* Without a new entry, and with no user or account forgotten, no creation is
\* told that did not happen.
LEMMA NothingTold ==
  ASSUME TrailIInv, inserted \subseteq inserted', rooted \subseteq rooted', Told' = Told
  PROVE  CreationsHappened'
  BY DEF TrailIInv, CreationsHappened, Tells

\* An entry of a creation or an account tells of one that happened.
LEMMA RightlyTold ==
  ASSUME TrailIInv, UNCHANGED <<inserted, rooted>>, NEW action \in Actions,
         NEW u \in User \cup {None}, NEW e \in Email \cup {None},
         Told' = Told \cup {[action |-> action, metadata |-> Meta(u, e)]},
         action = "CREATE_USER" => e \in inserted,
         action = "CREATE_ACCOUNT" => u \in rooted
  PROVE  CreationsHappened'
  <1>1. ASSUME NEW f \in Email, Tells("CREATE_USER", None, f)'
        PROVE  f \in inserted
    <2>. DEFINE x == [action |-> "CREATE_USER", metadata |-> Meta(None, f)]
    <2>1. x \in Told'
      BY <1>1 DEF Tells, Meta
    <2>2. CASE x \in Told
      BY <2>2 DEF TrailIInv, CreationsHappened, Tells
    <2>3. CASE x = [action |-> action, metadata |-> Meta(u, e)]
      <3>1. action = "CREATE_USER" /\ Meta(None, f).email = Meta(u, e).email
        BY <2>3
      <3>. QED
        BY <3>1, MetaType
    <2>. QED
      BY <2>1, <2>2, <2>3
  <1>2. ASSUME NEW v \in User, Tells("CREATE_ACCOUNT", v, None)'
        PROVE  v \in rooted
    <2>. DEFINE x == [action |-> "CREATE_ACCOUNT", metadata |-> Meta(v, None)]
    <2>1. x \in Told'
      BY <1>2 DEF Tells, Meta
    <2>2. CASE x \in Told
      BY <2>2 DEF TrailIInv, CreationsHappened, Tells
    <2>3. CASE x = [action |-> action, metadata |-> Meta(u, e)]
      <3>1. action = "CREATE_ACCOUNT" /\ Meta(v, None).user = Meta(u, e).user
        BY <2>3
      <3>. QED
        BY <3>1, MetaType
    <2>. QED
      BY <2>1, <2>2, <2>3
  <1>. QED
    BY <1>1, <1>2 DEF CreationsHappened

-----------------------------------------------------------------------------
(* The steps *)

\* Append of an entry about u and e, and the request goes on with q.
LEMMA LogsStep ==
  ASSUME TrailIInv, NEW r \in Req, NEW p \in Request, p = req[r],
         NEW from \in {"logCreate", "logAccount", "logUpdate", "logDelete"},
         NEW action \in Actions, NEW u \in User \cup {None}, NEW e \in Email \cup {None},
         NEW pc \in {"idle", "account", "write", "delete"},
         Logs(r, from, action, Meta(u, e), pc), Wrote, UNCHANGED <<erased, inserted, untold>>,
         from = "logCreate" => action = "CREATE_USER" /\ u = None /\ e = p.email,
         action = "CREATE_USER" => from = "logCreate",
         action = "CREATE_ACCOUNT" => from = "logAccount" /\ u = p.user,
         pc = "write" => action = "UPDATE_USER" /\ u = None /\ e = p.email,
         pc = "delete" => action = "DELETE_USER" /\ u = p.user /\ e = None
  PROVE  TrailIInv'
  <1>. DEFINE q == IF pc = "idle" THEN Idle ELSE [p EXCEPT !.pc = pc]
  <1>1. /\ q \in Request /\ q.pc = pc
        /\ pc # "idle" => q.user = p.user /\ q.email = p.email
    BY DEF Request, Idle, Pc
  <1>2. p.pc = from /\ Goto(r, q) /\ UNCHANGED <<users, email, rooted>>
    BY DEF Logs, Answer, Await
  <1>. HIDE DEF q
  <1>3. AuditTypeOK /\ Meta(u, e) \in Metadata
    BY MetaType DEF TrailIInv
  <1>4. /\ log' \in [Row -> Entry \cup {None}]
        /\ ours' \subseteq Row /\ \A i \in ours' : log'[i] # None
        /\ Told' = Told \cup {[action |-> action, metadata |-> Meta(u, e)]}
    BY <1>3, AppendTells DEF Logs
  <1>5. Tells(action, u, e)' /\ Told \subseteq Told'
    BY <1>4 DEF Tells, Meta
  <1>6. p.user \in User
    BY <1>2 DEF TrailIInv, Stages
  <1>7. req' \in [Req -> Request] /\ Stages' /\ RemovalsTold' /\ EmailsTold'
    BY <1>1, <1>2, <1>5, <1>6, GoesOn
  <1>8. CreationsHappened'
    <2>1. from = "logCreate" => p.email \in inserted
      BY <1>2 DEF TrailIInv, Stages
    <2>2. from = "logAccount" => p.user \in rooted
      BY <1>2 DEF TrailIInv, Stages
    <2>. QED
      BY <1>2, <1>4, <2>1, <2>2, RightlyTold
  <1>9. AuditTypeOK'
    BY <1>2, <1>3, <1>4, <1>7 DEF AuditTypeOK, TypeOK
  <1>. QED
    BY <1>7, <1>8, <1>9 DEF TrailIInv

\* A step that only the request, or an account made, shows.
LEMMA QuietStep ==
  ASSUME TrailIInv, NEW r \in Req, NEW p \in Request, p = req[r],
         NEW q \in Request, Goto(r, q),
         UNCHANGED <<users, email, log, ours, erased, inserted>>,
         rooted \subseteq rooted', rooted' \subseteq User,
         untold \subseteq untold', untold' \subseteq User \X Email,
         q.pc # "idle" => q.user \in User,
         q.pc = "insert" =>
            /\ q.email \in Email /\ users[q.user] = "new"
            /\ \A s \in Req : req[s].pc = "insert" => req[s].user # q.user,
         q.pc \notin {"logCreate", "write", "delete"},
         q.pc = "logAccount" => q.user \in rooted',
         p.pc = "logCreate" => <<p.user, p.email>> \in untold'
  PROVE  TrailIInv'
  <1>1. Told' = Told
    BY DEF Told
  <1>2. req' \in [Req -> Request] /\ Stages' /\ RemovalsTold' /\ EmailsTold'
    BY <1>1, GoesOn
  <1>3. CreationsHappened'
    BY <1>1, NothingTold
  <1>4. AuditTypeOK'
    BY <1>2 DEF TrailIInv, AuditTypeOK, TypeOK
  <1>. QED
    BY <1>2, <1>3, <1>4 DEF TrailIInv

LEMMA ServeStep ==
  ASSUME TrailIInv, NEW r \in Req, Steps(r)
  PROVE  TrailIInv'
  <1>. DEFINE p == req[r]
  <1>0. /\ p \in Request /\ AuditTypeOK /\ UNCHANGED <<erased, inserted, untold>> /\ Wrote
        /\ Idle \in Request /\ Idle.pc = "idle"
        /\ log' = log => ours' = ours
    BY DEF Steps, Wrote, TrailIInv, AuditTypeOK, TypeOK, Idle, Request, Pc
  <1>1. CASE Create(r)
    <2>1. PICK u \in User, e \in Email :
            /\ p = Idle /\ users[u] = "new"
            /\ \A s \in Req : req[s].pc = "insert" => req[s].user # u
            /\ Goto(r, [pc |-> "insert", user |-> u, email |-> e])
      BY <1>1 DEF Create
    <2>2. [pc |-> "insert", user |-> u, email |-> e] \in Request
      BY DEF Request, Pc
    <2>3. UNCHANGED <<users, email, rooted, log>>
      BY <1>1 DEF Create
    <2>. QED
      BY <1>0, <2>1, <2>2, <2>3, QuietStep DEF AuditTypeOK, TypeOK
  <1>2. CASE LogCreate(r)
    <2>1. p.email \in Email
      BY <1>0, <1>2 DEF LogCreate, Logs, TrailIInv, Stages, AuditTypeOK
    <2>2. \E pc \in {"idle", "account"} :
             Logs(r, "logCreate", "CREATE_USER", Meta(None, p.email), pc)
      BY <1>2 DEF LogCreate
    <2>. QED
      BY <1>0, <2>1, <2>2, LogsStep DEF Actions
  <1>3. CASE MakeAccount(r)
    <2>1. p.pc = "account" /\ p.user \in User /\ UNCHANGED <<users, email, log>>
      BY <1>3 DEF MakeAccount, TrailIInv, Stages
    <2>2. CASE rooted' = rooted \cup {p.user} /\ Await(r, "logAccount")
      <3>. DEFINE q == [p EXCEPT !.pc = "logAccount"]
      <3>1. q \in Request /\ q.pc = "logAccount" /\ q.user = p.user
        BY <1>0 DEF Request, Pc
      <3>2. Goto(r, q)
        BY <2>2 DEF Await
      <3>3. rooted \subseteq rooted' /\ rooted' \subseteq User /\ p.user \in rooted'
        BY <1>0, <2>1, <2>2 DEF AuditTypeOK, TypeOK
      <3>4. untold' = untold /\ untold \subseteq User \X Email /\ p = req[r]
        BY <1>0 DEF AuditTypeOK
      <3>. HIDE DEF p, q
      <3>. QED
        BY <1>0, <2>1, <3>1, <3>2, <3>3, <3>4, QuietStep
    <2>3. CASE Answer(r) /\ UNCHANGED rooted
      BY <1>0, <2>1, <2>3, QuietStep DEF Answer, AuditTypeOK, TypeOK
    <2>. QED
      BY <1>3, <2>2, <2>3 DEF MakeAccount
  <1>4. CASE LogAccount(r)
    <2>1. p.user \in User
      BY <1>4 DEF LogAccount, Logs, TrailIInv, Stages
    <2>. QED
      BY <1>0, <1>4, <2>1, LogsStep DEF LogAccount, Actions
  <1>5. CASE Update(r) \/ Remove(r)
    <2>1. PICK u \in User, e \in Email \cup {None}, pc \in {"logUpdate", "logDelete"} :
            p = Idle /\ Goto(r, [pc |-> pc, user |-> u, email |-> e])
      BY <1>5 DEF Update, Remove
    <2>2. [pc |-> pc, user |-> u, email |-> e] \in Request
      BY DEF Request, Pc
    <2>3. UNCHANGED <<users, email, rooted, log>>
      BY <1>5 DEF Update, Remove
    <2>. QED
      BY <1>0, <2>1, <2>2, <2>3, QuietStep DEF AuditTypeOK, TypeOK
  <1>6. CASE LogUpdate(r)
    BY <1>0, <1>6, LogsStep DEF LogUpdate, Actions, Request
  <1>7. CASE Write(r)
    <2>1. p.pc = "write" /\ p.user \in User /\ Goto(r, Idle) /\ UNCHANGED <<users, rooted, log>>
      BY <1>7 DEF Write, Answer, TrailIInv, Stages
    <2>2. Told' = Told
      BY <1>0, <2>1 DEF Told
    <2>3. CASE email' = email
      BY <1>0, <2>1, <2>3, QuietStep DEF AuditTypeOK, TypeOK
    <2>4. CASE p.email # None /\ email' = [email EXCEPT ![p.user] = p.email]
      <3>1. /\ req' \in [Req -> Request]
            /\ \A s \in Req : req'[s] = IF s = r THEN Idle ELSE req[s]
        BY <1>0, <2>1 DEF Goto, AuditTypeOK, TypeOK
      <3>2. \A action, u, e : Tells(action, u, e)' <=> Tells(action, u, e)
        BY <2>2 DEF Tells
      <3>3. Stages'
        BY <1>0, <2>1, <3>1, <3>2 DEF TrailIInv, Stages
      <3>4. email' \in [User -> Email \cup {None}]
            /\ \A u \in User : email'[u] = IF u = p.user THEN p.email ELSE email[u]
        BY <1>0, <2>4 DEF AuditTypeOK, TypeOK, Request
      <3>5. Tells("UPDATE_USER", None, p.email)
        BY <2>1, <2>4 DEF TrailIInv, Stages
      <3>6. EmailsTold'
        <4>. SUFFICES ASSUME NEW u \in User, users[u] = "live"
                      PROVE  \/ Tells("CREATE_USER", None, email'[u])
                             \/ Tells("UPDATE_USER", None, email'[u])
                             \/ <<u, email'[u]>> \in untold
                             \/ \E s \in Req : /\ req'[s].pc = "logCreate" /\ req'[s].user = u
                                               /\ req'[s].email = email'[u]
          BY <1>0, <2>1, <3>2 DEF EmailsTold
        <4>1. CASE u = p.user
          BY <3>4, <3>5, <4>1
        <4>2. CASE u # p.user
          BY <2>1, <3>1, <3>4, <4>2 DEF TrailIInv, EmailsTold
        <4>. QED
          BY <4>1, <4>2
      <3>7. RemovalsTold' /\ CreationsHappened'
        BY <1>0, <2>1, <2>2, <3>2, NothingTold DEF TrailIInv, RemovalsTold
      <3>8. AuditTypeOK'
        BY <1>0, <2>1, <3>1, <3>4 DEF AuditTypeOK, TypeOK
      <3>. QED
        BY <3>3, <3>6, <3>7, <3>8 DEF TrailIInv
    <2>. QED
      BY <1>7, <2>3, <2>4 DEF Write
  <1>8. CASE LogDelete(r)
    <2>1. p.user \in User
      BY <1>8 DEF LogDelete, Logs, TrailIInv, Stages
    <2>. QED
      BY <1>0, <1>8, <2>1, LogsStep DEF LogDelete, Actions
  <1>9. CASE Delete(r)
    <2>1. p.pc = "delete" /\ p.user \in User /\ Goto(r, Idle) /\ UNCHANGED <<email, rooted, log>>
      BY <1>9 DEF Delete, Answer, TrailIInv, Stages
    <2>2. Told' = Told /\ \A action, u, e : Tells(action, u, e)' <=> Tells(action, u, e)
      BY <1>0, <2>1 DEF Told, Tells
    <2>3. CASE users' = users
      BY <1>0, <2>1, <2>3, QuietStep DEF AuditTypeOK, TypeOK
    <2>4. CASE users[p.user] = "live" /\ users' = [users EXCEPT ![p.user] = "gone"]
      <3>1. /\ req' \in [Req -> Request]
            /\ \A s \in Req : req'[s] = IF s = r THEN Idle ELSE req[s]
        BY <1>0, <2>1 DEF Goto, AuditTypeOK, TypeOK
      <3>2. users' \in [User -> {"new", "live", "gone"}]
            /\ \A u \in User : users'[u] = IF u = p.user THEN "gone" ELSE users[u]
        BY <1>0, <2>4 DEF AuditTypeOK, TypeOK
      <3>3. Stages'
        BY <1>0, <2>1, <2>2, <2>4, <3>1, <3>2 DEF TrailIInv, Stages
      <3>4. RemovalsTold'
        BY <2>1, <2>2, <3>2 DEF TrailIInv, Stages, RemovalsTold
      <3>5. EmailsTold'
        BY <1>0, <2>1, <2>2, <3>1, <3>2 DEF TrailIInv, EmailsTold
      <3>6. CreationsHappened'
        BY <1>0, <2>1, <2>2, NothingTold
      <3>7. AuditTypeOK'
        BY <1>0, <2>1, <3>1, <3>2 DEF AuditTypeOK, TypeOK
      <3>. QED
        BY <3>3, <3>4, <3>5, <3>6, <3>7 DEF TrailIInv
    <2>. QED
      BY <1>9, <2>3, <2>4 DEF Delete
  <1>. QED
    BY <1>1, <1>2, <1>3, <1>4, <1>5, <1>6, <1>7, <1>8, <1>9 DEF Steps, Serves

\* The user of an insert is new, and no other request inserts it.
LEMMA InsertStep ==
  ASSUME TrailIInv, NEW r \in Req, Inserts(r)
  PROVE  TrailIInv'
  <1>. DEFINE p == req[r]
  <1>0. /\ p \in Request /\ AuditTypeOK /\ UNCHANGED <<rooted, log, ours, erased, untold>>
        /\ Idle \in Request /\ Idle.pc = "idle" /\ p.pc = "insert"
    BY DEF Inserts, Insert, TrailIInv, AuditTypeOK, TypeOK, Idle, Request, Pc
  <1>1. /\ p.user \in User /\ p.email \in Email /\ users[p.user] = "new"
        /\ \A s \in Req : req[s].pc = "insert" /\ req[s].user = p.user => s = r
    BY <1>0 DEF TrailIInv, Stages
  <1>2. Told' = Told /\ \A action, u, e : Tells(action, u, e)' <=> Tells(action, u, e)
    BY <1>0 DEF Told, Tells
  <1>3. CASE Goto(r, Idle) /\ UNCHANGED <<users, email>>
    <2>1. inserted' = inserted
      BY <1>3 DEF Inserts
    <2>. QED
      BY <1>0, <1>3, <2>1, QuietStep DEF AuditTypeOK, TypeOK
  <1>4. CASE /\ users' = [users EXCEPT ![p.user] = "live"]
             /\ email' = [email EXCEPT ![p.user] = p.email]
             /\ Await(r, "logCreate")
    <2>. DEFINE q == [p EXCEPT !.pc = "logCreate"]
    <2>1. q \in Request /\ q.pc = "logCreate" /\ q.user = p.user /\ q.email = p.email
      BY <1>0 DEF Request, Pc
    <2>2. Goto(r, q)
      BY <1>4 DEF Await
    <2>. HIDE DEF q
    <2>3. /\ req' \in [Req -> Request]
          /\ \A s \in Req : req'[s] = IF s = r THEN q ELSE req[s]
      BY <1>0, <2>1, <2>2 DEF Goto, AuditTypeOK, TypeOK
    <2>4. /\ users' \in [User -> {"new", "live", "gone"}]
          /\ \A u \in User : users'[u] = IF u = p.user THEN "live" ELSE users[u]
      BY <1>0, <1>4 DEF AuditTypeOK, TypeOK
    <2>5. /\ email' \in [User -> Email \cup {None}]
          /\ \A u \in User : email'[u] = IF u = p.user THEN p.email ELSE email[u]
      BY <1>0, <1>1, <1>4 DEF AuditTypeOK, TypeOK
    <2>6. inserted' = inserted \cup {p.email}
      BY <1>1, <2>4 DEF Inserts
    <2>7. AuditTypeOK'
      BY <1>0, <1>1, <2>3, <2>4, <2>5, <2>6 DEF AuditTypeOK, TypeOK
    <2>8. Stages'
      <3>1. ASSUME NEW s \in Req, s # r
            PROVE  /\ req[s].pc # "idle" => req[s].user \in User
                   /\ req[s].pc = "insert" =>
                        /\ req[s].email \in Email /\ users'[req[s].user] = "new"
                        /\ \A t \in Req : req'[t].pc = "insert" /\ req'[t].user = req[s].user => t = s
        BY <1>1, <2>1, <2>3, <2>4, <3>1 DEF TrailIInv, Stages
      <3>2. ASSUME NEW s \in Req, s # r
            PROVE  /\ req[s].pc = "logCreate" => req[s].email \in inserted'
                   /\ req[s].pc = "logAccount" => req[s].user \in rooted
                   /\ req[s].pc = "write" /\ req[s].email # None =>
                        Tells("UPDATE_USER", None, req[s].email)
                   /\ req[s].pc = "delete" => Tells("DELETE_USER", req[s].user, None)
        BY <2>6 DEF TrailIInv, Stages
      <3>. QED
        BY <1>0, <1>1, <1>2, <2>1, <2>3, <2>6, <3>1, <3>2 DEF Stages
    <2>9. RemovalsTold'
      BY <1>2, <2>4 DEF TrailIInv, RemovalsTold
    <2>10. EmailsTold'
      <3>. SUFFICES ASSUME NEW u \in User, users'[u] = "live"
                    PROVE  \/ Tells("CREATE_USER", None, email'[u])
                           \/ Tells("UPDATE_USER", None, email'[u])
                           \/ <<u, email'[u]>> \in untold
                           \/ \E s \in Req : /\ req'[s].pc = "logCreate" /\ req'[s].user = u
                                             /\ req'[s].email = email'[u]
        BY <1>0, <1>2 DEF EmailsTold
      <3>1. CASE u = p.user
        BY <2>1, <2>3, <2>5, <3>1
      <3>2. CASE u # p.user
        BY <1>0, <2>3, <2>4, <2>5, <3>2 DEF TrailIInv, EmailsTold
      <3>. QED
        BY <3>1, <3>2
    <2>11. CreationsHappened'
      BY <1>0, <1>2, <2>6, NothingTold
    <2>. QED
      BY <2>7, <2>8, <2>9, <2>10, <2>11 DEF TrailIInv
  <1>. QED
    BY <1>3, <1>4 DEF Inserts, Insert, Answer

LEMMA BreakStep ==
  ASSUME TrailIInv, NEW r \in Req, Breaks(r)
  PROVE  TrailIInv'
  <1>. DEFINE p == req[r]
  <1>1. /\ p \in Request /\ AuditTypeOK /\ Idle \in Request /\ Idle.pc = "idle" /\ Goto(r, Idle)
        /\ UNCHANGED <<users, email, rooted, log, ours, erased, inserted>>
    BY DEF Breaks, Fails, Answer, TrailIInv, AuditTypeOK, TypeOK, Idle, Request, Pc
  <1>2. untold' = IF p.pc = "logCreate" THEN untold \cup {<<p.user, p.email>>} ELSE untold
    BY DEF Breaks
  <1>3. p.pc = "logCreate" => p.user \in User /\ p.email \in Email
    BY <1>1 DEF TrailIInv, Stages, AuditTypeOK
  <1>4. untold \subseteq untold' /\ untold' \subseteq User \X Email
    BY <1>1, <1>2, <1>3 DEF AuditTypeOK
  <1>. QED
    BY <1>1, <1>2, <1>4, QuietStep DEF AuditTypeOK, TypeOK

\* An operator of the seeder has an e-mail nobody told.
LEMMA SeedStep ==
  ASSUME TrailIInv, Seeds
  PROVE  TrailIInv'
  <1>0. AuditTypeOK /\ UNCHANGED <<rooted, log, req, ours, erased>>
    BY DEF TrailIInv, Seeds, Seed
  <1>1. PICK v \in User, e \in Configured :
          /\ users[v] = "new" /\ \A s \in Req : req[s].pc = "insert" => req[s].user # v
          /\ users' = [users EXCEPT ![v] = "live"] /\ email' = [email EXCEPT ![v] = e]
    BY DEF Seeds, Seed
  <1>2. /\ users' \in [User -> {"new", "live", "gone"}]
        /\ \A u \in User : users'[u] = IF u = v THEN "live" ELSE users[u]
    BY <1>0, <1>1 DEF AuditTypeOK, TypeOK
  <1>3. /\ email' \in [User -> Email \cup {None}]
        /\ \A u \in User : email'[u] = IF u = v THEN e ELSE email[u]
    BY <1>0, <1>1 DEF AuditTypeOK, TypeOK
  <1>4. {u \in User : users'[u] # users[u]} = {v}
    BY <1>1, <1>2
  <1>5. untold' = untold \cup {<<v, e>>} /\ inserted' = inserted \cup {e}
    <2>. DEFINE made == {u \in User : users'[u] # users[u]}
    <2>1. untold' = untold \cup {<<u, email'[u]>> : u \in made}
          /\ inserted' = inserted \cup {email'[u] : u \in made}
      BY DEF Seeds
    <2>2. made = {v} /\ email'[v] = e
      BY <1>3, <1>4
    <2>. HIDE DEF made
    <2>. QED
      BY <2>1, <2>2
  <1>6. Told' = Told /\ \A action, u, f : Tells(action, u, f)' <=> Tells(action, u, f)
    BY <1>0 DEF Told, Tells
  <1>7. AuditTypeOK'
    BY <1>0, <1>2, <1>3, <1>5 DEF AuditTypeOK, TypeOK
  <1>8. Stages'
    <2>1. \A s \in Req : req[s].pc = "insert" => users'[req[s].user] = "new"
      BY <1>1, <1>2 DEF TrailIInv, Stages
    <2>. QED
      BY <1>0, <1>5, <1>6, <2>1 DEF TrailIInv, Stages
  <1>9. RemovalsTold'
    BY <1>2, <1>6 DEF TrailIInv, RemovalsTold
  <1>10. EmailsTold'
    <2>. SUFFICES ASSUME NEW u \in User, users'[u] = "live"
                  PROVE  \/ Tells("CREATE_USER", None, email'[u])
                         \/ Tells("UPDATE_USER", None, email'[u])
                         \/ <<u, email'[u]>> \in untold'
                         \/ \E s \in Req : /\ req[s].pc = "logCreate" /\ req[s].user = u
                                           /\ req[s].email = email'[u]
      BY <1>0, <1>6 DEF EmailsTold
    <2>1. CASE u = v
      BY <1>3, <1>5, <2>1
    <2>2. CASE u # v
      BY <1>2, <1>3, <1>5, <2>2 DEF TrailIInv, EmailsTold
    <2>. QED
      BY <2>1, <2>2
  <1>11. CreationsHappened'
    BY <1>0, <1>5, <1>6, NothingTold
  <1>. QED
    BY <1>7, <1>8, <1>9, <1>10, <1>11 DEF TrailIInv

\* What operators do to the log.
LEMMA OperatorStep ==
  ASSUME TrailIInv, UNCHANGED <<users, email, rooted, req, inserted, untold>>,
         log' \in [Row -> Entry \cup {None}], erased' \subseteq Entry,
         ours' \subseteq Row, \A i \in ours' : log'[i] # None, Told' = Told
  PROVE  TrailIInv'
  <1>1. AuditTypeOK'
    BY DEF TrailIInv, AuditTypeOK, TypeOK
  <1>2. \A action, u, e : Tells(action, u, e)' <=> Tells(action, u, e)
    BY DEF Tells
  <1>3. Stages' /\ RemovalsTold' /\ EmailsTold'
    BY <1>2 DEF TrailIInv, Stages, RemovalsTold, EmailsTold
  <1>4. CreationsHappened'
    BY NothingTold
  <1>. QED
    BY <1>1, <1>3, <1>4 DEF TrailIInv

LEMMA TrailStep == TrailIInv /\ [AuditNext]_auditVars => TrailIInv'
  <1>. SUFFICES ASSUME TrailIInv, [AuditNext]_auditVars PROVE TrailIInv'
    OBVIOUS
  <1>0. AuditTypeOK
    BY DEF TrailIInv
  <1>1. ASSUME NEW r \in Req, Steps(r) \/ Inserts(r) \/ Breaks(r) PROVE TrailIInv'
    BY <1>1, ServeStep, InsertStep, BreakStep
  <1>2. CASE Seeds
    BY <1>2, SeedStep
  <1>3. ASSUME NEW d \in Device \cup {None}, NEW x \in Written, Posts(d, x) PROVE TrailIInv'
    <2>1. UNCHANGED <<users, email, rooted, req, ours, erased, inserted, untold>>
      BY <1>3 DEF Posts, Post
    <2>. QED
      BY <1>0, <1>3, <2>1, PostTells, OperatorStep DEF AuditTypeOK
  <1>4. ASSUME NEW i \in Row, Erases(i) PROVE TrailIInv'
    <2>1. UNCHANGED <<users, email, rooted, req, inserted, untold>>
      BY <1>4 DEF Erases, PutEntry, DeleteEntry
    <2>. QED
      BY <1>0, <1>4, <2>1, EraseTells, OperatorStep
  <1>5. CASE UNCHANGED auditVars
    <2>1. Told' = Told
      BY <1>5 DEF auditVars, vars, Told
    <2>. QED
      BY <1>0, <1>5, <2>1, OperatorStep DEF auditVars, vars, AuditTypeOK, TypeOK
  <1>. QED
    BY <1>1, <1>2, <1>3, <1>4, <1>5 DEF AuditNext

LEMMA TrailInit == AuditInit => TrailIInv
  <1>. SUFFICES ASSUME AuditInit PROVE TrailIInv
    OBVIOUS
  <1>. USE DEF AuditInit, Init
  <1>1. \A u \in User : /\ users[u] = IF u \in Seeded THEN "live" ELSE "new"
                        /\ u \in Seeded => email[u] \in Email
    OBVIOUS
  <1>2. Idle \in Request /\ Idle.pc = "idle"
    BY DEF Idle, Request, Pc
  <1>3. TypeOK
    BY <1>1, <1>2 DEF TypeOK
  <1>4. AuditTypeOK
    BY <1>1, <1>3 DEF AuditTypeOK
  <1>5. Told = {}
    BY DEF Told
  <1>6. Stages
    BY <1>2 DEF Stages
  <1>7. RemovalsTold /\ EmailsTold
    BY <1>1 DEF RemovalsTold, EmailsTold
  <1>8. CreationsHappened
    BY <1>5 DEF CreationsHappened, Tells
  <1>. QED
    BY <1>4, <1>6, <1>7, <1>8 DEF TrailIInv

\* What services' entries tell of the requests under way, beside a seeder and
\* operators who write any entries and write over or delete what they like.
THEOREM TrailInductive == AuditSpec => []TrailIInv
  BY TrailInit, TrailStep, PTL DEF AuditSpec

\* For any number of requests, users and entries, whatever operators write or
\* erase: nobody is removed without a service's entry that names the user.
THEOREM RemovalsAlwaysTold == AuditSpec => []RemovalsTold
  <1>1. TrailIInv => RemovalsTold
    BY DEF TrailIInv
  <1>. QED
    BY <1>1, TrailInductive, PTL

\* The e-mail of a live user was told by a creation or an update, unless the
\* seeder gave it, the creation's entry is still to come, or its request broke
\* off before it.
THEOREM EmailsAlwaysTold == AuditSpec => []EmailsTold
  <1>1. TrailIInv => EmailsTold
    BY DEF TrailIInv
  <1>. QED
    BY <1>1, TrailInductive, PTL

\* Every creation a service's entry tells of, of a user or a root account,
\* happened; what operators write is not among them.
THEOREM ToldCreationsHappened == AuditSpec => []CreationsHappened
  <1>1. TrailIInv => CreationsHappened
    BY DEF TrailIInv
  <1>. QED
    BY <1>1, TrailInductive, PTL

=============================================================================
