---------------------------- MODULE ActivityTrail ---------------------------
(***************************************************************************)
(* The activity log: ActivityLogService, the routes an operator edits it   *)
(* with, and the one service that writes it, UsersService, with create,    *)
(* update and remove query by query (devices and cascades of remove are in *)
(* LinkService).  A creation is logged after its insert, an update or a    *)
(* removal before its write; no transaction holds the two together.  The   *)
(* seeder makes its operators without an entry, when the system is set up  *)
(* and whenever a server starts and finds nobody with their e-mail.        *)
(* Names, passwords and dates are left out, and so is update's refusal of  *)
(* a role, which happens before anything else.                             *)
(***************************************************************************)
EXTENDS FiniteSets

CONSTANTS
    User, Email, Device, None,
    Req,      \* the requests the server serves at a time
    Row,      \* activity_log.id (a bound: no more entries than this at a time)
    Android,  \* the users created with the role AndroidUser
    Seeded,   \* the operators made when the system was set up
    Configured,  \* the e-mails the seeder gives operators
    Written,  \* the entries operators write (a bound: the routes take any)
    Faults    \* TRUE: queries fail

VARIABLES
    users,    \* "new", "live" or "gone"
    email,    \* users.email
    rooted,   \* users that create made the root account of
    log,      \* the table activity_log
    req       \* the request being served in each slot

vars == <<users, email, rooted, log, req>>

Actions == {"CREATE_USER", "UPDATE_USER", "DELETE_USER", "CREATE_ACCOUNT", "START_STREAMING"}

\* What metadata says: whom it is about and with which e-mail.
Metadata == [user : User \cup {None}, email : Email \cup {None}]
Entry == [action : Actions, metadata : Metadata]

ASSUME TrailAssumption ==
    /\ None \notin User \cup Email \cup Device
    /\ Android \subseteq User /\ Seeded \subseteq User \ Android
    /\ Configured \subseteq Email
    /\ None \notin Entry /\ Written \subseteq Entry
    /\ Faults \in BOOLEAN

Pc == {"idle", "insert", "logCreate", "account", "logAccount",
       "logUpdate", "write", "logDelete", "delete"}
Request == [pc : Pc, user : User \cup {None}, email : Email \cup {None}]
Idle == [pc |-> "idle", user |-> None, email |-> None]

TypeOK ==
    /\ users \in [User -> {"new", "live", "gone"}]
    /\ email \in [User -> Email \cup {None}]
    /\ rooted \subseteq User
    /\ log \in [Row -> Entry \cup {None}]
    /\ req \in [Req -> Request]

Init ==
    /\ users = [u \in User |-> IF u \in Seeded THEN "live" ELSE "new"]
    /\ email \in [User -> Configured \cup {None}]
    /\ \A u \in User : email[u] = None <=> u \notin Seeded
    /\ \A u, v \in Seeded : email[u] = email[v] => u = v
    /\ rooted = {}
    /\ log = [i \in Row |-> None]
    /\ req = [r \in Req |-> Idle]

-----------------------------------------------------------------------------
(* ActivityLogService *)

\* A CreateActivityLogDto: whom and which device the entry is about, and what
\* it tells.
Dto(user, device, action, metadata) ==
    [user_id |-> user, device_id |-> device, action |-> action, metadata |-> metadata]

Meta(user, e) == [user |-> user, email |-> e]

\* The row of dto: of its four fields two are columns.
RowOf(dto) == [action |-> dto.action, metadata |-> dto.metadata]

Append(dto) == \E i \in Row :
    /\ log[i] = None
    /\ log' = [log EXCEPT ![i] = RowOf(dto)]

\* Operators write any action and any metadata, those of services included.
Post(d, x) ==
    /\ Append(Dto(None, d, x.action, x.metadata))
    /\ UNCHANGED <<users, email, rooted, req>>

PutEntry(i, x) ==
    /\ log[i] # None
    /\ log' = [log EXCEPT ![i] = RowOf(Dto(None, None, x.action, x.metadata))]
    /\ UNCHANGED <<users, email, rooted, req>>

DeleteEntry(i) ==
    /\ log[i] # None
    /\ log' = [log EXCEPT ![i] = None]
    /\ UNCHANGED <<users, email, rooted, req>>

-----------------------------------------------------------------------------
Goto(r, q) == req' = [req EXCEPT ![r] = q]
Await(r, pc) == Goto(r, [req[r] EXCEPT !.pc = pc])
Answer(r) == Goto(r, Idle)

\* Log an entry of action with this metadata and go on with pc.
Logs(r, from, action, metadata, pc) ==
    /\ req[r].pc = from
    /\ Append(Dto(req[r].user, None, action, metadata))
    /\ IF pc = "idle" THEN Answer(r) ELSE Await(r, pc)
    /\ UNCHANGED <<users, email, rooted>>

Taken(e) == \E u \in User : users[u] = "live" /\ email[u] = e

-----------------------------------------------------------------------------
(* The seeder *)

\* A server starts: seedSuperAdmin and seedEmulatorUser save an operator when
\* its e-mail is nobody's, and log nothing.
Seed == \E u \in User \ Android, e \in Configured :
    /\ users[u] = "new" /\ ~Taken(e)
    /\ \A s \in Req : req[s].pc = "insert" => req[s].user # u
    /\ users' = [users EXCEPT ![u] = "live"]
    /\ email' = [email EXCEPT ![u] = e]
    /\ UNCHANGED <<rooted, log, req>>

-----------------------------------------------------------------------------
(* UsersService.create *)

Create(r) == \E u \in User, e \in Email :
    /\ req[r] = Idle /\ users[u] = "new"
    /\ \A s \in Req : req[s].pc = "insert" => req[s].user # u
    /\ Goto(r, [pc |-> "insert", user |-> u, email |-> e])
    /\ UNCHANGED <<users, email, rooted, log>>

\* The id is new, the e-mail may be in use.
Insert(r) ==
    LET q == req[r] IN
    /\ q.pc = "insert"
    /\ IF Taken(q.email)
         THEN Answer(r) /\ UNCHANGED <<users, email>>
         ELSE /\ users' = [users EXCEPT ![q.user] = "live"]
              /\ email' = [email EXCEPT ![q.user] = q.email]
              /\ Await(r, "logCreate")
    /\ UNCHANGED <<rooted, log>>

\* The metadata is the body of the request, which has no id.
LogCreate(r) ==
    Logs(r, "logCreate", "CREATE_USER", Meta(None, req[r].email),
         IF req[r].user \in Android THEN "account" ELSE "idle")

\* Mutant: the creation is not awaited, so its refusal goes unnoticed.
MakeAccountUnawaited(r) ==
    LET u == req[r].user IN
    /\ req[r].pc = "account"
    /\ rooted' = IF users[u] = "live" THEN rooted \cup {u} ELSE rooted
    /\ Await(r, "logAccount")
    /\ UNCHANGED <<users, email, log>>

\* AccountsService.create; the foreign key refuses the account of a user
\* deleted meanwhile.
MakeAccount(r) ==
    LET u == req[r].user IN
    /\ req[r].pc = "account"
    /\ IF users[u] = "live"
         THEN rooted' = rooted \cup {u} /\ Await(r, "logAccount")
         ELSE Answer(r) /\ UNCHANGED rooted
    /\ UNCHANGED <<users, email, log>>

LogAccount(r) == Logs(r, "logAccount", "CREATE_ACCOUNT", Meta(req[r].user, None), "idle")

-----------------------------------------------------------------------------
(* UsersService.update and remove *)

\* Mutant: the write goes ahead of the entry.
UpdateFirst(r) == \E u \in User, e \in Email \cup {None} :
    /\ req[r] = Idle /\ users[u] # "new"
    /\ Goto(r, [pc |-> "write", user |-> u, email |-> e])
    /\ UNCHANGED <<users, email, rooted, log>>

\* Without an e-mail the update is about the name or the password.
Update(r) == \E u \in User, e \in Email \cup {None} :
    /\ req[r] = Idle /\ users[u] # "new"
    /\ Goto(r, [pc |-> "logUpdate", user |-> u, email |-> e])
    /\ UNCHANGED <<users, email, rooted, log>>

LogUpdate(r) == Logs(r, "logUpdate", "UPDATE_USER", Meta(None, req[r].email), "write")

\* Refused when the e-mail is another's, without effect when the user is gone.
Write(r) ==
    LET q == req[r] IN
    /\ q.pc = "write"
    /\ email' = IF users[q.user] = "live" /\ q.email # None /\ ~Taken(q.email)
                  THEN [email EXCEPT ![q.user] = q.email] ELSE email
    /\ Answer(r)
    /\ UNCHANGED <<users, rooted, log>>

\* Mutant: the delete goes ahead of the entry.
RemoveFirst(r) == \E u \in User :
    /\ req[r] = Idle /\ users[u] # "new"
    /\ Goto(r, [pc |-> "delete", user |-> u, email |-> None])
    /\ UNCHANGED <<users, email, rooted, log>>

Remove(r) == \E u \in User :
    /\ req[r] = Idle /\ users[u] # "new"
    /\ Goto(r, [pc |-> "logDelete", user |-> u, email |-> None])
    /\ UNCHANGED <<users, email, rooted, log>>

LogDelete(r) == Logs(r, "logDelete", "DELETE_USER", Meta(req[r].user, None), "delete")

Delete(r) ==
    LET u == req[r].user IN
    /\ req[r].pc = "delete"
    /\ users' = IF users[u] = "live" THEN [users EXCEPT ![u] = "gone"] ELSE users
    /\ Answer(r)
    /\ UNCHANGED <<email, rooted, log>>

-----------------------------------------------------------------------------
\* A query rejects, or the server stops under the request.
Fails(r) ==
    /\ Faults /\ req[r] # Idle
    /\ Answer(r)
    /\ UNCHANGED <<users, email, rooted, log>>

Serves(r) ==
    \/ Create(r) \/ LogCreate(r) \/ MakeAccount(r) \/ LogAccount(r)
    \/ Update(r) \/ LogUpdate(r) \/ Write(r)
    \/ Remove(r) \/ LogDelete(r) \/ Delete(r)

Next ==
    \/ \E r \in Req : Serves(r) \/ Insert(r) \/ Fails(r)
    \/ Seed
    \/ \E d \in Device \cup {None}, x \in Written : Post(d, x)
    \/ \E i \in Row : DeleteEntry(i) \/ \E x \in Written : PutEntry(i, x)

Spec == Init /\ [][Next]_vars

=============================================================================
