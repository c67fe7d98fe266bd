----------------------------- MODULE TrailAudit -----------------------------
(* What the entries that services wrote tell of the users, through failures   *)
(* and overlapping requests, and beside the operators who write entries of    *)
(* their own, delete entries and write over them.                             *)
EXTENDS ActivityTrail, Naturals

CONSTANTS
    MaxErased,   \* a bound on the entries of services that operators erase
    MaxWritten   \* a bound on the entries of operators at a time

VARIABLES
    ours,       \* the rows that a service wrote
    erased,     \* entries of services that an operator deleted or wrote over
    inserted,   \* e-mails that users were created with
    untold      \* <<user, e-mail>>: made so by the seeder, or by a request
                \* that broke off before its entry

auditVars == <<vars, ours, erased, inserted, untold>>

AuditInit ==
    /\ Init /\ ours = {} /\ erased = {}
    /\ inserted = {email[u] : u \in Seeded}
    /\ untold = {<<u, email[u]>> : u \in Seeded}

Wrote == ours' = ours \cup {i \in Row : log'[i] # log[i]}

Steps(r) == Serves(r) /\ Wrote /\ UNCHANGED <<erased, inserted, untold>>

Inserts(r) ==
    /\ Insert(r)
    /\ inserted' = IF users' = users THEN inserted ELSE inserted \cup {req[r].email}
    /\ UNCHANGED <<ours, erased, untold>>

Breaks(r) ==
    /\ Fails(r)
    /\ untold' = IF req[r].pc = "logCreate" THEN untold \cup {<<req[r].user, req[r].email>>}
                 ELSE untold
    /\ UNCHANGED <<ours, erased, inserted>>

Seeds ==
    /\ Seed
    /\ LET made == {u \in User : users'[u] # users[u]}
       IN  /\ untold' = untold \cup {<<u, email'[u]>> : u \in made}
           /\ inserted' = inserted \cup {email'[u] : u \in made}
    /\ UNCHANGED <<ours, erased>>

Others == {i \in Row \ ours : log[i] # None}

Posts(d, x) ==
    /\ Cardinality(Others) < MaxWritten
    /\ Post(d, x)
    /\ UNCHANGED <<ours, erased, inserted, untold>>

Erases(i) ==
    /\ Cardinality(erased) < MaxErased
    /\ \/ DeleteEntry(i)
       \/ Cardinality(Others) < MaxWritten /\ \E x \in Written : PutEntry(i, x)
    /\ ours' = ours \ {i}
    /\ erased' = IF i \in ours THEN erased \cup {log[i]} ELSE erased
    /\ UNCHANGED <<inserted, untold>>

AuditNext ==
    \/ \E r \in Req : Steps(r) \/ Inserts(r) \/ Breaks(r)
    \/ Seeds
    \/ \E d \in Device \cup {None}, x \in Written : Posts(d, x)
    \/ \E i \in Row : Erases(i)

AuditSpec == AuditInit /\ [][AuditNext]_auditVars

-----------------------------------------------------------------------------
AuditTypeOK ==
    /\ TypeOK
    /\ ours \subseteq Row /\ \A i \in ours : log[i] # None
    /\ erased \subseteq Entry /\ inserted \subseteq Email
    /\ untold \subseteq User \X Email

\* What services have logged, erased entries included: an entry that an
\* operator wrote does not count, whatever it says.
Told == {log[i] : i \in ours} \cup erased

Tells(action, user, e) == [action |-> action, metadata |-> Meta(user, e)] \in Told

\* Nobody is removed without an entry of UsersService.remove that names the
\* user, whichever query fails and whoever else updates or removes the user:
\* the entry goes ahead.
RemovalsTold == \A u \in User : users[u] = "gone" => Tells("DELETE_USER", u, None)

\* The e-mail of a live user, which is what the user signs in with, is in a
\* service's entry of a creation or an update, with three exceptions: the
\* seeder gave it, the creation is not over, or it broke off before its entry.
\* A creation's entry follows it, an update's precedes it.
EmailsTold == \A u \in User : users[u] = "live" =>
    \/ Tells("CREATE_USER", None, email[u]) \/ Tells("UPDATE_USER", None, email[u])
    \/ <<u, email[u]>> \in untold
    \/ \E r \in Req : req[r].pc = "logCreate" /\ req[r].user = u /\ req[r].email = email[u]

\* No service's entry tells of a creation that did not happen: where none of a
\* user of that e-mail, or no root account of that user, was ever made, an entry
\* that says so is an operator's.
CreationsHappened ==
    /\ \A e \in Email : Tells("CREATE_USER", None, e) => e \in inserted
    /\ \A u \in User : Tells("CREATE_ACCOUNT", u, None) => u \in rooted

-----------------------------------------------------------------------------
(* The inductive invariant: what a request at each stage has done or logged. *)

Stages == \A r \in Req : LET q == req[r] IN
    /\ q.pc # "idle" => q.user \in User
    /\ q.pc = "insert" =>
         /\ q.email \in Email /\ users[q.user] = "new"
         /\ \A s \in Req : req[s].pc = "insert" /\ req[s].user = q.user => s = r
    /\ q.pc = "logCreate" => q.email \in inserted
    /\ q.pc = "logAccount" => q.user \in rooted
    /\ q.pc = "write" /\ q.email # None => Tells("UPDATE_USER", None, q.email)
    /\ q.pc = "delete" => Tells("DELETE_USER", q.user, None)

TrailIInv == AuditTypeOK /\ Stages /\ RemovalsTold /\ EmailsTold /\ CreationsHappened

=============================================================================
