----------------------------- MODULE SeederAudit ----------------------------
(* What the servers that start on one database owe each other and the       *)
(* operators.                                                               *)
EXTENDS Seeder

CONSTANT None

ASSUME SeederAuditAssumption == None \notin Server

VARIABLES
    inserter,   \* the server that inserted last, or None
    removed,    \* operators whose e-mail was freed and that were not seeded since
    since,      \* operators whose e-mail was freed since the start of a server that is up
    broke       \* a server has been stopped by a fault

auditVars == <<vars, inserter, removed, since, broke>>

AuditInit ==
    /\ Init /\ inserter = None /\ removed = {} /\ broke = FALSE
    /\ since = [s \in Server |-> {}]

\* A server that goes down starts anew.
Forget == since' = [s \in Server |-> {o \in since[s] : step'[s] # "down"}]

Inserts(s) ==
    /\ Insert(s) /\ Forget
    /\ IF row' = row THEN UNCHANGED <<inserter, removed>>
       ELSE inserter' = s /\ removed' = removed \ {Seeding(s)}
    /\ UNCHANGED broke

Boots(s) == Bootstrap(s) /\ UNCHANGED <<inserter, removed, since, broke>>

Others(s) ==
    /\ Find(s) \/ FindRole(s)
    /\ Forget
    /\ UNCHANGED <<inserter, removed, broke>>

Breaks(s) == Stops(s) /\ Forget /\ broke' = TRUE /\ UNCHANGED <<inserter, removed>>

Frees(o) ==
    /\ Remove(o) \/ Rename(o)
    /\ removed' = removed \cup {o}
    /\ since' = [s \in Server |-> since[s] \cup {p \in {o} : step[s] # "down"}]
    /\ UNCHANGED <<inserter, broke>>

Takes(o) == Take(o) /\ UNCHANGED <<inserter, removed, since, broke>>

AuditNext ==
    \/ \E s \in Server : Inserts(s) \/ Boots(s) \/ Others(s) \/ Breaks(s)
    \/ \E o \in Operators : Frees(o) \/ Takes(o)

AuditSpec == AuditInit /\ [][AuditNext]_auditVars

\* The database answers each starting server.
FairAuditSpec ==
    /\ AuditSpec
    /\ \A s \in Server : WF_auditVars(Inserts(s) \/ Others(s))

-----------------------------------------------------------------------------
\* A server that listens has everything it needs: all roles, the flag and the
\* operators that nobody deleted or gave another e-mail, whichever servers
\* seeded them, stopped half-way or were started again.
ListeningIsSeeded == \A s \in Server :
    step[s] = "listening" => \A i \in Item \ removed : row[i] = "seeded"

\* Of the servers that start together the refused inserts end all but one:
\* without a fault there is a server up as soon as anything has been seeded.
SomeServerUp == (\E i \in Item : row[i] # "none") /\ ~broke => \E s \in Server : step[s] # "down"

\* To delete an operator, or to give it another e-mail, does not outlast a
\* start: the configured address is without a user only under servers that
\* started before it was freed, whatever other servers found or inserted.
StartRestores == \A s \in Server :
    step[s] = "listening" => \A o \in Operators : row[o] = "none" => o \in since[s]

\* If servers are started, and none is stopped by a fault, one of them listens.
SomeServerListens ==
    (\E s \in Server : step[s] # "down") ~> (broke \/ \E s \in Server : step[s] = "listening")

-----------------------------------------------------------------------------
(* The inductive invariant. *)

AuditTypeOK ==
    /\ TypeOK
    /\ inserter \in Server \cup {None}
    /\ removed \subseteq Operators
    /\ since \in [Server -> SUBSET Operators]
    /\ broke \in BOOLEAN

\* What a starting server has come past is there, or was freed since.
Passed == \A s \in Server :
    /\ step[s] \in Starting => \A k \in 1..Last : k < at[s] =>
         /\ row[Seeds[k]] = "seeded" \/ Seeds[k] \in removed
         /\ row[Seeds[k]] # "none" \/ Seeds[k] \in since[s]
    /\ step[s] = "findRole" => Seeding(s) \in Operators
    /\ step[s] = "down" => since[s] = {}

\* Nobody but an operator takes an address, and only when it was freed.
TakenLater == \A i \in Item : row[i] = "took" => i \in removed

\* A listening server stays up.  Until there is one, nobody has inserted since
\* the last inserter did: what it has not found is still not there.
InserterUp ==
    \/ Listening
    \/ IF inserter = None THEN \A i \in Item : row[i] = "none"
       ELSE /\ step[inserter] # "down"
            /\ step[inserter] \in {"findRole", "insert"} => row[Seeding(inserter)] = "none"

SeederIInv ==
    AuditTypeOK /\ Passed /\ TakenLater /\ ListeningIsSeeded /\ StartRestores /\ (broke \/ InserterUp)

=============================================================================
