------------------------------- MODULE Seeder -------------------------------
(***************************************************************************)
(* CoreDataSeederService, called by bootstrap before the server listens:   *)
(* the roles, the two operators and the encryption flag are looked up one  *)
(* by one and inserted when they are not there.  Several servers may start *)
(* on one database; a unique column (roles.name, users.email, the key of   *)
(* the flag) refuses the insert of the second, and nothing catches it:     *)
(* `void bootstrap()` rejects and the process ends.                        *)
(*   An operator is looked up by the e-mail address of the configuration,  *)
(* and not by its id: once the seeded user is deleted or given another     *)
(* address, the next start inserts an operator again.  What edits a user   *)
(* without its e-mail, or switches the flag, leaves a row that is found.   *)
(***************************************************************************)
EXTENDS Naturals, Sequences

CONSTANTS
    Server,
    Faults      \* TRUE: queries fail and servers stop

ASSUME SeederAssumption == Faults \in BOOLEAN

\* Mutant: an operator before the role it refers to.
OperatorEarly ==
    <<"EmulatorAdmin", "superAdmin", "SuperAdmin", "AndroidUser", "emulatorUser", "encryption">>

\* The order of the seeding: the roles, each operator, the flag.
Seeds == <<"EmulatorAdmin", "SuperAdmin", "AndroidUser", "superAdmin", "emulatorUser", "encryption">>

Last == 6
Operators == {"superAdmin", "emulatorUser"}
RoleOf(o) == IF o = "superAdmin" THEN "SuperAdmin" ELSE "EmulatorAdmin"
Item == {"EmulatorAdmin", "SuperAdmin", "AndroidUser", "encryption"} \cup Operators

VARIABLES
    row,    \* what has the name, the e-mail or the key of an item: "none",
            \* the "seeded" row, or for an operator's e-mail a user who "took" it
    step,   \* what a server is doing
    at      \* the place in Seeds a starting server has come to

vars == <<row, step, at>>

Starting == {"find", "findRole", "insert"}

TypeOK ==
    /\ row \in [Item -> {"none", "seeded", "took"}]
    /\ step \in [Server -> Starting \cup {"down", "listening"}]
    /\ at \in [Server -> 1..Last]

Init ==
    /\ row = [i \in Item |-> "none"]
    /\ step = [s \in Server |-> "down"]
    /\ at = [s \in Server |-> 1]

\* What a server is looking up or inserting.
Seeding(s) == Seeds[at[s]]

Goto(s, p) == step' = [step EXCEPT ![s] = p] /\ UNCHANGED at

\* On to the next item, or to app.listen.
Advance(s) ==
    IF at[s] = Last THEN Goto(s, "listening")
    ELSE step' = [step EXCEPT ![s] = "find"] /\ at' = [at EXCEPT ![s] = @ + 1]

\* Mutant: a start goes on where the last one of this server ended.
BootstrapResumes(s) ==
    /\ step[s] = "down"
    /\ Goto(s, "find")
    /\ UNCHANGED row

Bootstrap(s) ==
    /\ step[s] = "down"
    /\ step' = [step EXCEPT ![s] = "find"]
    /\ at' = [at EXCEPT ![s] = 1]
    /\ UNCHANGED row

\* Mutant: any user will do, as when the e-mail address is not configured.
FindAnyUser(s) ==
    /\ step[s] = "find"
    /\ IF row[Seeding(s)] # "none"
          \/ (Seeding(s) \in Operators /\ \E o \in Operators : row[o] # "none")
         THEN Advance(s)
         ELSE Goto(s, IF Seeding(s) \in Operators THEN "findRole" ELSE "insert")
    /\ UNCHANGED row

\* findOne by name, e-mail or id; an operator needs its role next.
Find(s) ==
    /\ step[s] = "find"
    /\ IF row[Seeding(s)] # "none" THEN Advance(s)
       ELSE Goto(s, IF Seeding(s) \in Operators THEN "findRole" ELSE "insert")
    /\ UNCHANGED row

\* role.id of a role that is not there is a TypeError, and the process ends.
FindRole(s) ==
    /\ step[s] = "findRole"
    /\ Goto(s, IF row[RoleOf(Seeding(s))] # "none" THEN "insert" ELSE "down")
    /\ UNCHANGED row

\* save and insert: refused when another server has inserted since.
Insert(s) ==
    /\ step[s] = "insert"
    /\ \/ /\ row[Seeding(s)] = "none"
          /\ row' = [row EXCEPT ![Seeding(s)] = "seeded"]
          /\ Advance(s)
       \/ /\ row[Seeding(s)] # "none"
          /\ Goto(s, "down") /\ UNCHANGED row

\* A query is refused while the server starts, or the process stops.
Stops(s) ==
    /\ Faults /\ step[s] # "down"
    /\ Goto(s, "down")
    /\ UNCHANGED row

Listening == \E s \in Server : step[s] = "listening"

\* While a server listens, the user with an operator's e-mail is deleted, ...
Remove(o) ==
    /\ Listening
    /\ row[o] # "none"
    /\ row' = [row EXCEPT ![o] = "none"]
    /\ UNCHANGED <<step, at>>

\* ... is given another address and is an operator no start looks for, ...
Rename(o) ==
    /\ Listening
    /\ row[o] # "none"
    /\ row' = [row EXCEPT ![o] = "none"]
    /\ UNCHANGED <<step, at>>

\* ... or another user is created with the free address, or is given it.
Take(o) ==
    /\ Listening
    /\ row[o] = "none"
    /\ row' = [row EXCEPT ![o] = "took"]
    /\ UNCHANGED <<step, at>>

Seed(s) == Find(s) \/ FindRole(s) \/ Insert(s)

Next ==
    \/ \E s \in Server : Bootstrap(s) \/ Seed(s) \/ Stops(s)
    \/ \E o \in Operators : Remove(o) \/ Rename(o) \/ Take(o)

Spec == Init /\ [][Next]_vars

=============================================================================
