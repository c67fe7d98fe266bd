---------------------------- MODULE DeviceUpdate ----------------------------
(***************************************************************************)
(* EmulatorService.update beside the leasing: an operator edits any        *)
(* emulator, a root account one it leases.  Whether a root account does is *)
(* looked up in one query and the emulator written in the next, while      *)
(* other requests end the lease, give the device to another user, delete   *)
(* it or rename it.  The body is stored whole, whatever the DTO: details   *)
(* stand for every column nothing else here reads, device_id is the key.   *)
(* What the status in the body does is in SignalingGateway.                *)
(***************************************************************************)
EXTENDS LinkAudit

CONSTANTS
    Operators,   \* the SuperAdmins, to whom nobody leases anything
    Put         \* slots for update requests of root accounts

\* The screenshot handler would write back the details it read.
ASSUME PutAssumption == None \notin Operators /\ "screenshot" \notin Ops

VARIABLES
    details,    \* whose edit the row of a device has, or None
    ids,        \* history: the keys the row of a device has had
    put         \* the user and device of an edit that has been let pass, or None

putVars == <<auditVars, details, ids, put>>

Author == User \cup Operators

PutTypeOK ==
    /\ details \in [Device -> Author \cup {None}]
    /\ ids \in [Device -> SUBSET Device]
    /\ put \in [Put -> (User \X Device) \cup {None}]

PutInit ==
    /\ AuditInit
    /\ details = [d \in Device |-> None]
    /\ ids = [d \in Device |-> {d}]
    /\ put = [p \in Put |-> None]

\* A token of a root account of u, which is believed after both are deleted.
AdminToken(u) == \E a \in Root : AccountUser[a] = u /\ accounts[a] # "new"

\* Mutant: the lease is looked up by the device only.
PutCheckDevice(p) == \E u \in User, d \in Device :
    /\ put[p] = None /\ AdminToken(u)
    /\ ActiveOn(d) # {}
    /\ put' = [put EXCEPT ![p] = <<u, d>>]
    /\ UNCHANGED <<auditVars, details, ids>>

\* 'You are not authorized to update this emulator' without a lease.
PutCheck(p) == \E u \in User, d \in Device :
    /\ put[p] = None /\ AdminToken(u)
    /\ ActiveLinksOf(u, d) # {}
    /\ put' = [put EXCEPT ![p] = <<u, d>>]
    /\ UNCHANGED <<auditVars, details, ids>>

\* Mutant: a link does not hold its device's key.
MayRenameLeased(d, e) == emulators[e] = "ABSENT"

\* The key e is free, and no link refers to d: it has no ON UPDATE CASCADE.
MayRename(d, e) ==
    emulators[e] = "ABSENT" /\ \A l \in LinkId : LinkDevice[l] = d => ~LinkExists(l)

\* The row of d becomes the row of e.  An update of d that is under way will
\* find no row.
Rename(d, e) ==
    LET hit == IF Busy(d) \/ Busy(e) \/ d \in disturbed THEN {d, e} ELSE {} IN
    /\ emulators' = [emulators EXCEPT ![e] = emulators[d], ![d] = "ABSENT"]
    /\ disturbed' = disturbed \cup hit
    /\ ids' = [ids EXCEPT ![e] = ids[d] \cup {e}, ![d] = {d}]
    /\ UNCHANGED <<users, accounts, userEmulators, expiresAt, accountEmulators, req, raced, named>>

\* The update by primary key d with the device_id e in its body; nothing if
\* there is no such row, or if the key may not change.
Update(author, d, e) ==
    \/ /\ emulators[d] # "ABSENT" /\ e = d
       /\ details' = [details EXCEPT ![d] = author]
       /\ UNCHANGED <<auditVars, ids>>
    \/ /\ emulators[d] # "ABSENT" /\ MayRename(d, e)
       /\ details' = [details EXCEPT ![e] = author, ![d] = None]
       /\ Rename(d, e)
    \/ /\ emulators[d] = "ABSENT" \/ (e # d /\ ~MayRename(d, e))
       /\ UNCHANGED <<auditVars, details, ids>>

PutWrite(p) ==
    /\ put[p] # None
    /\ \E e \in Device : Update(put[p][1], put[p][2], e)
    /\ put' = [put EXCEPT ![p] = None]

\* An operator's update looks nothing up.
PutUnchecked(o) == (\E d, e \in Device : Update(o, d, e)) /\ UNCHANGED put

\* A query fails.
PutFails(p) ==
    /\ Faults /\ put[p] # None
    /\ put' = [put EXCEPT ![p] = None]
    /\ UNCHANGED <<auditVars, details, ids>>

\* The leasing goes on; the details go with the row.
LeasingGoesOn ==
    /\ AuditNext
    /\ details' = [d \in Device |-> IF emulators'[d] = "ABSENT" THEN None ELSE details[d]]
    /\ ids' = [d \in Device |-> IF emulators'[d] = "ABSENT" THEN {d} ELSE ids[d]]
    /\ UNCHANGED put

PutNext ==
    \/ LeasingGoesOn
    \/ \E p \in Put : PutCheck(p) \/ PutWrite(p) \/ PutFails(p)
    \/ \E o \in Operators : PutUnchecked(o)

PutSpec == PutInit /\ [][PutNext]_putVars

-----------------------------------------------------------------------------
\* Only an operator, or who leases or has leased a device, edits it: so it is
\* of the author of its details, also when the edit was written after the
\* lease ended, was deleted with its user or passed to somebody else, and
\* when the device has been renamed since, under one of its names.
EditedByLessee == \A d \in Device : details[d] \notin Operators \cup {None} =>
    \E l \in LinkId : /\ LinkUser[l] = details[d] /\ LinkDevice[l] \in ids[d]
                      /\ userEmulators[l] # "new"

\* 'You are not authorized to update this emulator': the root account that edits
\* a device leases it.  The lease may end between the lookup and the write.
EditorLeases == [][ \A p \in Put : PutWrite(p) /\ details' # details =>
    ActiveLinksOf(put[p][1], put[p][2]) # {} ]_putVars

=============================================================================
