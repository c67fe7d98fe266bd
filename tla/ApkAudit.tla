------------------------------ MODULE ApkAudit ------------------------------
(* What a client is told of and sent, and what uploads that overlap or fail  *)
(* make of it.                                                               *)
EXTENDS ApkStore

VARIABLES
    crossed,    \* uploads that were at work while another one was
    settled     \* the last upload to begin, once it has succeeded undisturbed, or None

auditVars == <<vars, crossed, settled>>

AuditInit == Init /\ crossed = {} /\ settled = None

Begins(u) ==
    /\ Begin(u)
    /\ crossed' = IF Busy = {} THEN crossed ELSE crossed \cup Busy \cup {u}
    /\ settled' = None

Inserts(u) ==
    /\ Insert(u)
    /\ settled' = IF pc'[u] = "done" /\ u \notin crossed THEN u ELSE settled
    /\ UNCHANGED crossed

Others(u) ==
    /\ Refuse(u) \/ Written(u) \/ Delete(u) \/ Fails(u)
    /\ UNCHANGED <<crossed, settled>>

AuditNext == \E u \in Upload : Begins(u) \/ Inserts(u) \/ Others(u)

AuditSpec == AuditInit /\ [][AuditNext]_auditVars

-----------------------------------------------------------------------------
\* After an upload that nothing crossed, clients are told of its version and
\* sent its file until the next one begins, whatever uploads that failed,
\* crossed or had higher versions left behind.
UploadTakesEffect == settled # None =>
    Announced = {VersionOf[settled]} /\ Downloaded = {settled}

\* A table with several versions, and a file with the bytes of several uploads,
\* come only from uploads that overlapped.
OnlyOverlapsMix ==
    /\ \A v, w \in apks : v # w => v \in {VersionOf[u] : u \in crossed}
    /\ \A u, w \in file : u # w => u \in crossed

-----------------------------------------------------------------------------
(* The inductive invariant. *)

AuditTypeOK ==
    /\ TypeOK
    /\ crossed \subseteq Upload
    /\ settled \in Upload \cup {None}

\* At most one upload that is at work is not crossed, and then no other is at
\* work; the file is its own, and between its statements the table is empty.
Alone == \A u \in Busy \ crossed :
    /\ Busy = {u} /\ settled = None
    /\ file = {u}
    /\ pc[u] = "insert" => apks = {}

\* What has been inserted since u deleted was inserted by uploads that cross it.
SinceDelete == \A u \in Upload :
    pc[u] = "insert" => apks \subseteq {VersionOf[w] : w \in crossed}

\* The settled upload was the last to change anything.
SettledLast == settled # None => Busy = {} /\ file = {settled} /\ apks = {VersionOf[settled]}

\* An upload that still writes is among those whose bytes the file has.
Writers == \A u \in Upload : pc[u] = "write" => u \in file

ApkIInv == AuditTypeOK /\ Alone /\ SinceDelete /\ SettledLast /\ Writers /\ OnlyOverlapsMix

-----------------------------------------------------------------------------
(* A claim of the repository that the service does not keep.                *)

\* @IsNumber() version: an upload whose version is no number is turned away
\* before it changes anything.
BadVersionHarmless == [][ \A u \in Upload :
    VersionOf[u] = None /\ pc'[u] # pc[u] => apks' = apks ]_auditVars

=============================================================================
