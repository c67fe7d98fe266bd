------------------------------ MODULE ApkStore ------------------------------
(***************************************************************************)
(* ApkController and ApkService: the Android client is published as one    *)
(* file on disk, always of the same name, and a row of the table apk with  *)
(* its version.  An upload streams the file, deletes all rows and inserts  *)
(* its own, each without regard to the other uploads.                      *)
(***************************************************************************)
EXTENDS Naturals

CONSTANTS
    Upload,     \* the requests
    VersionOf,  \* what an upload is sent as; None without a number and a `force`
    None,
    Faults      \* TRUE: writes and queries fail

ASSUME ApkAssumption ==
    /\ None \notin Nat \cup Upload
    /\ VersionOf \in [Upload -> Nat \cup {None}]
    /\ Faults \in BOOLEAN

VARIABLES
    pc,
    file,   \* the uploads whose bytes damaru.apk has
    apks    \* the versions in the table

vars == <<pc, file, apks>>

Working == {"write", "delete", "insert"}
Busy == {u \in Upload : pc[u] \in Working}

TypeOK ==
    /\ pc \in [Upload -> Working \cup {"new", "done", "refused"}]
    /\ file \in SUBSET Upload
    /\ apks \in SUBSET Nat

Init ==
    /\ pc = [u \in Upload |-> "new"]
    /\ file = {} /\ apks = {}

Goto(u, p) == pc' = [pc EXCEPT ![u] = p]

\* multer opens the file for writing, which empties it; uploads that are still
\* writing go on, each at its own place.
Begin(u) ==
    /\ pc[u] = "new"
    /\ file' = {u} \cup {w \in Upload : pc[w] = "write"}
    /\ Goto(u, "write") /\ UNCHANGED apks

\* A request without a file, or with one of another type, changes nothing.
Refuse(u) == pc[u] = "new" /\ Goto(u, "refused") /\ UNCHANGED <<file, apks>>

Written(u) == pc[u] = "write" /\ Goto(u, "delete") /\ UNCHANGED <<file, apks>>

\* Mutant: only the row of the same version is deleted.
DeleteSame(u) ==
    /\ pc[u] = "delete"
    /\ apks' = apks \ {VersionOf[u]}
    /\ Goto(u, "insert") /\ UNCHANGED file

\* apkRepository.delete({})
Delete(u) ==
    /\ pc[u] = "delete"
    /\ apks' = {}
    /\ Goto(u, "insert") /\ UNCHANGED file

\* The insert, refused for a version that is there or is not a number.
Insert(u) ==
    /\ pc[u] = "insert"
    /\ \/ /\ VersionOf[u] \in Nat \ apks
          /\ apks' = apks \cup {VersionOf[u]}
          /\ Goto(u, "done")
       \/ /\ VersionOf[u] \notin Nat \ apks
          /\ Goto(u, "refused") /\ UNCHANGED apks
    /\ UNCHANGED file

Fails(u) ==
    /\ Faults /\ pc[u] \in Working
    /\ Goto(u, "refused") /\ UNCHANGED <<file, apks>>

Next == \E u \in Upload : Begin(u) \/ Refuse(u) \/ Written(u) \/ Delete(u) \/ Insert(u) \/ Fails(u)

Spec == Init /\ [][Next]_vars

-----------------------------------------------------------------------------
\* getLatestApkPath: the row with the highest version, or 'No APK found!'
Latest == {v \in apks : \A w \in apks : w <= v}

\* What get announces, and the uploads whose bytes download sends with it.
Announced == Latest
Downloaded == IF Latest = {} THEN {} ELSE file

=============================================================================
