----------------------------- MODULE MCDirectory ----------------------------
(* Instances of DirectoryAudit for TLC: op is the seeded operator, u1 an      *)
(* Android user with two root accounts to be inserted and an ordinary one, a4.*)
EXTENDS DirectoryAudit, TLC

CONSTANTS op, u1, a1, a3, a4

MCUserRole == [u \in User |-> IF u = op THEN "SuperAdmin" ELSE "AndroidUser"]
MCAccountUser == [a \in Account |-> u1]
MCRoot == Account \ {a4}

SlotsAndPins == Permutations(Req) \cup Permutations(Pin)
=============================================================================
