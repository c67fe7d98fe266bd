------------------------------- MODULE MCTrail ------------------------------
(* Instances of TrailAudit for TLC.                                          *)
EXTENDS TrailAudit, TLC

\* What operators write: what a service would, whether it happened or not.
Forged ==
    {[action |-> "CREATE_USER", metadata |-> Meta(None, e)] : e \in Email}
    \cup {[action |-> a, metadata |-> Meta(u, None)] :
             a \in {"CREATE_ACCOUNT", "DELETE_USER"}, u \in Android}

Names == Permutations(Row) \cup Permutations(Req) \cup Permutations(Email \ Configured)
=============================================================================
