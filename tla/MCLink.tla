------------------------------- MODULE MCLink -------------------------------
(* Instances of LinkAudit and LeaseViews for TLC: two users, each with the  *)
(* accounts of the configuration, at most Leases leases of a device by u1   *)
(* and one by u2.                                                           *)
EXTENDS LeaseViews, TLC

CONSTANTS Leases, u1, u2, a1, a2, a3

MCLinkId == {l \in User \X Device \X (1..Leases) : l[1] = u1 \/ l[3] = 1}
MCLinkUser == [l \in MCLinkId |-> l[1]]
MCLinkDevice == [l \in MCLinkId |-> l[2]]
MCAccountUser == [a \in Account |-> IF a = a2 THEN u2 ELSE u1]
MCRoot == Account \ {a3}
AllLists == (SUBSET Device) \ {{}}
SingleLists == {{d} : d \in Device}
AllAccounts == (SUBSET Account) \ {{}}
OrdinaryLists == {{a} : a \in Account \ Root}

\* A start with every user, account and device there, and no request under way.
PopulatedInit ==
    /\ users = [u \in User |-> "live"]
    /\ accounts = [a \in Account |-> "live"]
    /\ emulators = [d \in Device |-> "AVAILABLE"]
    /\ userEmulators = [l \in LinkId |-> "new"]
    /\ expiresAt = [l \in LinkId |-> 0]
    /\ accountEmulators = {}
    /\ req = [r \in Req |-> Idle]
    /\ disturbed = {} /\ raced = {} /\ named = {}

PopulatedSpec == PopulatedInit /\ [][AuditNext]_auditVars

Slots == Permutations(Req)
=============================================================================
