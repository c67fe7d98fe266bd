------------------------------- MODULE MCLease ------------------------------
(* Instances of DeviceUpdate; the devices in Spare are never leased under     *)
(* that name.                                                                 *)
EXTENDS MCLink, DeviceUpdate

CONSTANT Spare

LeasedLists == {{d} : d \in Device \ Spare}

SlotsAndPuts == Permutations(Req) \cup Permutations(Put)
=============================================================================
