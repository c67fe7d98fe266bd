----------------------------- MODULE LeaseLedger ----------------------------
(***************************************************************************)
(* What the leasing of emulators promises, with no tables and no requests: *)
(* a device has at most one holder, is taken only when nobody holds it,    *)
(* and changes hands only through being free.  The promise is kept for a   *)
(* device until requests overlap on it or one of them breaks off: from     *)
(* then on the device is "wild" and nothing is said of it.                 *)
(***************************************************************************)
EXTENDS Naturals

CONSTANTS User, Device

VARIABLES holders,   \* the users a device is leased to
          wild       \* the devices the promise no longer covers

Init ==
    /\ holders = [d \in Device |-> {}]
    /\ wild = {}

Taken(d) == holders[d] = {} /\ \E u \in User : holders'[d] = {u}
Ended(d) == holders'[d] = {}
Kept(d)  == holders'[d] = holders[d]

Next ==
    /\ holders' \in [Device -> SUBSET User]
    /\ wild' \in SUBSET Device
    /\ wild \subseteq wild'
    /\ \A d \in Device \ wild' : Taken(d) \/ Ended(d) \/ Kept(d)

Spec == Init /\ [][Next]_<<holders, wild>>

=============================================================================
