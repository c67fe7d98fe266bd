------------------------------- MODULE MCRelay ------------------------------
(* Instances of RelayAudit for TLC: pages of the emulator d1, of the account *)
(* a1 (c1 and c2) and of the account a2 (c3).                                *)
EXTENDS RelayAudit

CONSTANTS d1, a1, a2, c1, c2, c3  \* c1 and c2 of a1, c3 of a2

MCOwner == [s \in Socket |-> IF s \in Emulator THEN d1 ELSE IF s = c3 THEN a2 ELSE a1]
Once == [c \in Client |-> 1]
Twice == [c \in Client |-> IF c = c1 THEN 2 ELSE 1]
MCTarget == [c \in Client |-> d1]
=============================================================================
