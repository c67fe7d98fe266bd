------------------------------ MODULE MCGateway -----------------------------
(* Instances of GatewayAudit for TLC: the sockets e1, e2, e3 are emulators', *)
(* the sockets c1, c2, c3 are clients' of the first account.                 *)
EXTENDS GatewayAudit, TLC

CONSTANTS EmulatorSocket, ClientSocket, d1, d2, a1, a2, Rows

MCSocket == EmulatorSocket \cup ClientSocket
MCOwner == [s \in MCSocket |-> IF s \in EmulatorSocket THEN d1 ELSE a1]
MCRowId == Account \X Device \X (1..Rows)
=============================================================================
