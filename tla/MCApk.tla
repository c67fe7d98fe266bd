------------------------------- MODULE MCApk --------------------------------
(* Four uploads for TLC: two versions in either order, one of them twice,    *)
(* and one without a version.                                                *)
EXTENDS ApkAudit

CONSTANTS u1, u2, u3, u4

MCVersionOf == [u \in Upload |-> CASE u = u1 -> 1 [] u = u2 -> 2 [] u = u3 -> 1 [] OTHER -> None]
=============================================================================
