------------------------------- MODULE Access -------------------------------
(***************************************************************************)
(* The roles a JWT carries and the guards that admit it.  A guard is the   *)
(* set of <<role, subRole>> pairs its constructor is given; SuperAdmin     *)
(* passes every guard.  A payload is signed at login and believed until it *)
(* expires: no guard asks the database about it.                           *)
(***************************************************************************)

Roles    == {"EmulatorAdmin", "SuperAdmin", "AndroidUser"}
SubRoles == {"AndroidAdmin", "AndroidAccount"}

\* BaseAuthorizationGuard.authorized and MultiRoleGuard.authorized
authorized(guard, jwt) ==
    jwt.role = "SuperAdmin" \/ <<jwt.role, jwt.subRole>> \in guard

SuperAdmin   == {<<"SuperAdmin", "undefined">>}
AndroidAdmin == {<<"AndroidUser", "AndroidAdmin">>}
AndroidUsers == AndroidAdmin \cup {<<"AndroidUser", "AndroidAccount">>}

=============================================================================
