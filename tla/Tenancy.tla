------------------------------ MODULE Tenancy -------------------------------
(***************************************************************************)
(* The lives of users and their accounts, one change at a time: an account *)
(* is added for a user who is there, goes alone or with its user, and      *)
(* nothing comes back.  Directory, whose handlers take several queries for *)
(* a change, implements it.                                                *)
(***************************************************************************)
EXTENDS Naturals

CONSTANTS User, Account, AccountUser

VARIABLES users, accounts

Init ==
    /\ users \in [User -> {"new", "live"}]
    /\ accounts = [a \in Account |-> "new"]

Moves(f, x, from, to) == f[x] = from /\ f' = [f EXCEPT ![x] = to]

AddUser(u) == Moves(users, u, "new", "live") /\ UNCHANGED accounts

AddAccount(a) ==
    /\ users[AccountUser[a]] = "live"
    /\ Moves(accounts, a, "new", "live")
    /\ UNCHANGED users

DropAccount(a) == Moves(accounts, a, "live", "gone") /\ UNCHANGED users

DropUser(u) ==
    /\ Moves(users, u, "live", "gone")
    /\ accounts' = [a \in Account |->
         IF AccountUser[a] = u /\ accounts[a] = "live" THEN "gone" ELSE accounts[a]]

Next ==
    \/ \E u \in User : AddUser(u) \/ DropUser(u)
    \/ \E a \in Account : AddAccount(a) \/ DropAccount(a)

Spec == Init /\ [][Next]_<<users, accounts>>

=============================================================================
