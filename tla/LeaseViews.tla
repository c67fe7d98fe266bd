----------------------------- MODULE LeaseViews -----------------------------
(***************************************************************************)
(* What the lists of the server show of the leases.  Six queries answer    *)
(* the question who may use which device, each from other tables and with  *)
(* other conditions: the emulators an operator, a root account and an      *)
(* ordinary account list, the accounts of a device, the devices of an      *)
(* account, and the number of emulators in the list of users.              *)
(***************************************************************************)
EXTENDS LinkAudit, Access

\* The tokens of the operators, to whom nobody leases anything (their sub is no
\* lessee's: None), and of a root account and an ordinary account.
Operator(role) == [role |-> role, subRole |-> "undefined", sub |-> None, accountId |-> None]
TokenOf(a) == [role |-> "AndroidUser",
               subRole |-> IF a \in Root THEN "AndroidAdmin" ELSE "AndroidAccount",
               sub |-> AccountUser[a], accountId |-> a]

GrantedTo(a, l) == <<a, l>> \in accountEmulators

\* EmulatorService.findAll: the emulators of a list.  An accountId that is
\* undefined is no condition.
findAll(jwt) ==
    IF jwt.role = "SuperAdmin" THEN {d \in Device : emulators[d] # "ABSENT"}
    ELSE IF jwt.role = "AndroidUser" /\ jwt.subRole = "AndroidAdmin"
      THEN {d \in Device : ActiveLinksOf(jwt.sub, d) # {} /\ emulators[d] = "REGISTERED"}
    ELSE {d \in Device : \E l \in ActiveLinksOf(jwt.sub, d) :
            jwt.accountId = None \/ GrantedTo(jwt.accountId, l)}

\* Mutant: an ended lease is shown too.
LesseeWithEnded(d) == IF emulators[d] = "AVAILABLE" THEN {}
                      ELSE {LinkUser[l] : l \in {k \in LinkId : LinkDevice[k] = d /\ LinkExists(k)}}

\* emulatorResponseMapper: the lessees a list may show for an emulator (of
\* several the last), none if it is AVAILABLE.
LesseeShown(d) == IF emulators[d] = "AVAILABLE" THEN {} ELSE {LinkUser[l] : l \in ActiveOn(d)}

\* Mutant: the ended leases too.
LinkedWithEnded(d) == {a \in Account \ Root :
    \E l \in LinkId : LinkDevice[l] = d /\ LinkExists(l) /\ GrantedTo(a, l)}

\* EmulatorService.findLinkedDevices: the accounts of a device, but for roots.
findLinkedDevices(d) == {a \in Account \ Root : \E l \in ActiveOn(d) : GrantedTo(a, l)}

\* AccountsService.findOne: the devices of an account.
findOne(a) == {d \in Device : \E l \in ActiveOn(d) : GrantedTo(a, l)}

\* Mutant: the ended leases are counted too.
CountAll(u) == Cardinality({l \in LinkId : LinkUser[l] = u /\ LinkExists(l)})

\* UsersService.findAll: emulatorsCount.
emulatorsCount(u) == Cardinality({l \in LinkId : LinkUser[l] = u /\ userEmulators[l] = "active"})

-----------------------------------------------------------------------------
\* The account's page and the device's page agree at every moment, whatever
\* requests overlap or fail, and the account's own list shows nothing that they
\* do not.  It shows all they show unless a request named the account with
\* another user: that user's device is on both pages and on no list of the
\* account, which asks for leases of the account's user.
AccountViewsAgree == \A a \in Account \ Root, d \in Device :
    /\ d \in findOne(a) <=> a \in findLinkedDevices(d)
    /\ d \in findAll(TokenOf(a)) => d \in findOne(a)
    /\ d \in findOne(a) =>
         \/ d \in findAll(TokenOf(a))
         \/ \E l \in ActiveOn(d) : GrantedTo(a, l) /\ <<a, LinkUser[l]>> \in named

\* A device no request works on or has disturbed is shown alike to everybody:
\* the lessee the operator sees is the one whose root account lists it, no
\* other is, and an account sees only what its user's root account sees.
HolderSeen == \A d \in Device \ disturbed : Busy(d) \/ \A a \in Account :
    /\ d \in findAll(TokenOf(a)) => AccountUser[a] \in LesseeShown(d)
    /\ a \in Root => (d \in findAll(TokenOf(a)) <=> AccountUser[a] \in LesseeShown(d))
    /\ \A u, v \in LesseeShown(d) : u = v

\* The count of a user's emulators is the length of its root account's list,
\* when no request disturbs any device.
CountSeen == (\A d \in Device : d \notin disturbed /\ ~Busy(d)) =>
    \A a \in Root : emulatorsCount(AccountUser[a]) = Cardinality(findAll(TokenOf(a)))

=============================================================================
