--------------------------- MODULE DirectoryAudit ---------------------------
(***************************************************************************)
(* What the directory guarantees without transactions and without a        *)
(* uniqueness constraint on accounts.  Two history variables name the      *)
(* users for whom a handler's check cannot be relied on any more.          *)
(***************************************************************************)
EXTENDS Directory

VARIABLES
    unrooted,  \* users whose creation broke off, or whose root account was removed
    muddled    \* users with an account created with, or moved to, a PIN unchecked at that time

auditVars == <<vars, unrooted, muddled>>

\* The request creates a root account.
MakesRoot(q) == q.pc \in {"rootCheck", "insert"} /\ q.root

AuditInit == Init /\ unrooted = {} /\ muddled = {}

Same == UNCHANGED <<unrooted, muddled>>

\* Users for whom a request other than r has looked a PIN up and has yet to write it.
Looked(r) == {AccountUser[req[s].acct] : s \in {s \in Req \ {r} : req[s].pc = "pinWrite"}}

Inserts(r) ==
    LET q == req[r] IN
    /\ Insert(r)
    /\ muddled' = muddled \cup ({q.user} \cap Looked(r))
                    \cup (IF WithPin(q.user, q.pin) = {} THEN {} ELSE {q.user})
    /\ UNCHANGED unrooted

Writes(r) ==
    /\ PinWrite(r)
    /\ muddled' = muddled \cup ({AccountUser[req[r].acct]} \cap Looked(r))
    /\ UNCHANGED unrooted

Deletes(r) ==
    /\ AccountDelete(r)
    /\ unrooted' = unrooted \cup (IF req[r].acct \in Root THEN {AccountUser[req[r].acct]} ELSE {})
    /\ UNCHANGED muddled

Others(r) ==
    /\ Asks(r) \/ UserInsert(r) \/ RootCheck(r) \/ UpdateOwner(r) \/ PinCheck(r)
         \/ RemoveOwner(r) \/ LoginIssue(r)
    /\ Same

Fails(r) ==
    /\ QueryFails(r)
    /\ unrooted' = unrooted \cup (IF MakesRoot(req[r]) THEN {req[r].user} ELSE {})
    /\ UNCHANGED muddled

AuditNext ==
    \/ \E r \in Req : Inserts(r) \/ Writes(r) \/ Deletes(r) \/ Others(r) \/ Fails(r)
    \/ \E u \in User : RemoveUser(u) /\ Same

AuditSpec == AuditInit /\ [][AuditNext]_auditVars

-----------------------------------------------------------------------------
\* Type invariant of the tables, the tokens, the requests and the history.
AuditTypeOK == TypeOK /\ unrooted \subseteq User /\ muddled \subseteq User

MakingRootFor(u) == {r \in Req : MakesRoot(req[r]) /\ req[r].user = u}

\* A live Android user has exactly one root account, once created: without it
\* nobody can sign in for the user and linkEmulator fails half-way.  The
\* lookup in AccountsService.create is enough for this because only a token of
\* the user can ask for a second one, and there is none before the first.
RootExact == \A u \in User \ (Operator \cup unrooted) :
    users[u] = "live" /\ MakingRootFor(u) = {} => \E a \in Account : RootsOf(u) = {a}

\* The live accounts of a user have different PINs, so that a PIN signs in one
\* account, unless an account was created with a PIN in use or two requests
\* for the user's PINs crossed.
PinsDistinct == \A a, b \in Account :
    /\ a # b /\ AccountUser[a] = AccountUser[b] /\ AccountUser[a] \notin muddled
    /\ accounts[a] = "live" /\ accounts[b] = "live"
    => pin[a] # pin[b]

\* Users and accounts live as Tenancy says: no account is added to a deleted
\* user by a request that found the user there, and none outlives its user.
Tenants == INSTANCE Tenancy

TenancySpec == Tenants!Spec

-----------------------------------------------------------------------------
(* The inductive invariants. *)

Shape(q) ==
    /\ q.pc = "idle" => q = Idle
    /\ q.pc \in {"userInsert", "rootCheck", "insert", "loginIssue"} => q.user \in User
    /\ q.pc \in {"userInsert", "rootCheck", "insert"} => q.pin \in Pin
    /\ q.pc \in {"userInsert", "rootCheck"} => q.root
    /\ q.pc = "userInsert" => q.user \notin Operator
    /\ q.pc \in {"updateOwner", "pinCheck", "pinWrite"} => q.acct \in Account /\ q.pin \in Pin
    /\ q.pc \in {"removeOwner", "accountDelete"} => q.acct \in Account
    /\ q.pc = "loginIssue" => \A a \in q.seen : AccountUser[a] = q.user

\* Nobody has signed in for u, or is about to; nor does u have an account.
Unentered(u) ==
    /\ \A t \in tokens : t.sub # u
    /\ \A r \in Req : req[r].pc = "loginIssue" /\ req[r].user = u => req[r].seen = {}
    /\ \A r \in Req : req[r].pc = "insert" /\ req[r].user = u => req[r].root
    /\ LiveAccountsOf(u) = {}

\* A user is new, is being given the root account by the one request that
\* created it, or has it and no request can pass the check for another.
RootStage(u) ==
    \/ users[u] = "new" /\ MakingRootFor(u) = {} /\ Unentered(u)
    \/ /\ users[u] = "live" /\ Unentered(u)
       /\ \E r \in Req : MakingRootFor(u) = {r}
    \/ /\ users[u] = "live"
       /\ \E a \in Account : RootsOf(u) = {a}
       /\ \A r \in MakingRootFor(u) : req[r].pc = "rootCheck"
    \/ users[u] = "gone"

RootInv == \A u \in User \ (Operator \cup unrooted) : RootStage(u)

\* A PIN that a request has looked up and is about to write is still free.
PinInv == \A r \in Req : req[r].pc = "pinWrite" =>
    \/ AccountUser[req[r].acct] \in muddled
    \/ WithPin(AccountUser[req[r].acct], req[r].pin) = {}

DirectoryIInv ==
    /\ AuditTypeOK /\ (\A r \in Req : Shape(req[r]))
    /\ RootInv /\ PinsDistinct /\ PinInv

=============================================================================
