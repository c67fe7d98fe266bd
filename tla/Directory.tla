------------------------------ MODULE Directory -----------------------------
(***************************************************************************)
(* Users, their accounts ("profiles" of a user, chosen by PIN) and the     *)
(* login: UsersService.create and remove, AccountsService.create, update   *)
(* and remove, AuthService.login, behind the guards of their controllers.  *)
(* As in LinkService, one awaited query with the code up to the next       *)
(* `await` is one action and a handler between two queries is a record in  *)
(* req.  Names, passwords, e-mails and log entries are left out.           *)
(***************************************************************************)
EXTENDS Access, Naturals, FiniteSets

CONSTANTS
    User, Account, Pin, Req, None,
    UserRole,      \* users.role, which no update changes
    AccountUser,   \* accounts.user
    Root,          \* the accounts with is_admin set
    Faults         \* TRUE: queries fail

ASSUME DirectoryAssumption ==
    /\ UserRole \in [User -> Roles]
    /\ AccountUser \in [Account -> User]
    /\ Root \subseteq Account
    /\ None \notin User \cup Account \cup Pin
    /\ Faults \in BOOLEAN

VARIABLES
    users,      \* "new", "live" or "gone"
    accounts,   \* likewise
    pin,        \* accounts.pin
    tokens,     \* the JWTs issued so far
    req         \* the request being served in each slot

vars == <<users, accounts, pin, tokens, req>>

Operator == {u \in User : UserRole[u] # "AndroidUser"}

Jwt(u, a) == [role      |-> UserRole[u],
              sub       |-> u,
              accountId |-> a,
              subRole   |-> IF a = None THEN "undefined"
                            ELSE IF a \in Root THEN "AndroidAdmin" ELSE "AndroidAccount"]

\* Operators sign in without an account, Android users with one of theirs.
Token == {Jwt(u, None) : u \in Operator}
           \cup {Jwt(AccountUser[a], a) : a \in {b \in Account : AccountUser[b] \notin Operator}}

Pc == {"idle", "userInsert", "rootCheck", "insert", "updateOwner", "pinCheck", "pinWrite",
       "removeOwner", "accountDelete", "loginIssue"}

Request == [pc   : Pc,
            jwt  : Token \cup {None},     \* who asks, until that is checked
            user : User \cup {None},      \* whom a user, an account or a token is made for
            root : BOOLEAN,               \* is_admin of the account to create
            acct : Account \cup {None},   \* the account to update or remove
            pin  : Pin \cup {None},
            seen : SUBSET Account]        \* login: the accounts that had the PIN

Idle == [pc |-> "idle", jwt |-> None, user |-> None, root |-> FALSE, acct |-> None,
         pin |-> None, seen |-> {}]

TypeOK ==
    /\ users \in [User -> {"new", "live", "gone"}]
    /\ accounts \in [Account -> {"new", "live", "gone"}]
    /\ pin \in [Account -> Pin \cup {None}]
    /\ tokens \in SUBSET Token
    /\ req \in [Req -> Request]

\* The seeder has added the operators before the server listens.
Init ==
    /\ users = [u \in User |-> IF u \in Operator THEN "live" ELSE "new"]
    /\ accounts = [a \in Account |-> "new"]
    /\ pin = [a \in Account |-> None]
    /\ tokens = {}
    /\ req = [r \in Req |-> Idle]

-----------------------------------------------------------------------------
LiveAccountsOf(u) == {a \in Account : AccountUser[a] = u /\ accounts[a] = "live"}
RootsOf(u) == LiveAccountsOf(u) \cap Root
WithPin(u, p) == {a \in LiveAccountsOf(u) : pin[a] = p}

Goto(r, q) == req' = [req EXCEPT ![r] = q]
Await(r, pc) == Goto(r, [req[r] EXCEPT !.pc = pc])
Answer(r) == Goto(r, Idle)
tables == <<users, accounts, pin, tokens>>

-----------------------------------------------------------------------------
(* UsersService *)

\* (Bound: operators are only seeded.)
CreateUser(r) == \E jwt \in tokens, u \in User, p \in Pin :
    /\ req[r] = Idle /\ authorized(SuperAdmin, jwt)
    /\ users[u] = "new" /\ u \notin Operator
    /\ Goto(r, [Idle EXCEPT !.pc = "userInsert", !.user = u, !.root = TRUE, !.pin = p])
    /\ UNCHANGED tables

\* The e-mail is unique: of two requests for the same user one is refused.
UserInsert(r) ==
    LET u == req[r].user IN
    /\ req[r].pc = "userInsert"
    /\ \/ /\ users[u] = "new"
          /\ users' = [users EXCEPT ![u] = "live"]
          /\ Await(r, "rootCheck")
       \/ /\ users[u] # "new"
          /\ Answer(r)
          /\ UNCHANGED users
    /\ UNCHANGED <<accounts, pin, tokens>>

\* The delete, with the accounts its cascade takes along.
RemoveUser(u) ==
    /\ \E jwt \in tokens : authorized(SuperAdmin, jwt)
    /\ users[u] = "live"
    /\ users' = [users EXCEPT ![u] = "gone"]
    /\ accounts' = [a \in Account |-> IF a \in LiveAccountsOf(u) THEN "gone" ELSE accounts[a]]
    /\ UNCHANGED <<pin, tokens, req>>

-----------------------------------------------------------------------------
(* AccountsService *)

CreateAccount(r) == \E jwt \in tokens, p \in Pin, root \in BOOLEAN :
    /\ req[r] = Idle /\ authorized(AndroidAdmin, jwt)
    /\ Goto(r, [Idle EXCEPT !.pc = IF root THEN "rootCheck" ELSE "insert",
                            !.user = jwt.sub, !.root = root, !.pin = p])
    /\ UNCHANGED tables

\* Mutant: no look at existingAdminAccounts.
RootUnchecked(r) ==
    /\ req[r].pc = "rootCheck"
    /\ Await(r, "insert")
    /\ UNCHANGED tables

\* existingAdminAccounts
RootCheck(r) ==
    /\ req[r].pc = "rootCheck"
    /\ IF RootsOf(req[r].user) # {} THEN Answer(r) ELSE Await(r, "insert")
    /\ UNCHANGED tables

\* Mutant: no foreign key.
InsertUnowned(r) ==
    LET q == req[r] IN
    /\ q.pc = "insert"
    /\ \E a \in Account :
         /\ accounts[a] = "new" /\ AccountUser[a] = q.user /\ (a \in Root <=> q.root)
         /\ accounts' = [accounts EXCEPT ![a] = "live"]
         /\ pin' = [pin EXCEPT ![a] = q.pin]
    /\ Answer(r)
    /\ UNCHANGED <<users, tokens>>

\* The insert; the foreign key refuses an account of a deleted user.
Insert(r) ==
    LET q == req[r] IN
    /\ q.pc = "insert"
    /\ \/ \E a \in Account :
            /\ accounts[a] = "new" /\ AccountUser[a] = q.user /\ (a \in Root <=> q.root)
            /\ users[q.user] = "live"
            /\ accounts' = [accounts EXCEPT ![a] = "live"]
            /\ pin' = [pin EXCEPT ![a] = q.pin]
       \/ users[q.user] # "live" /\ UNCHANGED <<accounts, pin>>
    /\ Answer(r)
    /\ UNCHANGED <<users, tokens>>

UpdateAccount(r) == \E jwt \in tokens, a \in Account, p \in Pin :
    /\ req[r] = Idle /\ authorized(AndroidUsers, jwt)
    /\ accounts[a] # "new"
    /\ Goto(r, [Idle EXCEPT !.pc = "updateOwner", !.jwt = jwt, !.acct = a, !.pin = p])
    /\ UNCHANGED tables

MayUpdate(jwt, a) ==
    \/ jwt.role = "SuperAdmin"
    \/ AccountUser[a] = jwt.sub /\ jwt.subRole = "AndroidAdmin"

\* findUserByAccount, 'Account not found' and the check of the requester
UpdateOwner(r) ==
    LET q == req[r] IN
    /\ q.pc = "updateOwner"
    /\ IF accounts[q.acct] = "live" /\ MayUpdate(q.jwt, q.acct)
         THEN Goto(r, [q EXCEPT !.pc = "pinCheck", !.jwt = None]) ELSE Answer(r)
    /\ UNCHANGED tables

\* Mutant: no look at pinExist.
PinUnchecked(r) ==
    /\ req[r].pc = "pinCheck"
    /\ Await(r, "pinWrite")
    /\ UNCHANGED tables

\* pinExist
PinCheck(r) ==
    LET q == req[r] IN
    /\ q.pc = "pinCheck"
    /\ IF WithPin(AccountUser[q.acct], q.pin) # {} THEN Answer(r) ELSE Await(r, "pinWrite")
    /\ UNCHANGED tables

PinWrite(r) ==
    LET q == req[r] IN
    /\ q.pc = "pinWrite"
    /\ pin' = IF accounts[q.acct] = "live" THEN [pin EXCEPT ![q.acct] = q.pin] ELSE pin
    /\ Answer(r)
    /\ UNCHANGED <<users, accounts, tokens>>

RemoveAccount(r) == \E jwt \in tokens, a \in Account :
    /\ req[r] = Idle /\ authorized(AndroidUsers, jwt)
    /\ accounts[a] # "new"
    /\ Goto(r, [Idle EXCEPT !.pc = "removeOwner", !.jwt = jwt, !.acct = a])
    /\ UNCHANGED tables

MayRemove(jwt, a) ==
    \/ jwt.role = "SuperAdmin"
    \/ /\ AccountUser[a] = jwt.sub
       /\ jwt.subRole = "AndroidAdmin" \/ jwt.accountId = a

RemoveOwner(r) ==
    LET q == req[r] IN
    /\ q.pc = "removeOwner"
    /\ IF accounts[q.acct] = "live" /\ MayRemove(q.jwt, q.acct)
         THEN Goto(r, [q EXCEPT !.pc = "accountDelete", !.jwt = None]) ELSE Answer(r)
    /\ UNCHANGED tables

AccountDelete(r) ==
    LET a == req[r].acct IN
    /\ req[r].pc = "accountDelete"
    /\ accounts' = IF accounts[a] = "live" THEN [accounts EXCEPT ![a] = "gone"] ELSE accounts
    /\ Answer(r)
    /\ UNCHANGED <<users, pin, tokens>>

-----------------------------------------------------------------------------
(* AuthService: the user is read with all accounts, then the password is    *)
(* compared (awaited), then the token is made from what was read.           *)

Login(r) == \E u \in User, p \in Pin :
    /\ req[r] = Idle
    /\ users[u] = "live"
    /\ Goto(r, [Idle EXCEPT !.pc = "loginIssue", !.user = u, !.seen = WithPin(u, p)])
    /\ UNCHANGED tables

\* Mutant: no 'Invalid account or pin'.
IssueAnyway(r) ==
    LET q == req[r] IN
    /\ q.pc = "loginIssue"
    /\ \E a \in (IF q.seen = {} THEN {None} ELSE q.seen) : tokens' = tokens \cup {Jwt(q.user, a)}
    /\ Answer(r)
    /\ UNCHANGED <<users, accounts, pin>>

\* accounts.some(...) goes through all accounts, so the last one with the PIN
\* counts, in an order the query does not fix.
LoginIssue(r) ==
    LET q == req[r]
        made == IF q.user \in Operator THEN {Jwt(q.user, None)}
                ELSE {Jwt(q.user, a) : a \in q.seen}
    IN  /\ q.pc = "loginIssue"
        /\ \/ \E t \in made : tokens' = tokens \cup {t}
           \/ made = {} /\ UNCHANGED tokens
        /\ Answer(r)
        /\ UNCHANGED <<users, accounts, pin>>

-----------------------------------------------------------------------------
\* A query rejects: the request fails where it is.
QueryFails(r) ==
    /\ Faults /\ req[r] # Idle
    /\ Answer(r)
    /\ UNCHANGED tables

Asks(r) == CreateUser(r) \/ CreateAccount(r) \/ UpdateAccount(r) \/ RemoveAccount(r) \/ Login(r)

Serves(r) ==
    \/ UserInsert(r) \/ RootCheck(r) \/ Insert(r)
    \/ UpdateOwner(r) \/ PinCheck(r) \/ PinWrite(r)
    \/ RemoveOwner(r) \/ AccountDelete(r)
    \/ LoginIssue(r)

Next ==
    \/ \E r \in Req : Asks(r) \/ Serves(r) \/ QueryFails(r)
    \/ \E u \in User : RemoveUser(u)

Spec == Init /\ [][Next]_vars

=============================================================================
