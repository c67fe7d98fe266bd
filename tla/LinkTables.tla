----------------------------- MODULE LinkTables -----------------------------
(***************************************************************************)
(* The five PostgreSQL tables the leasing of emulators works on, as the    *)
(* TypeORM entities declare them: users, accounts, emulators,              *)
(* user_emulators (a lease, called a link by the code) and                 *)
(* account_emulators (which accounts of the lessee may use it).            *)
(*                                                                         *)
(* The primary key of a row is a constant of the model and so is what the  *)
(* program never updates in it: the user and the device of a link, the     *)
(* user of an account, whether an account is the user's admin ("root")     *)
(* account.  A row is therefore one value: its life.  Keys are generated   *)
(* uuids, so a deleted key never comes back; a device_id is chosen by the  *)
(* client, and may.                                                        *)
(***************************************************************************)
EXTENDS Naturals, FiniteSets

CONSTANTS
    User, Account, Device, LinkId,  \* primary keys of the four tables
    AccountUser,                    \* accounts.user
    Root,                           \* the accounts with is_admin set
    LinkUser, LinkDevice            \* user_emulators.user and .device

ASSUME SchemaAssumption ==
    /\ AccountUser \in [Account -> User]
    /\ Root \subseteq Account
    /\ LinkUser \in [LinkId -> User]
    /\ LinkDevice \in [LinkId -> Device]

VARIABLES
    users,             \* "new" (not inserted yet), "live" or "gone"
    accounts,          \* likewise
    emulators,         \* "ABSENT", or the column state
    userEmulators,     \* "new", "active" (unlinked_at IS NULL), "unlinked", "gone"
    expiresAt,         \* user_emulators.expires_at, in days
    accountEmulators   \* the (account, link) pairs, unique by their constraint

tables == <<users, accounts, emulators, userEmulators, expiresAt, accountEmulators>>

RowLife   == {"new", "live", "gone"}
LinkLife  == {"new", "active", "unlinked", "gone"}
DeviceRow == {"ABSENT", "AVAILABLE", "REGISTERED"}

TablesTypeOK ==
    /\ users \in [User -> RowLife]
    /\ accounts \in [Account -> RowLife]
    /\ emulators \in [Device -> DeviceRow]
    /\ userEmulators \in [LinkId -> LinkLife]
    /\ expiresAt \in [LinkId -> Nat]
    /\ accountEmulators \subseteq Account \X LinkId

-----------------------------------------------------------------------------
(* What the lookups of the services can answer: findOne has no ORDER BY, so *)
(* it returns any one row of these sets, or null when the set is empty.     *)

LinkExists(l) == userEmulators[l] \in {"active", "unlinked"}

\* where: { user, device }: the links of u on d, the ended ones included.
LinksOf(u, d) == {l \in LinkId : LinkUser[l] = u /\ LinkDevice[l] = d /\ LinkExists(l)}

\* where: { user, device, unlinked_at: IsNull() }
ActiveLinksOf(u, d) == {l \in LinksOf(u, d) : userEmulators[l] = "active"}

\* where: { emulators: { user, unlinked_at: IsNull() } }, the devices of it.
DevicesHeldBy(u) == {d \in Device : ActiveLinksOf(u, d) # {}}

\* where: { user, is_admin: true }
RootsOf(u) == {a \in Root : AccountUser[a] = u /\ accounts[a] = "live"}

\* The keys the next insert for u and d may be given.
FreshLinks(u, d) ==
    {l \in LinkId : LinkUser[l] = u /\ LinkDevice[l] = d /\ userEmulators[l] = "new"}

\* The foreign keys of an account_emulators row.
GrantRefersToRows(a, l) == accounts[a] = "live" /\ LinkExists(l)

-----------------------------------------------------------------------------
(* Deletes, with the rows the ON DELETE CASCADE of the entities takes along. *)

DeleteLinks(L) ==
    /\ userEmulators' = [l \in LinkId |-> IF l \in L /\ LinkExists(l) THEN "gone" ELSE userEmulators[l]]
    /\ accountEmulators' = {g \in accountEmulators : g[2] \notin L}

DeleteUser(u) ==
    LET mine == {a \in Account : AccountUser[a] = u}
        L    == {l \in LinkId : LinkUser[l] = u}
    IN  /\ users' = IF users[u] = "live" THEN [users EXCEPT ![u] = "gone"] ELSE users
        /\ accounts' = [a \in Account |->
                          IF a \in mine /\ accounts[a] = "live" THEN "gone" ELSE accounts[a]]
        /\ userEmulators' = [l \in LinkId |->
                          IF l \in L /\ LinkExists(l) THEN "gone" ELSE userEmulators[l]]
        /\ accountEmulators' = {g \in accountEmulators : g[1] \notin mine /\ g[2] \notin L}
        /\ UNCHANGED <<emulators, expiresAt>>

DeleteEmulator(d) ==
    /\ emulators' = [emulators EXCEPT ![d] = "ABSENT"]
    /\ DeleteLinks({l \in LinkId : LinkDevice[l] = d})
    /\ UNCHANGED <<users, accounts, expiresAt>>

\* Mutant: account_emulators without ON DELETE CASCADE on the account.
DeleteAccountOnly(a) ==
    /\ accounts' = [accounts EXCEPT ![a] = "gone"]
    /\ UNCHANGED <<users, emulators, userEmulators, expiresAt, accountEmulators>>

DeleteAccount(a) ==
    /\ accounts' = [accounts EXCEPT ![a] = "gone"]
    /\ accountEmulators' = {g \in accountEmulators : g[1] # a}
    /\ UNCHANGED <<users, emulators, userEmulators, expiresAt>>

=============================================================================
