--------------------------- MODULE DirectoryProofs --------------------------
(* Proofs about root accounts and PINs, for any numbers of users, accounts,  *)
(* PINs and requests.                                                        *)
EXTENDS DirectoryAudit, TLAPS

Base == AuditTypeOK /\ \A r \in Req : Shape(req[r])

LEMMA IdleFits == Idle \in Request /\ Shape(Idle)
  BY DirectoryAssumption DEF Idle, Request, Pc, Shape

\* A request that waits for its next query.
LEMMA AwaitFits ==
    ASSUME NEW r \in Req, Base, NEW pc \in Pc
    PROVE  LET q == [req[r] EXCEPT !.pc = pc] IN
             /\ q \in Request /\ q.pc = pc /\ q.user = req[r].user /\ q.root = req[r].root
             /\ q.pin = req[r].pin /\ q.acct = req[r].acct /\ q.seen = req[r].seen
  BY DEF Base, AuditTypeOK, TypeOK, Request

\* What a step of r leaves in req, when q fits.
LEMMA Gone ==
    ASSUME NEW r \in Req, Base, NEW q \in Request, Shape(q), Goto(r, q)
    PROVE  /\ req' \in [Req -> Request] /\ \A s \in Req : Shape(req'[s])
           /\ req'[r] = q /\ \A s \in Req \ {r} : req'[s] = req[s]
  BY DEF Base, AuditTypeOK, TypeOK, Goto

-----------------------------------------------------------------------------
(* Types and shapes *)

LEMMA TokenFields ==
    ASSUME NEW t \in Token
    PROVE  t.sub \in User
  BY DirectoryAssumption DEF Token, Jwt, Operator

\* The first step of a request.
LEMMA AsksFits ==
    ASSUME NEW r \in Req, Base, Asks(r)
    PROVE  \E q \in Request : Shape(q) /\ Goto(r, q) /\ UNCHANGED <<tables>>
  <1>. USE DEF Base, AuditTypeOK, TypeOK, tables
  <1>1. CASE CreateUser(r)
    <2>1. PICK u \in User, p \in Pin :
            /\ u \notin Operator
            /\ Goto(r, [Idle EXCEPT !.pc = "userInsert", !.user = u, !.root = TRUE, !.pin = p])
      BY <1>1 DEF CreateUser
    <2>. DEFINE q == [Idle EXCEPT !.pc = "userInsert", !.user = u, !.root = TRUE, !.pin = p]
    <2>3. q \in Request
      BY DEF Idle, Request, Pc
    <2>4. q.pc = "userInsert" /\ q.user = u /\ q.root /\ q.pin = p
      BY DEF Idle
    <2>5. Goto(r, q)
      BY <2>1
    <2>. HIDE DEF q
    <2>6. Shape(q)
      BY <2>1, <2>4 DEF Shape
    <2>. QED
      BY <1>1, <2>3, <2>5, <2>6 DEF CreateUser
  <1>2. CASE CreateAccount(r)
    <2>1. PICK jwt \in tokens, p \in Pin, root \in BOOLEAN :
            Goto(r, [Idle EXCEPT !.pc = IF root THEN "rootCheck" ELSE "insert",
                                 !.user = jwt.sub, !.root = root, !.pin = p])
      BY <1>2 DEF CreateAccount
    <2>2. jwt.sub \in User
      BY TokenFields
    <2>. QED
      BY <1>2, <2>1, <2>2 DEF CreateAccount, Idle, Request, Pc, Shape
  <1>3. CASE UpdateAccount(r)
    BY <1>3 DEF UpdateAccount, Idle, Request, Pc, Shape
  <1>4. CASE RemoveAccount(r)
    BY <1>4 DEF RemoveAccount, Idle, Request, Pc, Shape
  <1>5. CASE Login(r)
    BY <1>5 DEF Login, Idle, Request, Pc, Shape, WithPin, LiveAccountsOf
  <1>. QED
    BY <1>1, <1>2, <1>3, <1>4, <1>5 DEF Asks

\* A later step of a request.
LEMMA ServesFits ==
    ASSUME NEW r \in Req, Base, Serves(r) \/ QueryFails(r)
    PROVE  \E q \in Request : Shape(q) /\ Goto(r, q)
  <1>. USE DEF Base, Answer, Await
  <1>0. req[r] \in Request /\ Shape(req[r])
    BY DEF AuditTypeOK, TypeOK
  <1>1. CASE Goto(r, Idle)
    BY <1>1, IdleFits
  <1>2. CASE UserInsert(r)
    <2>1. req[r].pc = "userInsert" /\ (Goto(r, Idle) \/ Goto(r, [req[r] EXCEPT !.pc = "rootCheck"]))
      BY <1>2 DEF UserInsert
    <2>. QED
      BY <1>0, <1>1, <2>1 DEF Request, Pc, Shape
  <1>3. CASE RootCheck(r)
    <2>1. req[r].pc = "rootCheck" /\ (Goto(r, Idle) \/ Goto(r, [req[r] EXCEPT !.pc = "insert"]))
      BY <1>3 DEF RootCheck
    <2>. QED
      BY <1>0, <1>1, <2>1 DEF Request, Pc, Shape
  <1>4. CASE UpdateOwner(r)
    <2>1. /\ req[r].pc = "updateOwner"
          /\ Goto(r, Idle) \/ Goto(r, [req[r] EXCEPT !.pc = "pinCheck", !.jwt = None])
      BY <1>4 DEF UpdateOwner
    <2>. QED
      BY <1>0, <1>1, <2>1 DEF Request, Pc, Shape
  <1>5. CASE PinCheck(r)
    <2>1. req[r].pc = "pinCheck" /\ (Goto(r, Idle) \/ Goto(r, [req[r] EXCEPT !.pc = "pinWrite"]))
      BY <1>5 DEF PinCheck
    <2>. QED
      BY <1>0, <1>1, <2>1 DEF Request, Pc, Shape
  <1>6. CASE RemoveOwner(r)
    <2>1. /\ req[r].pc = "removeOwner"
          /\ Goto(r, Idle) \/ Goto(r, [req[r] EXCEPT !.pc = "accountDelete", !.jwt = None])
      BY <1>6 DEF RemoveOwner
    <2>. QED
      BY <1>0, <1>1, <2>1 DEF Request, Pc, Shape
  <1>7. CASE Insert(r) \/ PinWrite(r) \/ AccountDelete(r) \/ LoginIssue(r) \/ QueryFails(r)
    BY <1>1, <1>7 DEF Insert, PinWrite, AccountDelete, LoginIssue, QueryFails
  <1>. QED
    BY <1>2, <1>3, <1>4, <1>5, <1>6, <1>7 DEF Serves

\* The token a login makes is one.
LEMMA MadeTokens ==
    ASSUME NEW r \in Req, Base, LoginIssue(r)
    PROVE  tokens' \in SUBSET Token
  <1>1. req[r].user \in User /\ (\A a \in req[r].seen : a \in Account /\ AccountUser[a] = req[r].user)
    BY DEF Base, AuditTypeOK, TypeOK, Request, Shape, LoginIssue
  <1>2. tokens \in SUBSET Token
    BY DEF Base, AuditTypeOK, TypeOK
  <1>3. CASE req[r].user \in Operator
    <2>1. Jwt(req[r].user, None) \in Token
      BY <1>3 DEF Token
    <2>. QED
      BY <1>2, <1>3, <2>1 DEF LoginIssue
  <1>4. CASE req[r].user \notin Operator
    <2>1. \A a \in req[r].seen : Jwt(req[r].user, a) \in Token
      BY <1>1, <1>4 DEF Token
    <2>. QED
      BY <1>2, <1>4, <2>1 DEF LoginIssue
  <1>. QED
    BY <1>3, <1>4

LEMMA TablesStep ==
    ASSUME Base, NEW r \in Req, Serves(r)
    PROVE  /\ users' \in [User -> {"new", "live", "gone"}]
           /\ accounts' \in [Account -> {"new", "live", "gone"}]
           /\ pin' \in [Account -> Pin \cup {None}]
           /\ tokens' \in SUBSET Token
  <1>. USE DEF Base, AuditTypeOK, TypeOK
  <1>0. Shape(req[r])
    OBVIOUS
  <1>1. CASE UserInsert(r)
    BY <1>1 DEF UserInsert
  <1>2. CASE Insert(r)
    BY <1>0, <1>2 DEF Insert, Shape
  <1>3. CASE PinWrite(r)
    BY <1>0, <1>3 DEF PinWrite, Shape
  <1>4. CASE AccountDelete(r)
    BY <1>4 DEF AccountDelete
  <1>5. CASE LoginIssue(r)
    BY <1>5, MadeTokens DEF LoginIssue
  <1>6. CASE RootCheck(r) \/ UpdateOwner(r) \/ PinCheck(r) \/ RemoveOwner(r)
    BY <1>6 DEF RootCheck, UpdateOwner, PinCheck, RemoveOwner, tables
  <1>. QED
    BY <1>1, <1>2, <1>3, <1>4, <1>5, <1>6 DEF Serves

LEMMA BaseStep ==
    ASSUME Base, [AuditNext]_auditVars
    PROVE  Base'
  <1>1. ASSUME NEW r \in Req, Asks(r), Same
        PROVE  Base'
    <2>1. PICK q \in Request : Shape(q) /\ Goto(r, q) /\ UNCHANGED <<tables>>
      BY <1>1, AsksFits
    <2>. QED
      BY <1>1, <2>1, Gone DEF Base, AuditTypeOK, TypeOK, tables, Same
  <1>2. ASSUME NEW r \in Req, Serves(r), unrooted' \subseteq User, muddled' \subseteq User
        PROVE  Base'
    <2>1. PICK q \in Request : Shape(q) /\ Goto(r, q)
      BY <1>2, ServesFits
    <2>2. req' \in [Req -> Request] /\ \A s \in Req : Shape(req'[s])
      BY <2>1, Gone
    <2>3. /\ users' \in [User -> {"new", "live", "gone"}]
          /\ accounts' \in [Account -> {"new", "live", "gone"}]
          /\ pin' \in [Account -> Pin \cup {None}]
          /\ tokens' \in SUBSET Token
      BY <1>2, TablesStep
    <2>. QED
      BY <1>2, <2>2, <2>3 DEF Base, AuditTypeOK, TypeOK
  <1>3. ASSUME NEW r \in Req, Fails(r)
        PROVE  Base'
    <2>1. PICK q \in Request : Shape(q) /\ Goto(r, q)
      BY <1>3, ServesFits DEF Fails
    <2>2. MakesRoot(req[r]) => req[r].user \in User
      BY DEF Base, Shape, MakesRoot
    <2>. QED
      BY <1>3, <2>1, <2>2, Gone DEF Base, AuditTypeOK, TypeOK, Fails, QueryFails, tables
  <1>4. ASSUME NEW u \in User, RemoveUser(u), Same
        PROVE  Base'
    BY <1>4 DEF Base, AuditTypeOK, TypeOK, RemoveUser, Same
  <1>5. CASE UNCHANGED auditVars
    BY <1>5 DEF Base, AuditTypeOK, TypeOK, auditVars, vars
  <1>6. ASSUME NEW r \in Req, Inserts(r) \/ Writes(r) \/ Deletes(r)
        PROVE  Serves(r) /\ unrooted' \subseteq User /\ muddled' \subseteq User
    BY <1>6, DirectoryAssumption
       DEF Base, AuditTypeOK, TypeOK, Shape, Inserts, Writes, Deletes, Insert, PinWrite, AccountDelete,
           Serves
  <1>7. ASSUME NEW r \in Req, Others(r)
        PROVE  /\ Same /\ (Asks(r) \/ Serves(r))
               /\ unrooted' \subseteq User /\ muddled' \subseteq User
    BY <1>7 DEF Base, AuditTypeOK, Others, Same, Serves
  <1>. QED
    BY <1>1, <1>2, <1>3, <1>4, <1>5, <1>6, <1>7 DEF AuditNext

-----------------------------------------------------------------------------
(* PINs *)

\* A step that writes no PIN, brings no account to life and lets no request
\* past its check.
LEMMA PinsKept ==
    ASSUME Base, PinsDistinct, PinInv, pin' = pin, muddled \subseteq muddled',
           \A a \in Account : accounts'[a] = "live" => accounts[a] = "live",
           \A s \in Req : req'[s].pc = "pinWrite" => req'[s] = req[s]
    PROVE  PinsDistinct' /\ PinInv'
  BY DEF PinsDistinct, PinInv, WithPin, LiveAccountsOf

\* The records of the other requests, and of r, after a step of r.
LEMMA Moved ==
    ASSUME NEW r \in Req, Base, NEW q, Goto(r, q)
    PROVE  req'[r] = q /\ \A s \in Req \ {r} : req'[s] = req[s]
  BY DEF Base, AuditTypeOK, TypeOK, Goto

LEMMA PinsStep ==
    ASSUME DirectoryIInv, [AuditNext]_auditVars
    PROVE  PinsDistinct' /\ PinInv'
  <1>0. Base
    BY DEF DirectoryIInv, Base
  <1>. USE DEF DirectoryIInv
  <1>1. ASSUME NEW r \in Req, Goto(r, Idle), pin' = pin, muddled \subseteq muddled',
               \A a \in Account : accounts'[a] = "live" => accounts[a] = "live"
        PROVE  PinsDistinct' /\ PinInv'
    <2>1. Idle.pc # "pinWrite"
      BY DEF Idle
    <2>2. \A s \in Req : req'[s].pc = "pinWrite" => req'[s] = req[s]
      BY <1>0, <1>1, <2>1, Moved
    <2>. QED
      BY <1>0, <1>1, <2>2, PinsKept
  <1>2. ASSUME NEW r \in Req, NEW q, Goto(r, q), q.pc # "pinWrite", pin' = pin,
               accounts' = accounts, muddled' = muddled
        PROVE  PinsDistinct' /\ PinInv'
    <2>1. \A s \in Req : req'[s].pc = "pinWrite" => req'[s] = req[s]
      BY <1>0, <1>2, Moved
    <2>. QED
      BY <1>0, <1>2, <2>1, PinsKept
  <1>3. ASSUME NEW r \in Req, PinCheck(r), muddled' = muddled
        PROVE  PinsDistinct' /\ PinInv'
    <2>1. CASE Goto(r, Idle)
      BY <1>1, <1>3, <2>1 DEF PinCheck, tables
    <2>2. CASE Await(r, "pinWrite") /\ WithPin(AccountUser[req[r].acct], req[r].pin) = {}
      <3>. DEFINE q == [req[r] EXCEPT !.pc = "pinWrite"]
      <3>1. q.acct = req[r].acct /\ q.pin = req[r].pin
        BY <1>0, AwaitFits DEF Pc
      <3>2. req'[r] = q /\ \A s \in Req \ {r} : req'[s] = req[s]
        BY <1>0, <2>2, Moved DEF Await
      <3>. HIDE DEF q
      <3>3. accounts' = accounts /\ pin' = pin
        BY <1>3 DEF PinCheck, tables
      <3>. QED
        BY <1>3, <2>2, <3>1, <3>2, <3>3 DEF PinsDistinct, PinInv, WithPin, LiveAccountsOf
    <2>. QED
      BY <1>3, <2>1, <2>2 DEF PinCheck, Answer
  <1>4. ASSUME NEW r \in Req, Writes(r)
        PROVE  PinsDistinct' /\ PinInv'
    <2>. DEFINE a == req[r].acct
    <2>. DEFINE p == req[r].pin
    <2>1. a \in Account /\ p \in Pin /\ req[r].pc = "pinWrite"
      BY <1>4 DEF Shape, Writes, PinWrite
    <2>2. req'[r] = Idle /\ \A s \in Req \ {r} : req'[s] = req[s]
      BY <1>0, <1>4, Moved DEF Writes, PinWrite, Answer
    <2>3. Idle.pc # "pinWrite"
      BY DEF Idle
    <2>4. accounts' = accounts /\ pin' = IF accounts[a] = "live" THEN [pin EXCEPT ![a] = p] ELSE pin
      BY <1>4 DEF Writes, PinWrite
    <2>5. /\ muddled \subseteq muddled'
          /\ AccountUser[a] \in muddled' \/
               \A s \in Req \ {r} : req[s].pc = "pinWrite" => AccountUser[req[s].acct] # AccountUser[a]
      BY <1>4 DEF Writes, Looked
    <2>6. AccountUser[a] \in muddled \/
            \A b \in Account : AccountUser[b] = AccountUser[a] /\ accounts[b] = "live" => pin[b] # p
      BY <2>1 DEF PinInv, WithPin, LiveAccountsOf
    <2>7. pin \in [Account -> Pin \cup {None}]
      BY DEF AuditTypeOK, TypeOK
    <2>. HIDE DEF a, p
    <2>8. \A b \in Account : pin'[b] = IF b = a /\ accounts[a] = "live" THEN p ELSE pin[b]
      BY <2>1, <2>4, <2>7
    <2>9. PinsDistinct'
      BY <2>1, <2>4, <2>5, <2>6, <2>8 DEF PinsDistinct
    <2>10. PinInv'
      BY <2>2, <2>3, <2>4, <2>5, <2>8 DEF PinInv, WithPin, LiveAccountsOf
    <2>. QED
      BY <2>9, <2>10
  <1>5. ASSUME NEW r \in Req, Inserts(r)
        PROVE  PinsDistinct' /\ PinInv'
    <2>1. CASE pin' = pin /\ accounts' = accounts
      BY <1>1, <1>5, <2>1 DEF Inserts, Insert, Answer
    <2>2. ASSUME NEW a \in Account, accounts[a] = "new", AccountUser[a] = req[r].user,
                 accounts' = [accounts EXCEPT ![a] = "live"],
                 pin' = [pin EXCEPT ![a] = req[r].pin]
          PROVE  PinsDistinct' /\ PinInv'
      <3>. DEFINE p == req[r].pin
      <3>1. req'[r] = Idle /\ (\A s \in Req \ {r} : req'[s] = req[s]) /\ Idle.pc # "pinWrite"
        BY <1>0, <1>5, Moved DEF Inserts, Insert, Answer, Idle
      <3>2. /\ muddled \subseteq muddled'
            /\ AccountUser[a] \in muddled' \/
                 \A s \in Req \ {r} : req[s].pc = "pinWrite" => AccountUser[req[s].acct] # AccountUser[a]
            /\ AccountUser[a] \in muddled' \/ WithPin(AccountUser[a], p) = {}
        BY <1>5, <2>2 DEF Inserts, Looked
      <3>3. /\ \A b \in Account : pin'[b] = IF b = a THEN p ELSE pin[b]
            /\ \A b \in Account : accounts'[b] = IF b = a THEN "live" ELSE accounts[b]
        BY <2>2 DEF AuditTypeOK, TypeOK
      <3>. HIDE DEF p
      <3>4. PinsDistinct'
        BY <2>2, <3>2, <3>3 DEF PinsDistinct, WithPin, LiveAccountsOf
      <3>5. PinInv'
        BY <3>1, <3>2, <3>3 DEF PinInv, WithPin, LiveAccountsOf
      <3>. QED
        BY <3>4, <3>5
    <2>. QED
      BY <1>5, <2>1, <2>2 DEF Inserts, Insert
  <1>6. ASSUME NEW r \in Req, Deletes(r)
        PROVE  PinsDistinct' /\ PinInv'
    <2>1. \A a \in Account : accounts'[a] = "live" => accounts[a] = "live"
      BY <1>6 DEF Deletes, AccountDelete, AuditTypeOK, TypeOK
    <2>. QED
      BY <1>1, <1>6, <2>1 DEF Deletes, AccountDelete, Answer
  <1>7. ASSUME NEW r \in Req, Others(r)
        PROVE  PinsDistinct' /\ PinInv'
    <2>1. CASE Asks(r)
      <3>1. PICK q : Goto(r, q) /\ q.pc # "pinWrite" /\ pin' = pin /\ accounts' = accounts
        BY <2>1 DEF Asks, CreateUser, CreateAccount, UpdateAccount, RemoveAccount, Login, Idle, tables
      <3>. QED
        BY <1>2, <1>7, <3>1 DEF Others, Same
    <2>2. CASE PinCheck(r)
      BY <1>3, <1>7, <2>2 DEF Others, Same
    <2>3. CASE UserInsert(r) \/ RootCheck(r) \/ UpdateOwner(r) \/ RemoveOwner(r) \/ LoginIssue(r)
      <3>0. req[r] \in Request
        BY DEF AuditTypeOK, TypeOK
      <3>1. \E q : Goto(r, q) /\ q.pc # "pinWrite"
        <4>1. \/ Goto(r, Idle)
              \/ \E pc \in {"rootCheck", "insert"} : Goto(r, [req[r] EXCEPT !.pc = pc])
              \/ \E pc \in {"pinCheck", "accountDelete"} :
                   Goto(r, [req[r] EXCEPT !.pc = pc, !.jwt = None])
          BY <2>3 DEF UserInsert, RootCheck, UpdateOwner, RemoveOwner, LoginIssue, Answer, Await
        <4>2. Idle.pc # "pinWrite"
          BY DEF Idle
        <4>3. \A pc \in {"rootCheck", "insert", "pinCheck", "accountDelete"} :
                /\ [req[r] EXCEPT !.pc = pc].pc # "pinWrite"
                /\ [req[r] EXCEPT !.pc = pc, !.jwt = None].pc # "pinWrite"
          BY <3>0 DEF Request
        <4>. QED
          BY <4>1, <4>2, <4>3
      <3>2. pin' = pin /\ accounts' = accounts
        BY <2>3 DEF UserInsert, RootCheck, UpdateOwner, RemoveOwner, LoginIssue, tables
      <3>. QED
        BY <1>2, <1>7, <3>1, <3>2 DEF Others, Same
    <2>. QED
      BY <1>7, <2>1, <2>2, <2>3 DEF Others
  <1>8. ASSUME NEW r \in Req, Fails(r)
        PROVE  PinsDistinct' /\ PinInv'
    BY <1>1, <1>8 DEF Fails, QueryFails, Answer, tables
  <1>9. ASSUME NEW u \in User, RemoveUser(u), Same
        PROVE  PinsDistinct' /\ PinInv'
    BY <1>0, <1>9, PinsKept DEF RemoveUser, Same
  <1>10. CASE UNCHANGED auditVars
    BY <1>0, <1>10, PinsKept DEF auditVars, vars
  <1>. QED
    BY <1>4, <1>5, <1>6, <1>7, <1>8, <1>9, <1>10 DEF AuditNext

-----------------------------------------------------------------------------
(* Root accounts *)

\* The requests that RootStage(u) speaks of.
Concerns(q, u) == q.user = u /\ q.pc \in {"rootCheck", "insert", "loginIssue"}

\* A step that leaves the user, its accounts and the requests that make a root
\* account for it alone, and lets nobody sign in or create for it.
LEMMA RootKept ==
    ASSUME NEW u \in User, RootStage(u), users'[u] = users[u],
           \A a \in Account : AccountUser[a] = u => accounts'[a] = accounts[a],
           \A t \in tokens' : t.sub = u => t \in tokens,
           \A s \in Req : Concerns(req'[s], u) \/ s \in MakingRootFor(u) => req'[s] = req[s]
    PROVE  RootStage(u)'
  <1>1. LiveAccountsOf(u)' = LiveAccountsOf(u) /\ RootsOf(u)' = RootsOf(u)
    BY DEF LiveAccountsOf, RootsOf
  <1>2. MakingRootFor(u)' = MakingRootFor(u)
    BY DEF MakingRootFor, MakesRoot, Concerns
  <1>3. Unentered(u) => Unentered(u)'
    BY <1>1 DEF Unentered, Concerns
  <1>4. \A s \in MakingRootFor(u) : s \in Req /\ req'[s] = req[s]
    BY DEF MakingRootFor
  <1>. QED
    BY <1>1, <1>2, <1>3, <1>4 DEF RootStage

\* The same for a step of one request, from req[r] to q.
LEMMA RootKeptBy ==
    ASSUME NEW u \in User, RootStage(u), Base, NEW r \in Req, NEW q, Goto(r, q),
           ~Concerns(q, u), ~(MakesRoot(req[r]) /\ req[r].user = u), users'[u] = users[u],
           \A a \in Account : AccountUser[a] = u => accounts'[a] = accounts[a],
           \A t \in tokens' : t.sub = u => t \in tokens
    PROVE  RootStage(u)'
  <1>1. req'[r] = q /\ \A s \in Req \ {r} : req'[s] = req[s]
    BY Moved
  <1>2. r \notin MakingRootFor(u)
    BY DEF MakingRootFor
  <1>3. \A s \in Req : Concerns(req'[s], u) \/ s \in MakingRootFor(u) => req'[s] = req[s]
    BY <1>1, <1>2
  <1>. QED
    BY <1>3, RootKept

LEMMA AsksRoot ==
    ASSUME NEW u \in User, RootStage(u), Base, NEW r \in Req, Asks(r)
    PROVE  RootStage(u)'
  <1>. USE DEF tables
  <1>0. /\ UNCHANGED <<users, accounts, pin, tokens>> /\ req[r] = Idle /\ ~MakesRoot(Idle)
    BY DEF Asks, CreateUser, CreateAccount, UpdateAccount, RemoveAccount, Login, MakesRoot, Idle
  <1>1. ASSUME NEW q, Goto(r, q), ~Concerns(q, u)
        PROVE  RootStage(u)'
    BY <1>0, <1>1, RootKeptBy
  <1>2. CASE CreateUser(r) \/ UpdateAccount(r) \/ RemoveAccount(r)
    <2>1. CASE CreateUser(r)
      <3>1. PICK v \in User, p \in Pin :
              Goto(r, [Idle EXCEPT !.pc = "userInsert", !.user = v, !.root = TRUE, !.pin = p])
        BY <2>1 DEF CreateUser
      <3>. QED
        BY <1>1, <3>1 DEF Concerns, Idle
    <2>2. CASE UpdateAccount(r)
      <3>1. PICK jwt \in tokens, a \in Account, p \in Pin :
              Goto(r, [Idle EXCEPT !.pc = "updateOwner", !.jwt = jwt, !.acct = a, !.pin = p])
        BY <2>2 DEF UpdateAccount
      <3>. QED
        BY <1>1, <3>1 DEF Concerns, Idle
    <2>3. CASE RemoveAccount(r)
      <3>1. PICK jwt \in tokens, a \in Account :
              Goto(r, [Idle EXCEPT !.pc = "removeOwner", !.jwt = jwt, !.acct = a])
        BY <2>3 DEF RemoveAccount
      <3>. QED
        BY <1>1, <3>1 DEF Concerns, Idle
    <2>. QED
      BY <1>2, <2>1, <2>2, <2>3
  <1>3. ASSUME NEW jwt \in tokens, NEW q, Goto(r, q), q.user = jwt.sub, MakesRoot(q) => q.pc = "rootCheck"
        PROVE  RootStage(u)'
    <2>1. CASE jwt.sub # u
      BY <1>1, <1>3, <2>1 DEF Concerns
    <2>2. CASE jwt.sub = u
      <3>1. ~Unentered(u)
        BY <2>2 DEF Unentered
      <3>2. req'[r] = q /\ \A s \in Req \ {r} : req'[s] = req[s]
        BY <1>3, Moved
      <3>3. RootsOf(u)' = RootsOf(u)
        BY <1>0 DEF RootsOf, LiveAccountsOf
      <3>. QED
        BY <1>0, <1>3, <3>1, <3>2, <3>3 DEF RootStage, MakingRootFor
    <2>. QED
      BY <2>1, <2>2
  <1>4. CASE CreateAccount(r)
    <2>1. PICK jwt \in tokens, p \in Pin, root \in BOOLEAN :
            Goto(r, [Idle EXCEPT !.pc = IF root THEN "rootCheck" ELSE "insert",
                                 !.user = jwt.sub, !.root = root, !.pin = p])
      BY <1>4 DEF CreateAccount
    <2>. DEFINE q == [Idle EXCEPT !.pc = IF root THEN "rootCheck" ELSE "insert",
                                  !.user = jwt.sub, !.root = root, !.pin = p]
    <2>2. q.user = jwt.sub /\ q.root = root /\ q.pc = IF root THEN "rootCheck" ELSE "insert"
      BY DEF Idle
    <2>3. Goto(r, q)
      BY <2>1
    <2>. HIDE DEF q
    <2>4. MakesRoot(q) => q.pc = "rootCheck"
      BY <2>2 DEF MakesRoot
    <2>. QED
      BY <1>3, <2>2, <2>3, <2>4
  <1>5. CASE Login(r)
    <2>1. PICK v \in User, p \in Pin :
            /\ users[v] = "live"
            /\ Goto(r, [Idle EXCEPT !.pc = "loginIssue", !.user = v, !.seen = WithPin(v, p)])
      BY <1>5 DEF Login
    <2>. DEFINE q == [Idle EXCEPT !.pc = "loginIssue", !.user = v, !.seen = WithPin(v, p)]
    <2>2. q.pc = "loginIssue" /\ q.user = v /\ q.seen = WithPin(v, p)
      BY DEF Idle
    <2>3. Goto(r, q)
      BY <2>1
    <2>. HIDE DEF q
    <2>4. CASE v # u
      BY <1>1, <2>2, <2>3, <2>4 DEF Concerns
    <2>5. CASE v = u
      <3>1. req'[r] = q /\ \A s \in Req \ {r} : req'[s] = req[s]
        BY <2>3, Moved
      <3>2. LiveAccountsOf(u)' = LiveAccountsOf(u) /\ RootsOf(u)' = RootsOf(u)
        BY <1>0 DEF RootsOf, LiveAccountsOf
      <3>3. MakingRootFor(u)' = MakingRootFor(u) /\ r \notin MakingRootFor(u)
        BY <1>0, <2>2, <3>1 DEF MakingRootFor, MakesRoot
      <3>4. LiveAccountsOf(u) = {} => q.seen = {}
        BY <2>2, <2>5 DEF WithPin
      <3>5. Unentered(u) => Unentered(u)'
        BY <1>0, <2>2, <3>1, <3>2, <3>4 DEF Unentered
      <3>6. \A s \in MakingRootFor(u) : req'[s] = req[s]
        BY <3>1, <3>3 DEF MakingRootFor
      <3>. QED
        BY <1>0, <3>2, <3>3, <3>5, <3>6 DEF RootStage
    <2>. QED
      BY <2>4, <2>5
  <1>. QED
    BY <1>2, <1>4, <1>5 DEF Asks

\* An end of the request, or another step of it that RootStage does not see.
LEMMA EndsRoot ==
    ASSUME NEW u \in User, RootStage(u), Base, NEW r \in Req, Answer(r),
           ~(MakesRoot(req[r]) /\ req[r].user = u), users' = users,
           \A a \in Account : AccountUser[a] = u => accounts'[a] = accounts[a],
           \A t \in tokens' : t.sub = u => t \in tokens
    PROVE  RootStage(u)'
  <1>1. ~Concerns(Idle, u)
    BY DEF Concerns, Idle
  <1>. QED
    BY <1>1, RootKeptBy DEF Answer

LEMMA UserInsertRoot ==
    ASSUME NEW u \in User, RootStage(u), Base, NEW r \in Req, UserInsert(r)
    PROVE  RootStage(u)'
  <1>. DEFINE v == req[r].user
  <1>. DEFINE q == [req[r] EXCEPT !.pc = "rootCheck"]
  <1>0. /\ v \in User /\ req[r].root /\ req[r].pc = "userInsert" /\ ~MakesRoot(req[r])
        /\ UNCHANGED <<accounts, pin, tokens>>
    BY DEF Base, Shape, UserInsert, MakesRoot
  <1>1. q.pc = "rootCheck" /\ q.user = v /\ q.root
    BY <1>0, AwaitFits DEF Pc
  <1>2. CASE users' = users /\ Answer(r)
    BY <1>0, <1>2, EndsRoot
  <1>3. CASE users[v] = "new" /\ users' = [users EXCEPT ![v] = "live"] /\ Goto(r, q)
    <2>. HIDE DEF q, v
    <2>1. users'[v] = "live" /\ \A w \in User \ {v} : users'[w] = users[w]
      BY <1>0, <1>3 DEF Base, AuditTypeOK, TypeOK
    <2>2. req'[r] = q /\ \A s \in Req \ {r} : req'[s] = req[s]
      BY <1>3, Moved
    <2>3. CASE v # u
      BY <1>0, <1>1, <1>3, <2>1, <2>3, RootKeptBy DEF Concerns
    <2>4. CASE v = u
      <3>1. MakingRootFor(u) = {} /\ Unentered(u)
        BY <1>3, <2>4 DEF RootStage, RootsOf
      <3>2. MakingRootFor(u)' = {r}
        BY <1>1, <2>2, <2>4, <3>1 DEF MakingRootFor, MakesRoot
      <3>3. LiveAccountsOf(u)' = LiveAccountsOf(u)
        BY <1>0 DEF LiveAccountsOf
      <3>4. Unentered(u)'
        BY <1>0, <1>1, <2>2, <3>1, <3>3 DEF Unentered
      <3>. QED
        BY <2>1, <2>4, <3>2, <3>4 DEF RootStage
    <2>. QED
      BY <2>3, <2>4
  <1>. QED
    BY <1>2, <1>3 DEF UserInsert, Await

LEMMA RootCheckRoot ==
    ASSUME NEW u \in User, RootStage(u), Base, NEW r \in Req, RootCheck(r)
    PROVE  RootStage(u)'
  <1>. DEFINE v == req[r].user
  <1>. DEFINE q == [req[r] EXCEPT !.pc = "insert"]
  <1>0. /\ v \in User /\ req[r].root /\ req[r].pc = "rootCheck"
        /\ UNCHANGED <<users, accounts, pin, tokens>>
    BY DEF Base, Shape, RootCheck, tables
  <1>1. q.pc = "insert" /\ q.user = v /\ q.root
    BY <1>0, AwaitFits DEF Pc
  <1>2. RootsOf(u)' = RootsOf(u) /\ LiveAccountsOf(u)' = LiveAccountsOf(u)
    BY <1>0 DEF RootsOf, LiveAccountsOf
  <1>3. CASE v # u
    <2>1. Answer(r) \/ Goto(r, q)
      BY DEF RootCheck, Await
    <2>. HIDE DEF q
    <2>. QED
      BY <1>0, <1>1, <1>3, <2>1, EndsRoot, RootKeptBy DEF Concerns
  <1>4. CASE v = u /\ RootsOf(u) # {} /\ Goto(r, Idle)
    <2>1. req'[r] = Idle /\ (\A s \in Req \ {r} : req'[s] = req[s]) /\ ~MakesRoot(Idle)
      BY <1>4, Moved DEF MakesRoot, Idle
    <2>2. ~Unentered(u)
      BY <1>4 DEF Unentered, RootsOf
    <2>. QED
      BY <1>0, <1>2, <2>1, <2>2 DEF RootStage, MakingRootFor
  <1>5. CASE v = u /\ RootsOf(u) = {} /\ Goto(r, q)
    <2>. HIDE DEF q
    <2>1. req'[r] = q /\ \A s \in Req \ {r} : req'[s] = req[s]
      BY <1>5, Moved
    <2>2. r \in MakingRootFor(u)
      BY <1>0, <1>5 DEF MakingRootFor, MakesRoot
    <2>3. MakingRootFor(u)' = MakingRootFor(u)
      BY <1>0, <1>1, <1>5, <2>1, <2>2 DEF MakingRootFor, MakesRoot
    <2>4. Unentered(u) => Unentered(u)'
      BY <1>0, <1>1, <1>2, <1>5, <2>1 DEF Unentered
    <2>5. users[u] = "gone" \/ (users[u] = "live" /\ Unentered(u) /\ \E s \in Req : MakingRootFor(u) = {s})
      BY <1>5, <2>2 DEF RootStage
    <2>. QED
      BY <1>0, <2>3, <2>4, <2>5 DEF RootStage
  <1>. QED
    BY <1>3, <1>4, <1>5 DEF RootCheck, Answer, Await

LEMMA InsertRoot ==
    ASSUME NEW u \in User, RootStage(u), Base, NEW r \in Req, Insert(r)
    PROVE  RootStage(u)'
  <1>. DEFINE v == req[r].user
  <1>0. /\ v \in User /\ req[r].pc = "insert"
        /\ UNCHANGED <<users, tokens>> /\ Answer(r)
    BY DEF Base, Shape, Insert
  <1>1. req'[r] = Idle /\ (\A s \in Req \ {r} : req'[s] = req[s]) /\ ~MakesRoot(Idle)
    BY <1>0, Moved DEF MakesRoot, Idle, Answer
  <1>. HIDE DEF v
  <1>2. ASSUME accounts' = accounts, users[v] # "live"
        PROVE  RootStage(u)'
    <2>1. CASE v = u
      <3>1. CASE users[u] = "new"
        <4>1. MakingRootFor(u) = {} /\ Unentered(u)
          BY <3>1 DEF RootStage
        <4>2. r \in MakingRootFor(u)
          BY <1>0, <2>1, <4>1 DEF v, Unentered, MakingRootFor, MakesRoot
        <4>. QED
          BY <4>1, <4>2
      <3>2. CASE users[u] = "gone"
        BY <1>0, <3>2 DEF RootStage
      <3>. QED
        BY <1>2, <2>1, <3>1, <3>2 DEF Base, AuditTypeOK, TypeOK
    <2>2. CASE v # u
      BY <1>0, <1>2, <2>2, EndsRoot DEF v
    <2>. QED
      BY <2>1, <2>2
  <1>3. ASSUME NEW a \in Account, AccountUser[a] = v, a \in Root <=> req[r].root,
               users[v] = "live", accounts' = [accounts EXCEPT ![a] = "live"]
        PROVE  RootStage(u)'
    <2>0. accounts'[a] = "live" /\ \A b \in Account \ {a} : accounts'[b] = accounts[b]
      BY <1>3 DEF Base, AuditTypeOK, TypeOK
    <2>1. CASE v # u
      BY <1>0, <1>3, <2>0, <2>1, EndsRoot DEF v
    <2>2. CASE v = u /\ Unentered(u) /\ \E s \in Req : MakingRootFor(u) = {s}
      <3>1. req[r].root /\ r \in MakingRootFor(u)
        BY <1>0, <2>2 DEF v, Unentered, MakingRootFor, MakesRoot
      <3>2. RootsOf(u)' = {a}
        BY <1>3, <2>0, <2>2, <3>1 DEF RootsOf, LiveAccountsOf, Unentered
      <3>3. MakingRootFor(u)' = {}
        BY <1>1, <2>2, <3>1 DEF MakingRootFor
      <3>. QED
        BY <1>0, <1>3, <2>2, <3>2, <3>3 DEF RootStage
    <2>3. CASE /\ v = u
               /\ \E b \in Account : RootsOf(u) = {b}
               /\ \A s \in MakingRootFor(u) : req[s].pc = "rootCheck"
      <3>1. a \notin Root
        BY <1>0, <1>3, <2>3 DEF v, MakingRootFor, MakesRoot
      <3>2. RootsOf(u)' = RootsOf(u)
        BY <2>0, <3>1 DEF RootsOf, LiveAccountsOf
      <3>3. \A s \in MakingRootFor(u)' : s \in MakingRootFor(u) /\ req'[s] = req[s]
        BY <1>1 DEF MakingRootFor
      <3>. QED
        BY <1>0, <1>3, <2>3, <3>2, <3>3 DEF RootStage
    <2>. QED
      BY <1>3, <2>1, <2>2, <2>3 DEF RootStage
  <1>. QED
    BY <1>2, <1>3 DEF Insert, v

LEMMA DeleteRoot ==
    ASSUME NEW u \in User, RootStage(u), Base, NEW r \in Req, AccountDelete(r),
           ~(req[r].acct \in Root /\ AccountUser[req[r].acct] = u)
    PROVE  RootStage(u)'
  <1>. DEFINE a == req[r].acct
  <1>0. /\ a \in Account /\ ~MakesRoot(req[r]) /\ Answer(r) /\ UNCHANGED <<users, tokens>>
    BY DEF Base, Shape, AccountDelete, MakesRoot
  <1>1. \A b \in Account : accounts'[b] = accounts[b] \/ (b = a /\ accounts[a] = "live" /\ accounts'[b] = "gone")
    BY <1>0 DEF AccountDelete, Base, AuditTypeOK, TypeOK
  <1>2. AccountUser[a] # u \/ a \notin Root
    OBVIOUS
  <1>. HIDE DEF a
  <1>3. CASE Unentered(u) \/ AccountUser[a] # u
    <2>1. \A b \in Account : AccountUser[b] = u => accounts'[b] = accounts[b]
      BY <1>1, <1>3 DEF Unentered, LiveAccountsOf
    <2>. QED
      BY <1>0, <2>1, EndsRoot
  <1>4. CASE ~Unentered(u) /\ a \notin Root
    <2>1. RootsOf(u)' = RootsOf(u)
      BY <1>1, <1>4 DEF RootsOf, LiveAccountsOf
    <2>2. \A s \in MakingRootFor(u)' : s \in MakingRootFor(u) /\ req'[s] = req[s]
      BY <1>0, Moved DEF MakingRootFor, MakesRoot, Answer, Idle
    <2>. QED
      BY <1>0, <1>4, <2>1, <2>2 DEF RootStage
  <1>. QED
    BY <1>2, <1>3, <1>4

LEMMA LoginRoot ==
    ASSUME NEW u \in User \ Operator, RootStage(u), Base, NEW r \in Req, LoginIssue(r)
    PROVE  RootStage(u)'
  <1>0. /\ req[r].pc = "loginIssue" /\ ~MakesRoot(req[r]) /\ Answer(r) /\ UNCHANGED <<users, accounts>>
    BY DEF LoginIssue, MakesRoot
  <1>1. CASE Unentered(u) \/ req[r].user # u
    <2>1. req[r].user = u => tokens' = tokens
      BY <1>0, <1>1 DEF LoginIssue, Unentered
    <2>2. \A t \in tokens' : t \in tokens \/ t.sub = req[r].user
      BY DEF LoginIssue, Jwt
    <2>. QED
      BY <1>0, <2>1, <2>2, EndsRoot
  <1>2. CASE ~Unentered(u)
    <2>1. RootsOf(u)' = RootsOf(u)
      BY <1>0 DEF RootsOf, LiveAccountsOf
    <2>2. \A s \in MakingRootFor(u)' : s \in MakingRootFor(u) /\ req'[s] = req[s]
      BY <1>0, Moved DEF MakingRootFor, MakesRoot, Answer, Idle
    <2>. QED
      BY <1>0, <1>2, <2>1, <2>2 DEF RootStage
  <1>. QED
    BY <1>1, <1>2

LEMMA RootStep ==
    ASSUME Base, RootInv, [AuditNext]_auditVars
    PROVE  RootInv'
  <1>. SUFFICES ASSUME NEW u \in User \ Operator, u \notin unrooted'
                PROVE  RootStage(u)'
    BY DEF RootInv
  <1>0. unrooted \subseteq unrooted' => RootStage(u)
    BY DEF RootInv
  <1>1. ASSUME NEW r \in Req, Inserts(r)
        PROVE  RootStage(u)'
    BY <1>0, <1>1, InsertRoot DEF Inserts
  <1>2. ASSUME NEW r \in Req, Writes(r)
        PROVE  RootStage(u)'
    BY <1>0, <1>2, EndsRoot DEF Writes, PinWrite, MakesRoot
  <1>3. ASSUME NEW r \in Req, Deletes(r)
        PROVE  RootStage(u)'
    <2>1. ~(req[r].acct \in Root /\ AccountUser[req[r].acct] = u) /\ unrooted \subseteq unrooted'
      BY <1>3 DEF Deletes
    <2>. QED
      BY <1>0, <1>3, <2>1, DeleteRoot DEF Deletes
  <1>4. ASSUME NEW r \in Req, Others(r)
        PROVE  RootStage(u)'
    <2>0. RootStage(u)
      BY <1>0, <1>4 DEF Others, Same
    <2>1. CASE PinCheck(r) \/ UpdateOwner(r) \/ RemoveOwner(r)
      <3>1. req[r].pc \in {"pinCheck", "updateOwner", "removeOwner"} /\ UNCHANGED <<users, accounts, tokens>>
        BY <2>1 DEF PinCheck, UpdateOwner, RemoveOwner, tables
      <3>2. CASE Goto(r, Idle)
        BY <2>0, <3>1, <3>2, EndsRoot DEF Answer, MakesRoot
      <3>3. ASSUME NEW q, Goto(r, q), ~Concerns(q, u)
            PROVE  RootStage(u)'
        BY <2>0, <3>1, <3>3, RootKeptBy DEF MakesRoot
      <3>4. \/ Goto(r, Idle) \/ Goto(r, [req[r] EXCEPT !.pc = "pinWrite"])
            \/ Goto(r, [req[r] EXCEPT !.pc = "pinCheck", !.jwt = None])
            \/ Goto(r, [req[r] EXCEPT !.pc = "accountDelete", !.jwt = None])
        BY <2>1 DEF PinCheck, UpdateOwner, RemoveOwner, Answer, Await
      <3>5. req[r] \in Request
        BY DEF Base, AuditTypeOK, TypeOK
      <3>. QED
        BY <3>2, <3>3, <3>4, <3>5 DEF Concerns, Request
    <2>. QED
      BY <1>4, <2>0, <2>1, AsksRoot, UserInsertRoot, RootCheckRoot, LoginRoot DEF Others
  <1>5. ASSUME NEW r \in Req, Fails(r)
        PROVE  RootStage(u)'
    BY <1>0, <1>5, EndsRoot DEF Fails, QueryFails, tables
  <1>6. ASSUME NEW v \in User, RemoveUser(v), Same
        PROVE  RootStage(u)'
    <2>0. RootStage(u)
      BY <1>0, <1>6 DEF Same
    <2>1. CASE v = u
      BY <1>6, <2>1 DEF RemoveUser, RootStage, Base, AuditTypeOK, TypeOK
    <2>2. CASE v # u
      <3>1. users'[u] = users[u]
        BY <1>6, <2>2 DEF RemoveUser
      <3>2. \A a \in Account : AccountUser[a] = u => accounts'[a] = accounts[a]
        BY <1>6, <2>2 DEF RemoveUser, LiveAccountsOf
      <3>. QED
        BY <1>6, <2>0, <3>1, <3>2, RootKept DEF RemoveUser
    <2>. QED
      BY <2>1, <2>2
  <1>7. CASE UNCHANGED auditVars
    BY <1>0, <1>7, RootKept DEF auditVars, vars
  <1>. QED
    BY <1>1, <1>2, <1>3, <1>4, <1>5, <1>6, <1>7 DEF AuditNext

-----------------------------------------------------------------------------
(* The theorems *)

LEMMA InitInv ==
    ASSUME AuditInit
    PROVE  DirectoryIInv
  <1>1. Base
    BY IdleFits DEF AuditInit, Init, Base, AuditTypeOK, TypeOK, Operator
  <1>2. \A r \in Req : req[r].pc = "idle"
    BY DEF AuditInit, Init, Idle
  <1>3. PinsDistinct /\ PinInv
    BY <1>2 DEF AuditInit, Init, PinsDistinct, PinInv
  <1>4. RootInv
    BY <1>2 DEF AuditInit, Init, RootInv, RootStage, Unentered, MakingRootFor, MakesRoot, LiveAccountsOf
  <1>. QED
    BY <1>1, <1>3, <1>4 DEF DirectoryIInv, Base

\* The inductive invariant holds in every state of the specification.
THEOREM DirectoryInductive == AuditSpec => []DirectoryIInv
  <1>1. DirectoryIInv /\ [AuditNext]_auditVars => DirectoryIInv'
    BY BaseStep, PinsStep, RootStep DEF DirectoryIInv, Base
  <1>. QED
    BY InitInv, <1>1, PTL DEF AuditSpec

\* The tables, the tokens, the requests and the history keep their types.
THEOREM DirectoryTypeCorrect == AuditSpec => []AuditTypeOK
  BY DirectoryInductive, PTL DEF DirectoryIInv

\* Without a constraint in the database and without a transaction, a live user
\* has exactly one root account, as long as none was removed and no creation
\* of one broke off.
THEOREM RootAlwaysExact == AuditSpec => []RootExact
  <1>1. DirectoryIInv => RootExact
    <2>. SUFFICES ASSUME RootInv, NEW u \in User \ (Operator \cup unrooted),
                         users[u] = "live", MakingRootFor(u) = {}
                  PROVE  \E a \in Account : RootsOf(u) = {a}
      BY DEF DirectoryIInv, RootExact
    <2>. QED
      BY DEF RootInv, RootStage
  <1>. QED
    BY <1>1, DirectoryInductive, PTL

\* A PIN signs in one account, unless PINs were created or written unchecked.
THEOREM PinsAlwaysDistinct == AuditSpec => []PinsDistinct
  BY DirectoryInductive, PTL DEF DirectoryIInv

-----------------------------------------------------------------------------
\* Users and accounts live as Tenancy says, however the requests that add and
\* delete them overlap.
THEOREM TenancyKept == AuditSpec => TenancySpec
  <1>1. AuditInit => Tenants!Init
    BY DEF AuditInit, Init, Tenants!Init
  <1>2. DirectoryIInv /\ [AuditNext]_auditVars => [Tenants!Next]_<<users, accounts>>
    <2>. SUFFICES ASSUME DirectoryIInv, [AuditNext]_auditVars,
                         <<users, accounts>>' # <<users, accounts>>
                  PROVE  Tenants!Next
      OBVIOUS
    <2>0. TypeOK /\ \A r \in Req : Shape(req[r])
      BY DEF DirectoryIInv, AuditTypeOK
    <2>1. ASSUME NEW r \in Req, Inserts(r)
          PROVE  Tenants!Next
      <3>1. PICK a \in Account : /\ accounts[a] = "new" /\ AccountUser[a] = req[r].user
                                 /\ users[req[r].user] = "live"
                                 /\ accounts' = [accounts EXCEPT ![a] = "live"]
                                 /\ users' = users
        BY <2>1 DEF Inserts, Insert
      <3>. QED
        BY <3>1 DEF Tenants!Next, Tenants!AddAccount, Tenants!Moves
    <2>2. ASSUME NEW r \in Req, Deletes(r)
          PROVE  Tenants!Next
      <3>1. req[r].acct \in Account
        BY <2>0, <2>2 DEF Deletes, AccountDelete, Shape
      <3>2. /\ accounts[req[r].acct] = "live"
            /\ accounts' = [accounts EXCEPT ![req[r].acct] = "gone"]
            /\ users' = users
        BY <2>2 DEF Deletes, AccountDelete
      <3>. QED
        BY <3>1, <3>2 DEF Tenants!Next, Tenants!DropAccount, Tenants!Moves
    <2>3. ASSUME NEW r \in Req, UserInsert(r)
          PROVE  Tenants!Next
      <3>1. req[r].user \in User
        BY <2>0, <2>3 DEF UserInsert, Shape
      <3>2. /\ users[req[r].user] = "new"
            /\ users' = [users EXCEPT ![req[r].user] = "live"]
            /\ accounts' = accounts
        BY <2>3 DEF UserInsert
      <3>. QED
        BY <3>1, <3>2 DEF Tenants!Next, Tenants!AddUser, Tenants!Moves
    <2>4. ASSUME NEW u \in User, RemoveUser(u)
          PROVE  Tenants!Next
      <3>1. accounts' = [a \in Account |->
              IF AccountUser[a] = u /\ accounts[a] = "live" THEN "gone" ELSE accounts[a]]
        BY <2>4 DEF RemoveUser, LiveAccountsOf
      <3>. QED
        BY <2>4, <3>1 DEF RemoveUser, Tenants!Next, Tenants!DropUser, Tenants!Moves
    <2>5. ASSUME NEW r \in Req, Writes(r) \/ Fails(r) \/ (Others(r) /\ ~UserInsert(r))
          PROVE  UNCHANGED <<users, accounts>>
      BY <2>5 DEF Writes, PinWrite, Fails, QueryFails, Others, Asks, CreateUser, CreateAccount,
           UpdateAccount, RemoveAccount, Login, RootCheck, UpdateOwner, PinCheck, RemoveOwner,
           LoginIssue, tables
    <2>. QED
      BY <2>1, <2>2, <2>3, <2>4, <2>5 DEF AuditNext, auditVars, vars
  <1>. QED
    BY <1>1, <1>2, DirectoryInductive, PTL DEF AuditSpec, TenancySpec, Tenants!Spec

=============================================================================
