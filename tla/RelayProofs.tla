----------------------------- MODULE RelayProofs ----------------------------
(***************************************************************************)
(* AnswersFit, CandidatesFollow and AnswersAwaited for any number of       *)
(* accounts, emulators, pages and offers.  For the first the sequences of  *)
(* messages are looked at through their Items alone: each action takes     *)
(* items away and adds at most those it names.  For the others the second  *)
(* half looks at the places of an account's turn and at the order of what  *)
(* a page sends.                                                           *)
(***************************************************************************)
EXTENDS RelayAudit, SequenceTheorems, TLAPS

USE RelayAssumption

-----------------------------------------------------------------------------
(* Queues *)

\* The first message is one of the queue's, and the rest are the others at most.
LEMMA TailItems ==
    ASSUME NEW S, NEW q \in Seq(S), q # << >>
    PROVE  /\ Head(q) \in Items(q) /\ Head(q) \in S
           /\ Tail(q) \in Seq(S) /\ Items(Tail(q)) \subseteq Items(q)
<1>1. /\ Head(q) \in S /\ Tail(q) \in Seq(S) /\ Len(Tail(q)) = Len(q) - 1
      /\ \A i \in 1..Len(Tail(q)) : Tail(q)[i] = q[i + 1]
  BY HeadTailProperties
<1>2. Len(q) \in Nat \ {0} /\ DOMAIN q = 1..Len(q) /\ DOMAIN Tail(q) = 1..Len(Tail(q))
  BY <1>1, LenProperties, EmptySeq
<1>3. Head(q) = q[1] /\ 1 \in DOMAIN q
  BY <1>2
<1>4. Items(Tail(q)) \subseteq Items(q)
  <2> SUFFICES ASSUME NEW i \in DOMAIN Tail(q) PROVE Tail(q)[i] \in Items(q)
    BY DEF Items
  <2>1. Tail(q)[i] = q[i + 1] /\ i + 1 \in DOMAIN q
    BY <1>1, <1>2
  <2> QED BY <2>1 DEF Items
<1> QED BY <1>1, <1>3, <1>4 DEF Items

\* Appending a message adds it.
LEMMA AppendItems ==
    ASSUME NEW S, NEW q \in Seq(S), NEW m \in S
    PROVE  Append(q, m) \in Seq(S) /\ Items(Append(q, m)) = Items(q) \cup {m}
<1>1. /\ Append(q, m) \in Seq(S) /\ Len(Append(q, m)) = Len(q) + 1
      /\ \A i \in 1..Len(q) : Append(q, m)[i] = q[i]
      /\ Append(q, m)[Len(q) + 1] = m
  BY AppendProperties
<1>2. /\ Len(q) \in Nat /\ DOMAIN q = 1..Len(q)
      /\ DOMAIN Append(q, m) = 1..(Len(q) + 1)
  BY <1>1, LenProperties
<1>3. DOMAIN Append(q, m) = DOMAIN q \cup {Len(q) + 1}
  BY <1>2
<1> QED BY <1>1, <1>2, <1>3 DEF Items

\* Concatenating two messages is appending one after the other.
LEMMA ConcatAppend ==
    ASSUME NEW S, NEW q \in Seq(S), NEW m \in S, NEW n \in S
    PROVE  q \o <<m, n>> = Append(Append(q, m), n)
<1>1. <<m, n>> \in Seq(S) /\ Len(<<m, n>>) = 2
  OBVIOUS
<1>2. /\ q \o <<m, n>> \in Seq(S) /\ Len(q \o <<m, n>>) = Len(q) + 2
      /\ \A i \in 1..(Len(q) + 2) :
           (q \o <<m, n>>)[i] = IF i <= Len(q) THEN q[i] ELSE <<m, n>>[i - Len(q)]
  BY <1>1, ConcatProperties
<1>3. /\ Append(q, m) \in Seq(S) /\ Len(Append(q, m)) = Len(q) + 1
      /\ \A i \in 1..Len(q) : Append(q, m)[i] = q[i]
      /\ Append(q, m)[Len(q) + 1] = m
  BY AppendProperties
<1>4. /\ Append(Append(q, m), n) \in Seq(S) /\ Len(Append(Append(q, m), n)) = Len(q) + 2
      /\ \A i \in 1..(Len(q) + 1) : Append(Append(q, m), n)[i] = Append(q, m)[i]
      /\ Append(Append(q, m), n)[Len(q) + 2] = n
  BY <1>3, AppendProperties, LenProperties
<1>5. ASSUME NEW i \in 1..(Len(q) + 2)
      PROVE  (q \o <<m, n>>)[i] = Append(Append(q, m), n)[i]
  <2>0. Len(q) \in Nat
    BY LenProperties
  <2>1. CASE i <= Len(q)
    BY <2>0, <2>1, <1>2, <1>3, <1>4
  <2>2. CASE i = Len(q) + 1
    <3>1. i - Len(q) = 1 /\ ~(i <= Len(q)) /\ i \in 1..(Len(q) + 1)
      BY <2>0, <2>2
    <3> QED BY <3>1, <2>2, <1>2, <1>3, <1>4
  <2>3. CASE i = Len(q) + 2
    <3>1. i - Len(q) = 2 /\ ~(i <= Len(q))
      BY <2>0, <2>3
    <3> QED BY <3>1, <2>3, <1>2, <1>4
  <2> QED BY <2>0, <2>1, <2>2, <2>3
<1> QED BY <1>2, <1>4, <1>5, SeqEqual

\* So does concatenation.
LEMMA ConcatItems ==
    ASSUME NEW S, NEW q \in Seq(S), NEW m \in S, NEW n \in S
    PROVE  q \o <<m, n>> \in Seq(S) /\ Items(q \o <<m, n>>) = Items(q) \cup {m, n}
<1>1. q \o <<m, n>> = Append(Append(q, m), n)
  BY ConcatAppend
<1>2. Append(q, m) \in Seq(S) /\ Items(Append(q, m)) = Items(q) \cup {m}
  BY AppendItems
<1>3. /\ Append(Append(q, m), n) \in Seq(S)
      /\ Items(Append(Append(q, m), n)) = Items(Append(q, m)) \cup {n}
  <2>1. \A p \in Seq(S) : Append(p, n) \in Seq(S) /\ Items(Append(p, n)) = Items(p) \cup {n}
    BY AppendItems
  <2> QED BY <1>2, <2>1
<1>4. Items(q \o <<m, n>>) = (Items(q) \cup {m}) \cup {n}
  BY <1>1, <1>2, <1>3
<1>5. q \o <<m, n>> \in Seq(S)
  BY <1>1, <1>3
<1> QED BY <1>4, <1>5

\* What the server takes from s, and what that leaves.
LEMMA TakesFacts ==
    ASSUME TypeOK, NEW s \in Socket, NEW ev, Takes(s, ev)
    PROVE  /\ Head(up[s]) \in Message /\ Head(up[s]) \in Items(up[s]) /\ Head(up[s]).ev = ev
           /\ up' \in [Socket -> Seq(Message)]
           /\ \A x \in Socket : Items(up'[x]) \subseteq Items(up[x])
<1>1. up[s] \in Seq(Message) /\ up[s] # << >> /\ up' = [up EXCEPT ![s] = Tail(@)]
  BY DEF TypeOK, Takes
<1>2. /\ Head(up[s]) \in Items(up[s]) /\ Head(up[s]) \in Message
      /\ Tail(up[s]) \in Seq(Message) /\ Items(Tail(up[s])) \subseteq Items(up[s])
  BY <1>1, TailItems
<1>3. \A x \in Socket : up'[x] = IF x = s THEN Tail(up[s]) ELSE up[x]
  BY <1>1 DEF TypeOK
<1>4. up' \in [Socket -> Seq(Message)]
  BY <1>1, <1>2, <1>3 DEF TypeOK
<1>5. \A x \in Socket : Items(up'[x]) \subseteq Items(up[x])
  BY <1>2, <1>3
<1> QED BY <1>2, <1>4, <1>5 DEF Takes

\* What a page takes from s.
LEMMA GetsFacts ==
    ASSUME TypeOK, NEW s \in Socket, NEW ev, Gets(s, ev)
    PROVE  /\ Head(down[s]) \in Message /\ Head(down[s]) \in Items(down[s])
           /\ Head(down[s]).ev = ev
           /\ down' \in [Socket -> Seq(Message)]
           /\ \A x \in Socket : Items(down'[x]) \subseteq Items(down[x])
<1>1. down[s] \in Seq(Message) /\ down[s] # << >> /\ down' = [down EXCEPT ![s] = Tail(@)]
  BY DEF TypeOK, Gets
<1>2. /\ Head(down[s]) \in Items(down[s]) /\ Head(down[s]) \in Message
      /\ Tail(down[s]) \in Seq(Message) /\ Items(Tail(down[s])) \subseteq Items(down[s])
  BY <1>1, TailItems
<1>3. \A x \in Socket : down'[x] = IF x = s THEN Tail(down[s]) ELSE down[x]
  BY <1>1 DEF TypeOK
<1>4. down' \in [Socket -> Seq(Message)]
  BY <1>1, <1>2, <1>3 DEF TypeOK
<1>5. \A x \in Socket : Items(down'[x]) \subseteq Items(down[x])
  BY <1>2, <1>3
<1> QED BY <1>2, <1>4, <1>5 DEF Gets

\* An emit reaches the socket it is for, or none.
LEMMA EmitFacts ==
    ASSUME TypeOK, NEW t \in Socket \cup {None}, NEW m \in Message, Emit(t, m)
    PROVE  /\ down' \in [Socket -> Seq(Message)]
           /\ \A x \in Socket : \A y \in Items(down'[x]) :
                y \in Items(down[x]) \/ (x = t /\ y = m)
<1>1. CASE down' = down
  BY <1>1 DEF TypeOK
<1>2. CASE t \in Socket /\ down' = [down EXCEPT ![t] = Append(@, m)]
  <2>1. down[t] \in Seq(Message)
    BY <1>2 DEF TypeOK
  <2>2. Append(down[t], m) \in Seq(Message) /\ Items(Append(down[t], m)) = Items(down[t]) \cup {m}
    BY <2>1, AppendItems
  <2>3. \A x \in Socket : down'[x] = IF x = t THEN Append(down[t], m) ELSE down[x]
    BY <1>2 DEF TypeOK
  <2>4. down' \in [Socket -> Seq(Message)]
    BY <1>2, <2>2, <2>3 DEF TypeOK
  <2> QED BY <2>2, <2>3, <2>4
<1> QED BY <1>1, <1>2 DEF Emit

\* A page sends one message.
LEMMA SendFacts ==
    ASSUME TypeOK, NEW s \in Socket, NEW m \in Message, Send(s, m)
    PROVE  /\ up' \in [Socket -> Seq(Message)]
           /\ \A x \in Socket : \A y \in Items(up'[x]) :
                y \in Items(up[x]) \/ (x = s /\ y = m)
<1>1. up[s] \in Seq(Message)
  BY DEF TypeOK
<1>2. Append(up[s], m) \in Seq(Message) /\ Items(Append(up[s], m)) = Items(up[s]) \cup {m}
  BY <1>1, AppendItems
<1>3. \A x \in Socket : up'[x] = IF x = s THEN Append(up[s], m) ELSE up[x]
  BY DEF TypeOK, Send
<1>4. up' \in [Socket -> Seq(Message)]
  BY <1>2, <1>3 DEF TypeOK, Send
<1> QED BY <1>2, <1>3, <1>4

-----------------------------------------------------------------------------
(* Steps that leave the connections of the accounts and the offers alone and *)
(* add no message.                                                           *)

LEMMA LesserOffers ==
    ASSUME RelayIInv, UNCHANGED <<offered, hasty>>, shared \subseteq shared',
           \A a \in Account : connections'[a] = connections[a],
           \A x \in Socket : Items(up'[x]) \subseteq Items(up[x]),
           \A x \in Socket : Items(down'[x]) \subseteq Items(down[x]),
           \A e \in Emulator \ shared' : \A w \in work'[e] :
             \E v \in work[e] : v.client = w.client /\ v.offer = w.offer
    PROVE  OneOffer'
<1> SUFFICES ASSUME NEW c \in Client, Owner[c] \notin hasty
             PROVE  \E b \in Client : Only(Owner[c], b)'
  BY DEF OneOffer
<1>1. PICK b \in Client : Only(Owner[c], b)
  BY DEF RelayIInv, OneOffer
<1>2. Current(b)' = Current(b) /\ connections'[Owner[c]] = connections[Owner[c]]
  BY DEF Current
<1>3. \A m : Reach(Owner[c], m)' => Reach(Owner[c], m)
  BY DEF Reach
<1>4. ASSUME NEW s \in Socket, NEW m \in Items(up'[s]), Reach(Owner[c], m)'
      PROVE  /\ m.offer = Current(b) /\ (m.ev = "Offer" => s = b)
             /\ s \in Emulator => connections[Owner[c]] = b
  BY <1>1, <1>3, <1>4 DEF Only
<1>5. ASSUME NEW s \in Socket, NEW m \in Items(down'[s]), Reach(Owner[c], m)'
      PROVE  /\ m.offer = Current(b) /\ (m.ev = "Offer" => connections[Owner[c]] = b)
             /\ s \in Client => s = b
  BY <1>1, <1>3, <1>5 DEF Only
<1>6. ASSUME NEW e \in Emulator \ shared', NEW w \in work'[e], w.client = Owner[c]
      PROVE  w.offer = Current(b) /\ connections[Owner[c]] = b
  <2>1. PICK v \in work[e] : v.client = w.client /\ v.offer = w.offer
    BY <1>6
  <2> QED BY <1>1, <1>6, <2>1 DEF Only
<1>7. Only(Owner[c], b)'
  BY <1>1, <1>2, <1>4, <1>5, <1>6 DEF Only
<1> QED BY <1>7

\* Pages and addresses likewise.
LEMMA LesserAddressed ==
    ASSUME RelayIInv, connections' = connections,
           \A x \in Socket : Items(up'[x]) \subseteq Items(up[x]),
           \A x \in Socket : Items(down'[x]) \subseteq Items(down[x])
    PROVE  Addressed'
<1>1. \A x \in Socket : \A m \in Items(up'[x]) : m \in Items(up[x])
  OBVIOUS
<1>2. \A x \in Socket : \A m \in Items(down'[x]) : m \in Items(down[x])
  OBVIOUS
<1>3. Client \subseteq Socket /\ Emulator \subseteq Socket
  BY DEF Socket
<1> QED BY <1>1, <1>2, <1>3 DEF RelayIInv, Addressed, FromClient, FromEmulator, ToClient, ToEmulator

\* Answers stay right while pages, offers and answers do.
LEMMA SameAnswers ==
    ASSUME RelayIInv, UNCHANGED <<offered, answer>>, hasty \subseteq hasty',
           shared \subseteq shared'
    PROVE  AnswersFit'
BY DEF RelayIInv, AnswersFit, Clear, Current

\* Handlers and peer connections that do not change stay as they are.
LEMMA SamePages ==
    ASSUME RelayIInv, UNCHANGED <<peer, work>>, shared \subseteq shared'
    PROVE  Pages' /\ \A e \in Emulator \ shared' : Steady(e)'
<1>1. Pages'
  BY DEF RelayIInv, Pages
<1>2. \A e \in Emulator \ shared' : Steady(e)'
  BY DEF RelayIInv, Steady
<1> QED BY <1>1, <1>2

-----------------------------------------------------------------------------
(* Sockets *)

LEMMA OpenStep ==
    ASSUME RelayIInv, NEW s \in Socket, Open(s), UNCHANGED <<hasty, shared>>
    PROVE  RelayIInv'
<1> USE DEF Open
<1>1. AuditTypeOK'
  BY DEF RelayIInv, AuditTypeOK, TypeOK
<1>2. Addressed' /\ OneOffer' /\ AnswersFit'
  BY LesserAddressed, LesserOffers, SameAnswers
<1>3. Pages' /\ \A e \in Emulator \ shared' : Steady(e)'
  BY SamePages
<1> QED BY <1>1, <1>2, <1>3 DEF RelayIInv

LEMMA CloseStep ==
    ASSUME RelayIInv, NEW s \in Socket, Close(s), UNCHANGED <<hasty, shared>>
    PROVE  RelayIInv'
<1> USE DEF Close
<1>1. << >> \in Seq(Message) /\ Items(<< >>) = {}
  BY DEF Items
<1>2. AuditTypeOK'
  BY <1>1 DEF RelayIInv, AuditTypeOK, TypeOK
<1>3. /\ \A x \in Socket : Items(up'[x]) \subseteq Items(up[x])
      /\ \A x \in Socket : Items(down'[x]) \subseteq Items(down[x])
  BY <1>1 DEF RelayIInv, AuditTypeOK, TypeOK
<1>4. \A e \in Emulator : work'[e] \subseteq work[e]
  OBVIOUS
<1>5. Addressed' /\ OneOffer' /\ AnswersFit'
  BY <1>3, <1>4, LesserAddressed, LesserOffers, SameAnswers
<1>6. Pages'
  BY <1>4 DEF RelayIInv, Pages
<1>7. \A e \in Emulator \ shared' : Steady(e)'
  BY <1>4 DEF RelayIInv, Steady
<1> QED BY <1>2, <1>5, <1>6, <1>7 DEF RelayIInv

-----------------------------------------------------------------------------
(* The server *)

LEMMA StreamStep ==
    ASSUME RelayIInv, NEW s \in Socket, StartStreaming(s), UNCHANGED <<hasty, shared>>
    PROVE  RelayIInv'
<1> USE DEF StartStreaming
<1>1. /\ Head(up[s]) \in Items(up[s]) /\ Head(up[s]).ev = "StartStreaming"
      /\ up' \in [Socket -> Seq(Message)]
      /\ \A x \in Socket : Items(up'[x]) \subseteq Items(up[x])
  BY TakesFacts DEF RelayIInv, AuditTypeOK
<1>2. s \in Emulator
  BY <1>1 DEF RelayIInv, Addressed, FromClient, Socket
<1>3. connections' = [connections EXCEPT ![Owner[s]] = s] /\ Owner[s] \in Device
  BY <1>2
<1>4. AuditTypeOK'
  BY <1>1, <1>3 DEF RelayIInv, AuditTypeOK, TypeOK
<1>5. \A a \in Account : connections'[a] = connections[a]
  BY <1>3 DEF RelayIInv, AuditTypeOK, TypeOK
<1>6. Addressed'
  <2>1. \A p \in Device \cup Account : connections'[p] # None => Owner[connections'[p]] = p
    BY <1>3 DEF RelayIInv, AuditTypeOK, TypeOK, Addressed
  <2> QED BY <1>1, <2>1 DEF RelayIInv, Addressed, FromClient, FromEmulator, ToClient,
                            ToEmulator, Socket
<1>7. OneOffer' /\ AnswersFit'
  BY <1>1, <1>5, LesserOffers, SameAnswers
<1>8. Pages' /\ \A e \in Emulator \ shared' : Steady(e)'
  BY SamePages
<1> QED BY <1>4, <1>6, <1>7, <1>8 DEF RelayIInv

\* The offer of s goes to the emulator of the map, and the account is s from now on.
LEMMA OfferStep ==
    ASSUME RelayIInv, NEW s \in Socket, Offer(s), UNCHANGED <<hasty, shared>>
    PROVE  RelayIInv'
<1> DEFINE m == Head(up[s])
<1>1. /\ m \in Items(up[s]) /\ m.ev = "Offer" /\ m \in Message
      /\ up' \in [Socket -> Seq(Message)]
      /\ \A x \in Socket : Items(up'[x]) \subseteq Items(up[x])
  BY TakesFacts DEF RelayIInv, AuditTypeOK, Offer
<1>2. s \in Client /\ FromClient(s, m)
  BY <1>1 DEF RelayIInv, Addressed, FromEmulator, Socket
<1>i. m = Head(up[s]) /\ None \notin shared
  BY DEF RelayIInv, AuditTypeOK, Socket
<1> HIDE DEF m
<1> DEFINE a == Owner[s]
<1>3. m.client = a /\ a \in Account /\ m.from = None /\ m.offer \in Offers /\ Owner[m.offer[1]] = a
  BY <1>2 DEF FromClient
<1>4. Pages' /\ (\A e \in Emulator \ shared' : Steady(e)') /\ AnswersFit'
  BY SamePages, SameAnswers DEF Offer
<1>5. CASE connections' = connections /\ down' = down
  <2>1. AuditTypeOK'
    BY <1>1, <1>5 DEF RelayIInv, AuditTypeOK, TypeOK, Offer
  <2>2. Addressed'
    BY <1>1, <1>5, LesserAddressed
  <2>3. OneOffer'
    BY <1>1, <1>5, LesserOffers DEF Offer
  <2> QED BY <1>4, <2>1, <2>2, <2>3 DEF RelayIInv
<1>6. CASE /\ connections[Target[s]] # None
           /\ connections' = [connections EXCEPT ![m.client] = s]
           /\ Emit(connections[Target[s]], m)
  <2> DEFINE t == connections[Target[s]]
  <2>1. t \in Emulator /\ t \in Socket
    BY <1>2, <1>6 DEF RelayIInv, AuditTypeOK, TypeOK, Addressed, Socket
  <2> HIDE DEF t
  <2>2. /\ down' \in [Socket -> Seq(Message)]
        /\ \A x \in Socket : \A y \in Items(down'[x]) :
                y \in Items(down[x]) \/ (x = t /\ y = m)
    BY <1>1, <1>6, <2>1, EmitFacts DEF RelayIInv, AuditTypeOK, t
  <2>3. \A p \in Device \cup Account : connections'[p] = IF p = a THEN s ELSE connections[p]
    BY <1>3, <1>6 DEF RelayIInv, AuditTypeOK, TypeOK
  <2>4. AuditTypeOK'
    BY <1>1, <1>3, <1>6, <2>2 DEF RelayIInv, AuditTypeOK, TypeOK, Offer
  <2>5. Addressed'
    <3>1. \A p \in Device \cup Account : connections'[p] # None => Owner[connections'[p]] = p
      BY <2>3 DEF RelayIInv, Addressed
    <3>2. \A c \in Client : \A y \in Items(down'[c]) : ToClient(c, y)
      BY <2>1, <2>2 DEF RelayIInv, Addressed, Socket
    <3>3. \A e \in Emulator : \A y \in Items(down'[e]) : ToEmulator(y)
      BY <1>3, <2>2 DEF RelayIInv, Addressed, ToEmulator, Socket
    <3>4. /\ \A c \in Client : \A y \in Items(up'[c]) : FromClient(c, y)
          /\ \A e \in Emulator : \A y \in Items(up'[e]) : FromEmulator(e, y)
      BY <1>1 DEF RelayIInv, Addressed, Socket
    <3> QED BY <3>1, <3>2, <3>3, <3>4 DEF Addressed, ToClient, ToEmulator, FromClient, FromEmulator
  <2>6. OneOffer'
    <3> SUFFICES ASSUME NEW c \in Client, Owner[c] \notin hasty
                 PROVE  \E b \in Client : Only(Owner[c], b)'
      BY DEF OneOffer
    <3>1. PICK b \in Client : Only(Owner[c], b)
      BY DEF RelayIInv, OneOffer
    <3>2. Current(b)' = Current(b) /\ \A y : Reach(Owner[c], y)' <=> Reach(Owner[c], y)
      BY DEF Current, Reach, Offer
    \* An offer of this account is from b, so the map has b in any case.
    <3>3. Owner[c] = a => s = b /\ m.offer = Current(b)
      BY <1>1, <1>3, <1>i, <3>1 DEF Only, Reach
    <3>4. connections'[Owner[c]] = IF Owner[c] = a THEN b ELSE connections[Owner[c]]
      BY <2>3, <3>3
    <3>5. ASSUME NEW x \in Socket, NEW y \in Items(up'[x]), Reach(Owner[c], y)
          PROVE  /\ y.offer = Current(b) /\ (y.ev = "Offer" => x = b)
                 /\ x \in Emulator => connections'[Owner[c]] = b
      BY <1>1, <3>1, <3>4, <3>5 DEF Only
    <3>6. ASSUME NEW x \in Socket, NEW y \in Items(down'[x]), Reach(Owner[c], y)
          PROVE  /\ y.offer = Current(b) /\ (y.ev = "Offer" => connections'[Owner[c]] = b)
                 /\ x \in Client => x = b
      <4>1. CASE y \in Items(down[x])
        BY <3>1, <3>4, <3>6, <4>1 DEF Only
      <4>2. CASE y = m /\ x = t
        BY <1>3, <2>1, <3>3, <3>4, <3>6, <4>2 DEF Reach
      <4> QED BY <2>2, <4>1, <4>2
    <3>7. ASSUME NEW e \in Emulator \ shared, NEW w \in work[e], w.client = Owner[c]
          PROVE  w.offer = Current(b) /\ connections'[Owner[c]] = b
      BY <3>1, <3>4, <3>7 DEF Only
    <3>8. Only(Owner[c], b)'
      BY <3>1, <3>2, <3>5, <3>6, <3>7 DEF Only, Offer
    <3> QED BY <3>8
  <2> QED BY <1>4, <2>4, <2>5, <2>6 DEF RelayIInv
<1> QED BY <1>5, <1>6, <1>i DEF Offer

\* What the server passes on from an emulator's page to the account it names,
\* the map finds the page the offer is from.
LEMMA ForwardStep ==
    ASSUME RelayIInv, NEW s \in Socket, NEW m \in Items(up[s]), m \in Message,
           m.ev \in {"Answer", "IceCandidate"}, up' \in [Socket -> Seq(Message)],
           \A x \in Socket : Items(up'[x]) \subseteq Items(up[x]),
           NEW t \in Socket \cup {None}, Emit(t, m),
           s \in Emulator => t = connections[m.client],
           s \in Client => t = connections[Target[s]],
           UNCHANGED <<sock, connections, offered, answer, peer, work, hasty, shared>>
    PROVE  RelayIInv'
<1>1. /\ down' \in [Socket -> Seq(Message)]
      /\ \A x \in Socket : \A y \in Items(down'[x]) :
           y \in Items(down[x]) \/ (x = t /\ y = m)
  BY EmitFacts DEF RelayIInv, AuditTypeOK
<1>2. AuditTypeOK'
  BY <1>1 DEF RelayIInv, AuditTypeOK, TypeOK
<1>3. Pages' /\ (\A e \in Emulator \ shared' : Steady(e)') /\ AnswersFit'
  BY SamePages, SameAnswers
<1>4. CASE s \in Emulator
  <2>1. m.client \in Account /\ m.offer \in Offers /\ m.from \in Emulator
    BY <1>4 DEF RelayIInv, Addressed, FromEmulator
  <2>2. \A x \in Socket : x = t => x \in Client /\ x \notin Emulator /\ Owner[x] = m.client
    BY <1>4, <2>1 DEF RelayIInv, Addressed, Socket
  <2>3. Addressed'
    <3>1. \A c \in Client : \A y \in Items(down'[c]) : ToClient(c, y)
      BY <1>1, <2>1, <2>2 DEF RelayIInv, Addressed, Socket, ToClient
    <3>2. \A e \in Emulator : \A y \in Items(down'[e]) : ToEmulator(y)
      BY <1>1, <2>2 DEF RelayIInv, Addressed, Socket
    <3>3. /\ \A c \in Client : \A y \in Items(up'[c]) : FromClient(c, y)
          /\ \A e \in Emulator : \A y \in Items(up'[e]) : FromEmulator(e, y)
          /\ \A p \in Device \cup Account : connections'[p] # None => Owner[connections'[p]] = p
      BY DEF RelayIInv, Addressed, Socket
    <3> QED BY <3>1, <3>2, <3>3 DEF Addressed, ToClient, ToEmulator, FromClient, FromEmulator
  <2>4. OneOffer'
    <3> SUFFICES ASSUME NEW c \in Client, Owner[c] \notin hasty
                 PROVE  \E b \in Client : Only(Owner[c], b)'
      BY DEF OneOffer
    <3>1. PICK b \in Client : Only(Owner[c], b)
      BY DEF RelayIInv, OneOffer
    <3>2. ASSUME NEW x \in Socket, NEW y \in Items(down'[x]), Reach(Owner[c], y)
          PROVE  /\ y.offer = Current(b) /\ (y.ev = "Offer" => connections[Owner[c]] = b)
                 /\ x \in Client => x = b
      <4>1. CASE y \in Items(down[x])
        BY <3>1, <3>2, <4>1 DEF Only
      <4>2. CASE y = m /\ x = t
        BY <1>4, <3>1, <3>2, <4>2 DEF Only, Reach
      <4> QED BY <1>1, <4>1, <4>2
    <3>3. Current(b)' = Current(b) /\ \A y : Reach(Owner[c], y)' <=> Reach(Owner[c], y)
      BY DEF Current, Reach
    <3>4. Only(Owner[c], b)'
      BY <3>1, <3>2, <3>3 DEF Only
    <3> QED BY <3>4
  <2> QED BY <1>2, <1>3, <2>3, <2>4 DEF RelayIInv
<1>5. CASE s \in Client
  <2>1. FromClient(s, m) /\ Owner[s] \in Account
    BY <1>5 DEF RelayIInv, Addressed
  <2>2. \A x \in Socket : x = t => x \in Emulator /\ x \notin Client
    BY <1>5 DEF RelayIInv, Addressed, Socket
  <2>3. Addressed'
    <3>1. \A c \in Client : \A y \in Items(down'[c]) : ToClient(c, y)
      BY <1>1, <2>2 DEF RelayIInv, Addressed, Socket
    <3>2. \A e \in Emulator : \A y \in Items(down'[e]) : ToEmulator(y)
      <4>1. ToEmulator(m)
        BY <2>1 DEF ToEmulator, FromClient
      <4>2. \A e \in Emulator : e \in Socket /\ \A y \in Items(down[e]) : ToEmulator(y)
        BY DEF RelayIInv, Addressed, Socket
      <4> QED BY <1>1, <4>1, <4>2
    <3>3. /\ \A c \in Client : \A y \in Items(up'[c]) : FromClient(c, y)
          /\ \A e \in Emulator : \A y \in Items(up'[e]) : FromEmulator(e, y)
          /\ \A p \in Device \cup Account : connections'[p] # None => Owner[connections'[p]] = p
      BY DEF RelayIInv, Addressed, Socket
    <3> QED BY <3>1, <3>2, <3>3 DEF Addressed, ToClient, ToEmulator, FromClient, FromEmulator
  <2>4. OneOffer'
    <3> SUFFICES ASSUME NEW c \in Client, Owner[c] \notin hasty
                 PROVE  \E b \in Client : Only(Owner[c], b)'
      BY DEF OneOffer
    <3>1. PICK b \in Client : Only(Owner[c], b)
      BY DEF RelayIInv, OneOffer
    <3>2. ASSUME NEW x \in Socket, NEW y \in Items(down'[x]), Reach(Owner[c], y)
          PROVE  /\ y.offer = Current(b) /\ (y.ev = "Offer" => connections[Owner[c]] = b)
                 /\ x \in Client => x = b
      <4>1. CASE y \in Items(down[x])
        BY <3>1, <3>2, <4>1 DEF Only
      <4>2. CASE y = m /\ x = t
        BY <2>2, <3>1, <3>2, <4>2 DEF Only, Reach, Socket
      <4> QED BY <1>1, <4>1, <4>2
    <3>3. Current(b)' = Current(b) /\ \A y : Reach(Owner[c], y)' <=> Reach(Owner[c], y)
      BY DEF Current, Reach
    <3>4. Only(Owner[c], b)'
      BY <3>1, <3>2, <3>3 DEF Only
    <3> QED BY <3>4
  <2> QED BY <1>2, <1>3, <2>3, <2>4 DEF RelayIInv
<1> QED BY <1>4, <1>5 DEF Socket

LEMMA AnswerStep ==
    ASSUME RelayIInv, NEW s \in Socket, Answer(s), UNCHANGED <<hasty, shared>>
    PROVE  RelayIInv'
<1>1. /\ Head(up[s]) \in Items(up[s]) /\ Head(up[s]).ev = "Answer" /\ Head(up[s]) \in Message
      /\ up' \in [Socket -> Seq(Message)]
      /\ \A x \in Socket : Items(up'[x]) \subseteq Items(up[x])
  BY TakesFacts DEF RelayIInv, AuditTypeOK, Answer
<1>2. s \in Emulator /\ s \notin Client /\ Head(up[s]).client \in Account
  BY <1>1 DEF RelayIInv, Addressed, FromClient, FromEmulator, Socket
<1>3. connections[Head(up[s]).client] \in Socket \cup {None}
  BY <1>2 DEF RelayIInv, AuditTypeOK, TypeOK
<1> QED BY <1>1, <1>2, <1>3, ForwardStep DEF Answer

LEMMA IceCandidateStep ==
    ASSUME RelayIInv, NEW s \in Socket, IceCandidate(s), UNCHANGED <<hasty, shared>>
    PROVE  RelayIInv'
<1>1. /\ Head(up[s]) \in Items(up[s]) /\ Head(up[s]).ev = "IceCandidate"
      /\ Head(up[s]) \in Message
      /\ up' \in [Socket -> Seq(Message)]
      /\ \A x \in Socket : Items(up'[x]) \subseteq Items(up[x])
  BY TakesFacts DEF RelayIInv, AuditTypeOK, IceCandidate
<1> DEFINE t == IF s \in Emulator THEN connections[Head(up[s]).client] ELSE connections[Target[s]]
<1>2. s \in Emulator => Head(up[s]).client \in Account
  BY <1>1 DEF RelayIInv, Addressed, FromEmulator
<1>3. t \in Socket \cup {None}
  BY <1>2 DEF RelayIInv, AuditTypeOK, TypeOK, Socket
<1>4. s \in Client => s \notin Emulator
  OBVIOUS
<1> QED BY <1>1, <1>3, <1>4, ForwardStep DEF IceCandidate

-----------------------------------------------------------------------------
(* The account's page *)

\* A click of an account with nothing under way makes its offer the only one.
LEMMA ClickStep ==
    ASSUME RelayIInv, NEW c \in Client, Clicks(c)
    PROVE  RelayIInv'
<1> DEFINE n == <<c, offered[c] + 1>>
           m == Msg("Offer", Owner[c], n, None)
           k == Msg("IceCandidate", Owner[c], n, None)
<1>1. /\ offered' = [offered EXCEPT ![c] = @ + 1] /\ answer' = [answer EXCEPT ![c] = None]
      /\ up' = [up EXCEPT ![c] = @ \o <<m, k>>]
      /\ UNCHANGED <<sock, connections, down, peer, work, shared>>
      /\ hasty' = IF UnderWay(Owner[c]) THEN hasty \cup {Owner[c]} ELSE hasty
  BY DEF Clicks, ClickConnect
<1>2. c \in Socket /\ Owner[c] \in Account /\ n \in Offers /\ n[1] = c
      /\ n = Current(c)'
  BY <1>1 DEF Socket, Offers, RelayIInv, AuditTypeOK, TypeOK, Current
<1>3. m \in Message /\ k \in Message
  BY <1>2 DEF Message, Msg
<1>4. FromClient(c, m) /\ FromClient(c, k)
  BY <1>2 DEF FromClient, Msg
<1>5. m.client = Owner[c] /\ k.client = Owner[c] /\ m.offer = n /\ k.offer = n /\ k.ev # "Offer"
  BY DEF Msg
<1> HIDE DEF m, k
<1>6. up[c] \in Seq(Message)
  BY <1>2 DEF RelayIInv, AuditTypeOK, TypeOK
<1>7. /\ up[c] \o <<m, k>> \in Seq(Message)
      /\ Items(up[c] \o <<m, k>>) = Items(up[c]) \cup {m, k}
  BY <1>3, <1>6, ConcatItems
<1>8. \A x \in Socket : up'[x] = IF x = c THEN up[c] \o <<m, k>> ELSE up[x]
  BY <1>1 DEF RelayIInv, AuditTypeOK, TypeOK
<1>9. \A x \in Socket : \A y \in Items(up'[x]) : y \in Items(up[x]) \/ (x = c /\ y \in {m, k})
  BY <1>7, <1>8
<1>10. AuditTypeOK'
  <2>1. up' \in [Socket -> Seq(Message)]
    BY <1>1, <1>7, <1>8 DEF RelayIInv, AuditTypeOK, TypeOK
  <2> QED BY <1>1, <1>2, <2>1 DEF RelayIInv, AuditTypeOK, TypeOK
<1>11. Addressed'
  <2>1. /\ \A d \in Client : \A y \in Items(up'[d]) : FromClient(d, y)
        /\ \A e \in Emulator : \A y \in Items(up'[e]) : FromEmulator(e, y)
    BY <1>4, <1>9 DEF RelayIInv, Addressed, Socket
  <2> QED BY <1>1, <2>1 DEF RelayIInv, Addressed, ToClient, ToEmulator, FromClient, FromEmulator
<1>12. Pages' /\ \A e \in Emulator \ shared' : Steady(e)'
  BY <1>1, SamePages
<1>13. OneOffer'
  <2> SUFFICES ASSUME NEW d \in Client, Owner[d] \notin hasty'
               PROVE  \E b \in Client : Only(Owner[d], b)'
    BY DEF OneOffer
  <2>1. CASE Owner[d] = Owner[c]
    <3>1. ~UnderWay(Owner[c])
      BY <1>1, <2>1
    <3>2. ASSUME NEW x \in Socket, NEW y \in Items(up'[x]), y.client = Owner[c]
          PROVE  x = c /\ y \in {m, k}
      BY <1>9, <3>1, <3>2 DEF UnderWay, Concerns
    <3>3. \A x \in Socket : \A y \in Items(down'[x]) : y.client # Owner[c]
      BY <1>1, <3>1 DEF UnderWay, Concerns
    <3>4. \A e \in Emulator : \A w \in work'[e] : w.client # Owner[c]
      BY <1>1, <3>1 DEF UnderWay
    <3>5. c \notin Emulator
      OBVIOUS
    <3>6. Only(Owner[c], c)'
      BY <1>1, <1>2, <1>5, <3>2, <3>3, <3>4, <3>5 DEF Only, Reach
    <3> QED BY <2>1, <3>6
  <2>2. CASE Owner[d] # Owner[c]
    <3>1. Owner[d] \notin hasty
      BY <1>1
    <3>2. PICK b \in Client : Only(Owner[d], b)
      BY <3>1 DEF RelayIInv, OneOffer
    <3>3. Owner[b] = Owner[d] /\ Current(b)' = Current(b)
      BY <1>1, <2>2, <3>2 DEF Only, Current, RelayIInv, AuditTypeOK, TypeOK
    <3>4. ASSUME NEW x \in Socket, NEW y \in Items(up'[x]), y.client = Owner[d]
          PROVE  y \in Items(up[x])
      BY <1>5, <1>9, <2>2, <3>4
    <3>5. \A y : Reach(Owner[d], y)' <=> Reach(Owner[d], y)
      BY <1>1 DEF Reach
    <3>6. \A y : Reach(Owner[d], y) => y.client = Owner[d]
      BY DEF Reach
    <3>7. Only(Owner[d], b)'
      BY <1>1, <3>2, <3>3, <3>4, <3>5, <3>6 DEF Only
    <3> QED BY <3>7
  <2> QED BY <2>1, <2>2
<1>14. AnswersFit'
  <2> SUFFICES ASSUME NEW d \in Client, answer'[d] # None, Clear(d, answer[d])'
               PROVE  answer'[d].offer = Current(d)'
    BY DEF AnswersFit
  <2>1. d # c /\ answer'[d] = answer[d] /\ Current(d)' = Current(d)
    BY <1>1 DEF RelayIInv, AuditTypeOK, TypeOK, Current
  <2>2. Clear(d, answer[d])
    BY <1>1, <2>1 DEF Clear
  <2> QED BY <2>1, <2>2 DEF RelayIInv, AnswersFit
<1> QED BY <1>10, <1>11, <1>12, <1>13, <1>14 DEF RelayIInv

\* The answer a page is sent is to its last offer, for the map found the page.
LEMMA GetAnswerStep ==
    ASSUME RelayIInv, NEW c \in Client, GetAnswer(c), UNCHANGED <<hasty, shared>>
    PROVE  RelayIInv'
<1> DEFINE m == Head(down[c])
<1>1. /\ m \in Message /\ m \in Items(down[c]) /\ m.ev = "Answer"
      /\ down' \in [Socket -> Seq(Message)]
      /\ \A x \in Socket : Items(down'[x]) \subseteq Items(down[x])
  BY GetsFacts DEF RelayIInv, AuditTypeOK, GetAnswer, Socket
<1>2. /\ answer' = [answer EXCEPT ![c] = m] \/ answer' = answer
      /\ UNCHANGED <<sock, connections, up, offered, peer, work>>
  BY DEF GetAnswer
<1> HIDE DEF m
<1>3. AuditTypeOK'
  <2>1. answer' \in [Client -> Message \cup {None}]
    BY <1>1, <1>2 DEF RelayIInv, AuditTypeOK, TypeOK
  <2> QED BY <1>1, <1>2, <2>1 DEF RelayIInv, AuditTypeOK, TypeOK
<1>4. Addressed' /\ OneOffer'
  BY <1>1, <1>2, LesserAddressed, LesserOffers
<1>5. Pages' /\ \A e \in Emulator \ shared' : Steady(e)'
  BY <1>2, SamePages
<1>6. Owner[c] \notin hasty /\ m.from \notin shared => m.offer = Current(c)
  <2> SUFFICES ASSUME Owner[c] \notin hasty, m.from \notin shared PROVE m.offer = Current(c)
    OBVIOUS
  <2>1. PICK b \in Client : Only(Owner[c], b)
    BY DEF RelayIInv, OneOffer
  <2>2. m.client = Owner[c] /\ c \in Socket
    BY <1>1 DEF RelayIInv, Addressed, ToClient, Socket
  <2>3. Reach(Owner[c], m)
    BY <2>2 DEF Reach
  <2> QED BY <1>1, <2>1, <2>2, <2>3 DEF Only
<1>7. AnswersFit'
  <2> SUFFICES ASSUME NEW d \in Client, answer'[d] # None, Clear(d, answer[d])'
               PROVE  answer'[d].offer = Current(d)'
    BY DEF AnswersFit
  <2>1. Current(d)' = Current(d)
    BY <1>2 DEF Current
  <2>2. CASE answer'[d] = answer[d]
    BY <1>2, <2>1, <2>2 DEF RelayIInv, AnswersFit, Clear
  <2>3. CASE d = c /\ answer'[d] = m
    BY <1>6, <2>1, <2>3 DEF Clear
  <2> QED BY <1>2, <2>2, <2>3 DEF RelayIInv, AuditTypeOK, TypeOK
<1> QED BY <1>3, <1>4, <1>5, <1>7 DEF RelayIInv

LEMMA GetCandidateStep ==
    ASSUME RelayIInv, NEW s \in Socket, GetCandidate(s), UNCHANGED <<hasty, shared>>
    PROVE  RelayIInv'
<1>1. /\ down' \in [Socket -> Seq(Message)]
      /\ \A x \in Socket : Items(down'[x]) \subseteq Items(down[x])
  BY GetsFacts DEF RelayIInv, AuditTypeOK, GetCandidate
<1>2. UNCHANGED <<sock, connections, up, offered, answer, peer, work>>
  BY DEF GetCandidate
<1>3. AuditTypeOK'
  BY <1>1, <1>2 DEF RelayIInv, AuditTypeOK, TypeOK
<1>4. Addressed' /\ OneOffer' /\ AnswersFit'
  BY <1>1, <1>2, LesserAddressed, LesserOffers, SameAnswers
<1>5. Pages' /\ \A e \in Emulator \ shared' : Steady(e)'
  BY <1>2, SamePages
<1> QED BY <1>3, <1>4, <1>5 DEF RelayIInv

-----------------------------------------------------------------------------
(* The emulator's page *)

LEMMA ClickStreamStep ==
    ASSUME RelayIInv, NEW e \in Emulator, ClickStream(e), UNCHANGED <<hasty, shared>>
    PROVE  RelayIInv'
<1> DEFINE m == Msg("StartStreaming", None, None, e)
<1>1. m \in Message /\ m.client = None /\ m.ev = "StartStreaming" /\ m.from = e /\ e \in Socket
  BY DEF Message, Msg, Socket
<1>2. UNCHANGED <<sock, connections, down, offered, answer, peer, work>> /\ Send(e, m)
  BY DEF ClickStream
<1> HIDE DEF m
<1>3. /\ up' \in [Socket -> Seq(Message)]
      /\ \A x \in Socket : \A y \in Items(up'[x]) : y \in Items(up[x]) \/ (x = e /\ y = m)
  BY <1>1, <1>2, SendFacts DEF RelayIInv, AuditTypeOK
<1>4. AuditTypeOK'
  BY <1>2, <1>3 DEF RelayIInv, AuditTypeOK, TypeOK
<1>5. Addressed'
  <2>1. FromEmulator(e, m)
    BY <1>1 DEF FromEmulator
  <2>2. /\ \A d \in Client : \A y \in Items(up'[d]) : FromClient(d, y)
        /\ \A d \in Emulator : \A y \in Items(up'[d]) : FromEmulator(d, y)
    BY <1>3, <2>1 DEF RelayIInv, Addressed, Socket
  <2> QED BY <1>2, <2>2 DEF RelayIInv, Addressed, ToClient, ToEmulator, FromClient, FromEmulator
<1>6. OneOffer'
  <2> SUFFICES ASSUME NEW c \in Client, Owner[c] \notin hasty
               PROVE  \E b \in Client : Only(Owner[c], b)'
    BY DEF OneOffer
  <2>1. PICK b \in Client : Only(Owner[c], b)
    BY DEF RelayIInv, OneOffer
  <2>2. \A x \in Socket : \A y \in Items(up'[x]) : Reach(Owner[c], y) => y \in Items(up[x])
    BY <1>1, <1>3 DEF Reach
  <2>3. Current(b)' = Current(b) /\ \A y : Reach(Owner[c], y)' <=> Reach(Owner[c], y)
    BY <1>2 DEF Current, Reach
  <2>4. Only(Owner[c], b)'
    BY <1>2, <2>1, <2>2, <2>3 DEF Only
  <2> QED BY <2>4
<1>7. AnswersFit' /\ Pages' /\ \A d \in Emulator \ shared' : Steady(d)'
  BY <1>2, SamePages, SameAnswers
<1> QED BY <1>4, <1>5, <1>6, <1>7 DEF RelayIInv

\* A page that is not answering takes the offer up alone.
LEMMA GetOfferStep ==
    ASSUME RelayIInv, NEW e \in Emulator, Begins(e)
    PROVE  RelayIInv'
<1> DEFINE m == Head(down[e])
           h == [at |-> "create", client |-> m.client, offer |-> m.offer, sdp |-> None]
<1>1. /\ m \in Message /\ m \in Items(down[e]) /\ m.ev = "Offer"
      /\ down' \in [Socket -> Seq(Message)]
      /\ \A x \in Socket : Items(down'[x]) \subseteq Items(down[x])
  BY GetsFacts DEF RelayIInv, AuditTypeOK, Begins, GetOffer, Socket
<1>2. /\ work' = [work EXCEPT ![e] = @ \cup {h}]
      /\ UNCHANGED <<sock, connections, up, offered, answer, peer, hasty>>
      /\ shared' = IF Answering(e) THEN shared \cup {e} ELSE shared
  BY DEF Begins, GetOffer
<1>3. e \in Socket /\ ToEmulator(m)
  BY <1>1 DEF RelayIInv, Addressed, Socket
<1>4. /\ h \in Handler /\ h.at = "create" /\ h.client = m.client /\ h.offer = m.offer
      /\ Owner[h.offer[1]] = h.client
  BY <1>3 DEF Handler, ToEmulator
<1> HIDE DEF m, h
<1>5. \A d \in Emulator : work'[d] = IF d = e THEN work[e] \cup {h} ELSE work[d]
  BY <1>2 DEF RelayIInv, AuditTypeOK, TypeOK
<1>6. AuditTypeOK'
  <2>1. work' \in [Emulator -> SUBSET Handler]
    BY <1>2, <1>4, <1>5 DEF RelayIInv, AuditTypeOK, TypeOK
  <2> QED BY <1>1, <1>2, <2>1 DEF RelayIInv, AuditTypeOK, TypeOK
<1>7. Addressed' /\ AnswersFit'
  BY <1>1, <1>2, LesserAddressed, SameAnswers
<1>8. Pages'
  BY <1>2, <1>4, <1>5 DEF RelayIInv, Pages
<1>9. ASSUME NEW d \in Emulator \ shared' PROVE Steady(d)'
  <2>1. Steady(d) /\ peer' = peer
    BY <1>2 DEF RelayIInv
  <2>2. CASE d # e
    BY <1>5, <2>1, <2>2 DEF Steady
  <2>3. CASE d = e
    <3>1. \A w \in work[e] : w.at = "gather"
      BY <1>2, <2>3 DEF Answering
    <3> QED BY <1>4, <1>5, <2>1, <2>3, <3>1 DEF Steady
  <2> QED BY <2>2, <2>3
<1>10. OneOffer'
  <2> SUFFICES ASSUME NEW c \in Client, Owner[c] \notin hasty
               PROVE  \E b \in Client : Only(Owner[c], b)'
    BY <1>2 DEF OneOffer
  <2>1. PICK b \in Client : Only(Owner[c], b)
    BY DEF RelayIInv, OneOffer
  <2>2. Current(b)' = Current(b) /\ \A y : Reach(Owner[c], y)' => Reach(Owner[c], y)
    BY <1>2 DEF Current, Reach
  <2>3. m.from \notin shared /\ m.client = Owner[c] => m.offer = Current(b) /\ connections[Owner[c]] = b
    BY <1>1, <1>3, <2>1 DEF Only, Reach
  <2>4. m.from = None /\ None \notin shared
    BY <1>1, <1>3 DEF RelayIInv, AuditTypeOK, ToEmulator, Socket
  <2>5. ASSUME NEW d \in Emulator \ shared', NEW w \in work'[d], w.client = Owner[c]
        PROVE  w.offer = Current(b) /\ connections[Owner[c]] = b
    <3>1. CASE w \in work[d]
      BY <1>2, <2>1, <2>5, <3>1 DEF Only
    <3>2. CASE w = h
      BY <1>4, <2>3, <2>4, <2>5, <3>2
    <3> QED BY <1>5, <3>1, <3>2
  <2>6. Only(Owner[c], b)'
    BY <1>1, <1>2, <2>1, <2>2, <2>5 DEF Only
  <2> QED BY <2>6
<1> QED BY <1>6, <1>7, <1>8, <1>9, <1>10 DEF RelayIInv

\* A handler goes on as h, on the same offer, or throws.
LEMMA MovesFacts ==
    ASSUME RelayIInv, NEW e \in Emulator, NEW w \in work[e], NEW h \in Handler,
           Moves(e, w, {h}) \/ Moves(e, w, {}),
           e \notin shared => h.client = w.client /\ h.offer = w.offer
    PROVE  /\ work' \in [Emulator -> SUBSET Handler]
           /\ \A d \in Emulator : d # e => work'[d] = work[d]
           /\ \A v \in work'[e] : v = h \/ (v \in work[e] /\ v # w)
           /\ \A d \in Emulator \ shared : \A v \in work'[d] :
                \E u \in work[d] : u.client = v.client /\ u.offer = v.offer
<1>1. /\ work' = [work EXCEPT ![e] = (@ \ {w}) \cup {h}] \/ work' = [work EXCEPT ![e] = (@ \ {w}) \cup {}]
      /\ work \in [Emulator -> SUBSET Handler]
  BY DEF Moves, RelayIInv, AuditTypeOK, TypeOK
<1>2. /\ \A d \in Emulator : d # e => work'[d] = work[d]
      /\ \A v \in work'[e] : v = h \/ (v \in work[e] /\ v # w)
      /\ work' \in [Emulator -> SUBSET Handler]
  <2>1. CASE work' = [work EXCEPT ![e] = (@ \ {w}) \cup {h}]
    BY <1>1, <2>1
  <2>2. CASE work' = [work EXCEPT ![e] = (@ \ {w}) \cup {}]
    BY <1>1, <2>2
  <2> QED BY <1>1, <2>1, <2>2
<1> QED BY <1>2

\* The same of a handler that stays as it is.
LEMMA OwnMoves ==
    ASSUME RelayIInv, NEW e \in Emulator, NEW w \in work[e],
           Moves(e, w, {w}) \/ Moves(e, w, {})
    PROVE  /\ work' \in [Emulator -> SUBSET Handler]
           /\ \A d \in Emulator : d # e => work'[d] = work[d]
           /\ \A v \in work'[e] : v = w \/ (v \in work[e] /\ v # w)
  <1>1. w \in Handler
    BY DEF RelayIInv, AuditTypeOK, TypeOK
  <1> QED BY <1>1, MovesFacts

LEMMA CreatePeerStep ==
    ASSUME RelayIInv, NEW e \in Emulator, NEW w \in work[e], CreatePeer(e, w),
           UNCHANGED <<hasty, shared>>
    PROVE  RelayIInv'
<1> DEFINE h == [w EXCEPT !.at = "remote"]
           p == [made |-> w.offer, remote |-> None, stable |-> TRUE]
<1>w. w \in Handler
  BY DEF RelayIInv, AuditTypeOK, TypeOK
<1>1. w \in Handler /\ h \in Handler /\ w.at = "create"
      /\ h.at = "remote" /\ h.client = w.client /\ h.offer = w.offer /\ h.sdp = w.sdp
      /\ p.made = w.offer /\ p.stable /\ w.offer # None /\ w.offer \in Offers
  BY <1>w DEF CreatePeer, Handler
<1>2. /\ Moves(e, w, {h}) /\ peer' = [peer EXCEPT ![e] = p]
      /\ UNCHANGED <<sock, connections, up, down, offered, answer>>
  BY DEF CreatePeer
<1>3. p \in [made : Offers \cup {None}, remote : Offers \cup {None}, stable : BOOLEAN]
  BY <1>1
<1> HIDE DEF h, p
<1>4. /\ work' \in [Emulator -> SUBSET Handler]
      /\ \A d \in Emulator : d # e => work'[d] = work[d]
      /\ \A v \in work'[e] : v = h \/ (v \in work[e] /\ v # w)
      /\ \A d \in Emulator \ shared : \A v \in work'[d] :
           \E u \in work[d] : u.client = v.client /\ u.offer = v.offer
  BY <1>1, <1>2, MovesFacts
<1>5. \A d \in Emulator : peer'[d] = IF d = e THEN p ELSE peer[d]
  BY <1>2 DEF RelayIInv, AuditTypeOK, TypeOK
<1>6. AuditTypeOK'
  BY <1>2, <1>3, <1>4 DEF RelayIInv, AuditTypeOK, TypeOK
<1>7. Addressed' /\ OneOffer' /\ AnswersFit'
  BY <1>2, <1>4, LesserAddressed, LesserOffers, SameAnswers
<1>8. Pages'
  <2>1. ASSUME NEW v \in work'[e], v.at # "gather" PROVE Owner[v.offer[1]] = v.client
    BY <1>1, <1>4, <2>1 DEF RelayIInv, Pages
  <2>2. ASSUME NEW v \in work'[e], v.at \in {"local", "gather"} PROVE v.sdp # None
    BY <1>1, <1>4, <2>2 DEF RelayIInv, Pages
  <2> QED BY <1>1, <1>4, <1>5, <2>1, <2>2 DEF RelayIInv, Pages
<1>9. ASSUME NEW d \in Emulator \ shared PROVE Steady(d)'
  <2>1. Steady(d)
    BY DEF RelayIInv
  <2>2. CASE d # e
    BY <1>4, <1>5, <2>1, <2>2 DEF Steady
  <2>3. CASE d = e
    <3>1. \A v \in work[e] : v # w => v.at = "gather"
      BY <1>1, <2>1, <2>3 DEF Steady
    <3> QED BY <1>1, <1>4, <1>5, <2>1, <2>3, <3>1 DEF Steady
  <2> QED BY <2>2, <2>3
<1> QED BY <1>2, <1>6, <1>7, <1>8, <1>9 DEF RelayIInv

LEMMA SetRemoteStep ==
    ASSUME RelayIInv, NEW e \in Emulator, NEW w \in work[e], SetRemote(e, w),
           UNCHANGED <<hasty, shared>>
    PROVE  RelayIInv'
<1> DEFINE h == [w EXCEPT !.at = "answer"]
           p == [peer[e] EXCEPT !.remote = w.offer, !.stable = FALSE]
<1>0. peer[e] \in [made : Offers \cup {None}, remote : Offers \cup {None}, stable : BOOLEAN]
  BY DEF RelayIInv, AuditTypeOK, TypeOK
<1>w. w \in Handler
  BY DEF RelayIInv, AuditTypeOK, TypeOK
<1>1. w \in Handler /\ h \in Handler /\ w.at = "remote"
      /\ h.at = "answer" /\ h.client = w.client /\ h.offer = w.offer /\ h.sdp = w.sdp
      /\ p.made = peer[e].made /\ p.remote = w.offer /\ w.offer # None /\ w.offer \in Offers
  BY <1>0, <1>w DEF SetRemote, Handler
<1>2. /\ Moves(e, w, {h}) /\ peer' = [peer EXCEPT ![e] = p]
      /\ UNCHANGED <<sock, connections, up, down, offered, answer>>
  BY DEF SetRemote
<1>3. p \in [made : Offers \cup {None}, remote : Offers \cup {None}, stable : BOOLEAN]
  BY <1>0, <1>1
<1> HIDE DEF h, p
<1>4. /\ work' \in [Emulator -> SUBSET Handler]
      /\ \A d \in Emulator : d # e => work'[d] = work[d]
      /\ \A v \in work'[e] : v = h \/ (v \in work[e] /\ v # w)
      /\ \A d \in Emulator \ shared : \A v \in work'[d] :
           \E u \in work[d] : u.client = v.client /\ u.offer = v.offer
  BY <1>1, <1>2, MovesFacts
<1>5. \A d \in Emulator : peer'[d] = IF d = e THEN p ELSE peer[d]
  BY <1>2 DEF RelayIInv, AuditTypeOK, TypeOK
<1>6. AuditTypeOK'
  BY <1>2, <1>3, <1>4 DEF RelayIInv, AuditTypeOK, TypeOK
<1>7. Addressed' /\ OneOffer' /\ AnswersFit'
  BY <1>2, <1>4, LesserAddressed, LesserOffers, SameAnswers
<1>8. Pages'
  <2>1. ASSUME NEW v \in work'[e], v.at # "gather" PROVE Owner[v.offer[1]] = v.client
    BY <1>1, <1>4, <2>1 DEF RelayIInv, Pages
  <2>2. ASSUME NEW v \in work'[e], v.at \in {"local", "gather"} PROVE v.sdp # None
    BY <1>1, <1>4, <2>2 DEF RelayIInv, Pages
  <2>3. ASSUME NEW v \in work'[e], v.at # "create" PROVE peer'[e].made # None
    BY <1>1, <1>4, <1>5, <2>3 DEF RelayIInv, Pages
  <2> QED BY <1>1, <1>4, <1>5, <2>1, <2>2, <2>3 DEF RelayIInv, Pages
<1>9. ASSUME NEW d \in Emulator \ shared PROVE Steady(d)'
  <2>1. Steady(d)
    BY DEF RelayIInv
  <2>2. CASE d # e
    BY <1>4, <1>5, <2>1, <2>2 DEF Steady
  <2>3. CASE d = e
    <3>1. \A v \in work[e] : v # w => v.at = "gather"
      BY <1>1, <2>1, <2>3 DEF Steady
    <3> QED BY <1>1, <1>4, <1>5, <2>1, <2>3, <3>1 DEF Steady
  <2> QED BY <2>2, <2>3
<1> QED BY <1>2, <1>6, <1>7, <1>8, <1>9 DEF RelayIInv

LEMMA CreateAnswerStep ==
    ASSUME RelayIInv, NEW e \in Emulator, NEW w \in work[e], CreateAnswer(e, w),
           UNCHANGED <<hasty, shared>>
    PROVE  RelayIInv'
<1> DEFINE h == [w EXCEPT !.at = "local", !.sdp = peer[e].remote]
<1>0. peer[e] \in [made : Offers \cup {None}, remote : Offers \cup {None}, stable : BOOLEAN]
  BY DEF RelayIInv, AuditTypeOK, TypeOK
<1>w. w \in Handler
  BY DEF RelayIInv, AuditTypeOK, TypeOK
<1>1. w \in Handler /\ h \in Handler /\ w.at = "answer"
      /\ h.at = "local" /\ h.client = w.client /\ h.offer = w.offer /\ h.sdp = peer[e].remote
  BY <1>0, <1>w DEF CreateAnswer, Handler
<1>2. /\ Moves(e, w, {}) \/ (Moves(e, w, {h}) /\ ~peer[e].stable)
      /\ UNCHANGED <<sock, connections, up, down, offered, answer, peer>>
  BY DEF CreateAnswer
<1> HIDE DEF h
<1>4. /\ work' \in [Emulator -> SUBSET Handler]
      /\ \A d \in Emulator : d # e => work'[d] = work[d]
      /\ \A v \in work'[e] : v = h \/ (v \in work[e] /\ v # w)
      /\ \A d \in Emulator \ shared : \A v \in work'[d] :
           \E u \in work[d] : u.client = v.client /\ u.offer = v.offer
  BY <1>1, <1>2, MovesFacts
<1>5. \A v \in work'[e] : (v = h /\ h.sdp # None) \/ (v \in work[e] /\ v # w)
  <2>1. CASE Moves(e, w, {})
    BY <2>1 DEF Moves, RelayIInv, AuditTypeOK, TypeOK
  <2>2. CASE ~peer[e].stable
    BY <1>1, <1>4, <2>2 DEF RelayIInv, Pages
  <2> QED BY <1>2, <2>1, <2>2
<1>6. AuditTypeOK'
  BY <1>2, <1>4 DEF RelayIInv, AuditTypeOK, TypeOK
<1>7. Addressed' /\ OneOffer' /\ AnswersFit'
  BY <1>2, <1>4, LesserAddressed, LesserOffers, SameAnswers
<1>8. Pages'
  BY <1>1, <1>2, <1>4, <1>5 DEF RelayIInv, Pages
<1>9. ASSUME NEW d \in Emulator \ shared PROVE Steady(d)'
  <2>1. Steady(d)
    BY DEF RelayIInv
  <2>2. CASE d # e
    BY <1>2, <1>4, <2>1, <2>2 DEF Steady
  <2>3. CASE d = e
    <3>1. \A v \in work[e] : v # w => v.at = "gather"
      BY <1>1, <2>1, <2>3 DEF Steady
    <3>2. peer[e].made = w.offer /\ peer[e].remote = w.offer
      BY <1>1, <2>1, <2>3 DEF Steady
    <3> QED BY <1>1, <1>2, <1>4, <2>1, <2>3, <3>1, <3>2 DEF Steady
  <2> QED BY <2>2, <2>3
<1> QED BY <1>2, <1>6, <1>7, <1>8, <1>9 DEF RelayIInv

\* What an unshared page sends for an account is of the account's one offer.
LEMMA SendsOne ==
    ASSUME RelayIInv, NEW e \in Emulator, NEW w \in work[e], NEW m \in Message,
           NEW h \in Handler, Send(e, m), Moves(e, w, {h}) \/ Moves(e, w, {}),
           m.client = w.client, m.from = e, m.ev \in {"Answer", "IceCandidate"}, m.offer # None,
           e \notin shared => h.client = w.client /\ h.offer = w.offer /\ m.offer = w.offer,
           UNCHANGED <<sock, connections, down, offered, answer, hasty, shared>>
    PROVE  Addressed' /\ OneOffer' /\ AnswersFit'
<1>1. \A x \in Socket : \A y \in Items(up'[x]) : y \in Items(up[x]) \/ (x = e /\ y = m)
  BY SendFacts DEF RelayIInv, AuditTypeOK, Socket
<1>2. \A d \in Emulator \ shared : \A v \in work'[d] :
        \E u \in work[d] : u.client = v.client /\ u.offer = v.offer
  BY MovesFacts
<1>3. w \in Handler
  BY DEF RelayIInv, AuditTypeOK, TypeOK
<1>4. FromEmulator(e, m)
  BY <1>3 DEF FromEmulator, Message, Handler
<1>5. Addressed'
  <2>1. /\ \A d \in Client : \A y \in Items(up'[d]) : FromClient(d, y)
        /\ \A d \in Emulator : \A y \in Items(up'[d]) : FromEmulator(d, y)
    BY <1>1, <1>4 DEF RelayIInv, Addressed, Socket
  <2> QED BY <2>1 DEF RelayIInv, Addressed, ToClient, ToEmulator, FromClient, FromEmulator
<1>6. OneOffer'
  <2> SUFFICES ASSUME NEW c \in Client, Owner[c] \notin hasty
               PROVE  \E b \in Client : Only(Owner[c], b)'
    BY DEF OneOffer
  <2>1. PICK b \in Client : Only(Owner[c], b)
    BY DEF RelayIInv, OneOffer
  <2>2. Current(b)' = Current(b) /\ \A y : Reach(Owner[c], y)' <=> Reach(Owner[c], y)
    BY DEF Current, Reach
  <2>3. e \notin shared /\ w.client = Owner[c] => w.offer = Current(b) /\ connections[Owner[c]] = b
    BY <2>1 DEF Only
  <2>4. ASSUME NEW x \in Socket, NEW y \in Items(up'[x]), Reach(Owner[c], y)
        PROVE  /\ y.offer = Current(b) /\ (y.ev = "Offer" => x = b)
               /\ x \in Emulator => connections[Owner[c]] = b
    <3>1. CASE y \in Items(up[x])
      BY <2>1, <2>4, <3>1 DEF Only
    <3>2. CASE x = e /\ y = m
      BY <2>3, <2>4, <3>2 DEF Reach
    <3> QED BY <1>1, <3>1, <3>2
  <2>5. ASSUME NEW d \in Emulator \ shared, NEW v \in work'[d], v.client = Owner[c]
        PROVE  v.offer = Current(b) /\ connections[Owner[c]] = b
    BY <1>2, <2>1, <2>5 DEF Only
  <2>6. Only(Owner[c], b)'
    BY <2>1, <2>2, <2>4, <2>5 DEF Only
  <2> QED BY <2>6
<1> QED BY <1>5, <1>6, SameAnswers

LEMMA SendAnswerStep ==
    ASSUME RelayIInv, NEW e \in Emulator, NEW w \in work[e], SendAnswer(e, w),
           UNCHANGED <<hasty, shared>>
    PROVE  RelayIInv'
<1> DEFINE h == [w EXCEPT !.at = "gather", !.client = Owner[peer[e].made[1]]]
           m == Msg("Answer", w.client, w.sdp, e)
           p == [peer[e] EXCEPT !.stable = TRUE]
<1>0. peer[e] \in [made : Offers \cup {None}, remote : Offers \cup {None}, stable : BOOLEAN]
  BY DEF RelayIInv, AuditTypeOK, TypeOK
<1>1. w \in Handler /\ w.at = "local"
  BY DEF SendAnswer, RelayIInv, AuditTypeOK, TypeOK
<1>2. peer[e].made \in Offers /\ w.sdp # None /\ Owner[w.offer[1]] = w.client
  BY <1>0, <1>1 DEF RelayIInv, Pages
<1>3. Owner[peer[e].made[1]] \in Account
  BY <1>2 DEF Offers
<1>4. /\ h \in Handler /\ h.at = "gather" /\ h.client = Owner[peer[e].made[1]]
      /\ h.offer = w.offer /\ h.sdp = w.sdp
  BY <1>1, <1>3 DEF Handler
<1>5. /\ p \in [made : Offers \cup {None}, remote : Offers \cup {None}, stable : BOOLEAN]
      /\ p.stable /\ p.made = peer[e].made /\ p.remote = peer[e].remote
  BY <1>0
<1>6. /\ m \in Message /\ m.client = w.client /\ m.from = e /\ m.ev = "Answer"
      /\ m.offer = w.sdp
  BY <1>1 DEF Msg, Message, Handler
<1>7. e \notin shared => Steady(e)
  BY DEF RelayIInv
<1>8. e \notin shared => peer[e].made = w.offer /\ w.sdp = w.offer
  BY <1>1, <1>7 DEF Steady
<1>9. e \notin shared => h.client = w.client /\ h.offer = w.offer /\ m.offer = w.offer
  BY <1>2, <1>4, <1>6, <1>8
<1>10. UNCHANGED <<sock, connections, down, offered, answer>>
  BY DEF SendAnswer
<1>11. \/ Moves(e, w, {}) /\ UNCHANGED <<up, peer>>
       \/ Moves(e, w, {h}) /\ peer' = [peer EXCEPT ![e] = p] /\ Send(e, m)
  BY DEF SendAnswer
<1> HIDE DEF h, m, p
<1>12. /\ work' \in [Emulator -> SUBSET Handler]
       /\ \A d \in Emulator : d # e => work'[d] = work[d]
       /\ \A v \in work'[e] : v = h \/ (v \in work[e] /\ v # w)
       /\ \A d \in Emulator \ shared : \A v \in work'[d] :
            \E u \in work[d] : u.client = v.client /\ u.offer = v.offer
  BY <1>4, <1>9, <1>11, MovesFacts
<1>13. /\ \A d \in Emulator : d # e => peer'[d] = peer[d]
       /\ peer'[e] = p \/ peer'[e] = peer[e]
       /\ peer' \in [Emulator -> [made : Offers \cup {None}, remote : Offers \cup {None},
                                 stable : BOOLEAN]]
  <2>0. peer \in [Emulator -> [made : Offers \cup {None}, remote : Offers \cup {None},
                               stable : BOOLEAN]]
    BY DEF RelayIInv, AuditTypeOK, TypeOK
  <2>1. CASE peer' = peer
    BY <2>0, <2>1
  <2>2. CASE peer' = [peer EXCEPT ![e] = p]
    BY <1>5, <2>0, <2>2
  <2> QED BY <1>11, <2>1, <2>2
<1>14. up' \in [Socket -> Seq(Message)]
  <2>1. CASE up' = up
    BY <2>1 DEF RelayIInv, AuditTypeOK, TypeOK
  <2>2. CASE Send(e, m)
    BY <1>6, <2>2, SendFacts DEF RelayIInv, AuditTypeOK, Socket
  <2> QED BY <1>11, <2>1, <2>2
<1>15. AuditTypeOK'
  BY <1>10, <1>12, <1>13, <1>14 DEF RelayIInv, AuditTypeOK, TypeOK
<1>16. Addressed' /\ OneOffer' /\ AnswersFit'
  <2>1. CASE up' = up
    BY <1>10, <1>12, <2>1, LesserAddressed, LesserOffers, SameAnswers
  <2>2. CASE Moves(e, w, {h}) /\ Send(e, m)
    BY <1>2, <1>4, <1>6, <1>9, <1>10, <2>2, SendsOne
  <2> QED BY <1>11, <2>1, <2>2
<1>17. Pages'
  <2>1. \A d \in Emulator : peer'[d].made = peer[d].made /\ peer'[d].remote = peer[d].remote
    BY <1>5, <1>13
  <2>2. \A d \in Emulator : ~peer'[d].stable => ~peer[d].stable
    BY <1>5, <1>13
  <2>3. ASSUME NEW d \in Emulator, NEW v \in work'[d]
        PROVE  /\ v.at # "create" => peer[d].made # None
               /\ v.at # "gather" => Owner[v.offer[1]] = v.client
               /\ v.at \in {"local", "gather"} => v.sdp # None
    <3>1. CASE v \in work[d]
      BY <3>1 DEF RelayIInv, Pages
    <3>2. CASE d = e /\ v = h
      BY <1>2, <1>4, <3>2
    <3> QED BY <1>12, <3>1, <3>2
  <2> QED BY <2>1, <2>2, <2>3 DEF RelayIInv, Pages
<1>18. ASSUME NEW d \in Emulator \ shared PROVE Steady(d)'
  <2>1. Steady(d) /\ peer'[d].made = peer[d].made /\ peer'[d].remote = peer[d].remote
    BY <1>5, <1>13 DEF RelayIInv
  <2>2. CASE d # e
    BY <1>12, <2>1, <2>2 DEF Steady
  <2>3. CASE d = e
    BY <1>4, <1>8, <1>12, <2>1, <2>3 DEF Steady
  <2> QED BY <2>2, <2>3
<1> QED BY <1>10, <1>15, <1>16, <1>17, <1>18 DEF RelayIInv

LEMMA GatherStep ==
    ASSUME RelayIInv, NEW e \in Emulator, NEW w \in work[e], Gather(e, w),
           UNCHANGED <<hasty, shared>>
    PROVE  RelayIInv'
<1> DEFINE m == Msg("IceCandidate", w.client, w.sdp, e)
<1>1. w \in Handler /\ w.at = "gather"
  BY DEF Gather, RelayIInv, AuditTypeOK, TypeOK
<1>2. w.sdp # None /\ (e \notin shared => w.sdp = w.offer)
  BY <1>1 DEF RelayIInv, Pages, Steady
<1>3. /\ m \in Message /\ m.client = w.client /\ m.from = e /\ m.ev = "IceCandidate"
      /\ m.offer = w.sdp
  BY <1>1 DEF Msg, Message, Handler
<1>4. /\ Moves(e, w, {w}) \/ Moves(e, w, {})
      /\ Send(e, m)
      /\ UNCHANGED <<sock, connections, down, offered, answer, peer>>
  BY DEF Gather
<1> HIDE DEF m
<1>5. /\ work' \in [Emulator -> SUBSET Handler]
      /\ \A d \in Emulator : work'[d] \subseteq work[d]
  <2>1. /\ work' \in [Emulator -> SUBSET Handler]
        /\ \A d \in Emulator : d # e => work'[d] = work[d]
        /\ \A v \in work'[e] : v = w \/ (v \in work[e] /\ v # w)
    <3>1. Moves(e, w, {w}) \/ Moves(e, w, {})
      BY <1>4
    <3> QED BY <3>1, OwnMoves
  <2> QED BY <2>1
<1>6. up' \in [Socket -> Seq(Message)]
  BY <1>3, <1>4, SendFacts DEF RelayIInv, AuditTypeOK, Socket
<1>7. AuditTypeOK'
  BY <1>4, <1>5, <1>6 DEF RelayIInv, AuditTypeOK, TypeOK
<1>8. Addressed' /\ OneOffer' /\ AnswersFit'
  BY <1>1, <1>2, <1>3, <1>4, SendsOne
<1>9. Pages' /\ \A d \in Emulator \ shared' : Steady(d)'
  <2>1. Pages'
    BY <1>4, <1>5 DEF RelayIInv, Pages
  <2>2. ASSUME NEW d \in Emulator \ shared PROVE Steady(d)'
    BY <1>4, <1>5 DEF RelayIInv, Steady
  <2> QED BY <2>1, <2>2
<1> QED BY <1>7, <1>8, <1>9 DEF RelayIInv

-----------------------------------------------------------------------------
LEMMA RelayInit == AuditInit => RelayIInv
<1> SUFFICES ASSUME AuditInit PROVE RelayIInv
  OBVIOUS
<1>1. << >> \in Seq(Message) /\ Items(<< >>) = {}
  BY DEF Items
<1>2. NoPeer \in [made : Offers \cup {None}, remote : Offers \cup {None}, stable : BOOLEAN]
      /\ NoPeer.stable
  BY DEF NoPeer
<1>3. AuditTypeOK
  BY <1>1, <1>2 DEF AuditInit, Init, AuditTypeOK, TypeOK
<1>4. /\ \A s \in Socket : Items(up[s]) = {} /\ Items(down[s]) = {}
      /\ \A e \in Emulator : work[e] = {} /\ peer[e].stable
  BY <1>1, <1>2 DEF AuditInit, Init
<1>5. Addressed /\ Pages /\ \A e \in Emulator \ shared : Steady(e)
  BY <1>4 DEF AuditInit, Init, Addressed, Pages, Steady, Socket
<1>6. OneOffer
  BY <1>4 DEF OneOffer, Only
<1>7. AnswersFit
  BY DEF AuditInit, Init, AnswersFit
<1> QED BY <1>3, <1>5, <1>6, <1>7 DEF RelayIInv

LEMMA RelayStep == RelayIInv /\ [AuditNext]_auditVars => RelayIInv'
<1> SUFFICES ASSUME RelayIInv, [AuditNext]_auditVars PROVE RelayIInv'
  OBVIOUS
<1>1. ASSUME NEW s \in Socket, Comes(s) PROVE RelayIInv'
  BY <1>1, OpenStep, CloseStep DEF Comes
<1>2. ASSUME NEW s \in Socket, Handles(s) PROVE RelayIInv'
  BY <1>2, StreamStep, OfferStep, AnswerStep, IceCandidateStep DEF Handles, Handle
<1>3. ASSUME NEW s \in Socket, Delivers(s) PROVE RelayIInv'
  BY <1>3, GetAnswerStep, GetCandidateStep DEF Delivers
<1>4. ASSUME NEW c \in Client, Clicks(c) PROVE RelayIInv'
  BY <1>4, ClickStep
<1>5. ASSUME NEW e \in Emulator, Streams(e) PROVE RelayIInv'
  BY <1>5, ClickStreamStep DEF Streams
<1>6. ASSUME NEW e \in Emulator, Begins(e) PROVE RelayIInv'
  BY <1>6, GetOfferStep
<1>7. ASSUME NEW e \in Emulator, NEW w \in work[e], Steps(e, w) PROVE RelayIInv'
  BY <1>7, CreatePeerStep, SetRemoteStep, CreateAnswerStep, SendAnswerStep, GatherStep
     DEF Steps, Works
<1>8. CASE UNCHANGED auditVars
  <2> USE <1>8 DEF auditVars, vars
  <2>1. AuditTypeOK'
    BY DEF RelayIInv, AuditTypeOK, TypeOK
  <2>2. Addressed' /\ OneOffer' /\ AnswersFit'
    BY LesserAddressed, LesserOffers, SameAnswers
  <2>3. Pages' /\ \A e \in Emulator \ shared' : Steady(e)'
    BY SamePages
  <2> QED BY <2>1, <2>2, <2>3 DEF RelayIInv
<1> QED BY <1>1, <1>2, <1>3, <1>4, <1>5, <1>6, <1>7, <1>8 DEF AuditNext

\* Type correctness of sockets, messages, pages and handlers.
THEOREM RelayTypes == AuditSpec => []AuditTypeOK
<1>1. RelayIInv => AuditTypeOK
  BY DEF RelayIInv
<1> QED BY <1>1, RelayInit, RelayStep, PTL DEF AuditSpec

\* A page's peer connection is given the answer to its own last offer, for any
\* number of pages, accounts, emulators and offers, unless the account was hasty
\* or the answering page shared.
THEOREM AnswersAreFit == AuditSpec => []AnswersFit
<1>1. RelayIInv => AnswersFit
  BY DEF RelayIInv
<1> QED BY <1>1, RelayInit, RelayStep, PTL DEF AuditSpec

-----------------------------------------------------------------------------
(* CandidatesFollow, AnswersAwaited: the turns and the order of what follows *)
(* them.                                                                     *)
(* Queues, by the places of their messages.                                  *)

\* What is left of a queue is one place further ahead.
LEMMA TailPlaces ==
    ASSUME NEW S, NEW q \in Seq(S), q # << >>
    PROVE  /\ 1 \in DOMAIN q /\ q[1] = Head(q) /\ DOMAIN q \subseteq Nat \ {0}
           /\ \A i \in DOMAIN Tail(q) : i + 1 \in DOMAIN q /\ Tail(q)[i] = q[i + 1]
           /\ \A j \in DOMAIN q \ {1} : j - 1 \in DOMAIN Tail(q) /\ Tail(q)[j - 1] = q[j]
<1>1. /\ Tail(q) \in Seq(S) /\ Len(Tail(q)) = Len(q) - 1
      /\ \A i \in 1..Len(Tail(q)) : Tail(q)[i] = q[i + 1]
  BY HeadTailProperties
<1>2. Len(q) \in Nat \ {0} /\ DOMAIN q = 1..Len(q) /\ DOMAIN Tail(q) = 1..Len(Tail(q))
  BY <1>1, LenProperties, EmptySeq
<1>3. Head(q) = q[1]
  OBVIOUS
<1>4. ASSUME NEW j \in DOMAIN q \ {1}
      PROVE  j - 1 \in DOMAIN Tail(q) /\ Tail(q)[j - 1] = q[j]
  <2>1. j - 1 \in 1..Len(Tail(q)) /\ (j - 1) + 1 = j
    BY <1>1, <1>2
  <2> QED BY <1>1, <1>2, <2>1
<1> QED BY <1>1, <1>2, <1>3, <1>4

\* An appended message has the place after all others.
LEMMA AppendPlaces ==
    ASSUME NEW S, NEW q \in Seq(S), NEW m \in S
    PROVE  /\ Len(q) \in Nat /\ DOMAIN q = 1..Len(q)
           /\ DOMAIN Append(q, m) = DOMAIN q \cup {Len(q) + 1}
           /\ Append(q, m)[Len(q) + 1] = m
           /\ \A i \in DOMAIN q : Append(q, m)[i] = q[i] /\ i < Len(q) + 1
<1>1. /\ Append(q, m) \in Seq(S) /\ Len(Append(q, m)) = Len(q) + 1
      /\ \A i \in 1..Len(q) : Append(q, m)[i] = q[i]
      /\ Append(q, m)[Len(q) + 1] = m
  BY AppendProperties
<1>2. /\ Len(q) \in Nat /\ DOMAIN q = 1..Len(q)
      /\ DOMAIN Append(q, m) = 1..(Len(q) + 1)
  BY <1>1, LenProperties
<1> QED BY <1>1, <1>2

\* A place is a socket and an index of its queue.
LEMMA PlacesDef ==
    ASSUME NEW Q, NEW a, NEW x
    PROVE  x \in Places(Q, a) <=>
             \E s \in Socket : \E i \in DOMAIN Q[s] : Bears(Q[s][i], a) /\ x = <<s, i>>
BY DEF Places

\* In R the first message of s is gone from Q.
FirstTaken(Q, R, s) ==
    /\ 1 \in DOMAIN Q[s] /\ \A t \in Socket \ {s} : R[t] = Q[t]
    /\ \A i \in DOMAIN R[s] : i \in Nat \ {0} /\ i + 1 \in DOMAIN Q[s] /\ R[s][i] = Q[s][i + 1]
    /\ \A j \in DOMAIN Q[s] \ {1} : /\ j \in Nat \ {0} /\ j - 1 \in DOMAIN R[s]
                                    /\ R[s][j - 1] = Q[s][j]

LEMMA TakesFirst ==
    ASSUME TypeOK, NEW s \in Socket, NEW ev, Takes(s, ev)
    PROVE  FirstTaken(up, up', s) /\ Head(up[s]) = up[s][1]
<1>1. up[s] \in Seq(Message) /\ up[s] # << >>
  BY DEF TypeOK, Takes
<1>2. /\ 1 \in DOMAIN up[s] /\ up[s][1] = Head(up[s]) /\ DOMAIN up[s] \subseteq Nat \ {0}
      /\ \A i \in DOMAIN Tail(up[s]) : i + 1 \in DOMAIN up[s] /\ Tail(up[s])[i] = up[s][i + 1]
      /\ \A j \in DOMAIN up[s] \ {1} : j - 1 \in DOMAIN Tail(up[s]) /\ Tail(up[s])[j - 1] = up[s][j]
  BY <1>1, TailPlaces
<1>3. \A i \in DOMAIN Tail(up[s]) : i \in Nat \ {0}
  <2>1. Tail(up[s]) \in Seq(Message)
    BY <1>1, HeadTailProperties
  <2> QED BY <2>1, LenProperties
<1>4. up'[s] = Tail(up[s]) /\ \A t \in Socket \ {s} : up'[t] = up[t]
  BY DEF Takes, TypeOK
<1> QED BY <1>2, <1>3, <1>4 DEF FirstTaken

LEMMA GetsFirst ==
    ASSUME TypeOK, NEW s \in Socket, NEW ev, Gets(s, ev)
    PROVE  FirstTaken(down, down', s) /\ Head(down[s]) = down[s][1]
<1>1. down[s] \in Seq(Message) /\ down[s] # << >>
  BY DEF TypeOK, Gets
<1>2. /\ 1 \in DOMAIN down[s] /\ down[s][1] = Head(down[s]) /\ DOMAIN down[s] \subseteq Nat \ {0}
      /\ \A i \in DOMAIN Tail(down[s]) :
           i + 1 \in DOMAIN down[s] /\ Tail(down[s])[i] = down[s][i + 1]
      /\ \A j \in DOMAIN down[s] \ {1} :
           j - 1 \in DOMAIN Tail(down[s]) /\ Tail(down[s])[j - 1] = down[s][j]
  BY <1>1, TailPlaces
<1>3. \A i \in DOMAIN Tail(down[s]) : i \in Nat \ {0}
  <2>1. Tail(down[s]) \in Seq(Message)
    BY <1>1, HeadTailProperties
  <2> QED BY <2>1, LenProperties
<1>4. down'[s] = Tail(down[s]) /\ \A t \in Socket \ {s} : down'[t] = down[t]
  BY DEF Gets, TypeOK
<1> QED BY <1>2, <1>3, <1>4 DEF FirstTaken

\* Taking a message that bears no turn of a moves the places of a.
LEMMA TakenOther ==
    ASSUME NEW Q, NEW R, NEW a, NEW s \in Socket, FirstTaken(Q, R, s), ~Bears(Q[s][1], a)
    PROVE  /\ AtMostOne(Places(Q, a)) => AtMostOne(Places(R, a))
           /\ \A x \in Places(R, a) : \E y \in Places(Q, a) : y[1] = x[1]
<1>1. /\ \A t \in Socket \ {s} : R[t] = Q[t]
      /\ \A i \in DOMAIN R[s] : i + 1 \in DOMAIN Q[s] /\ R[s][i] = Q[s][i + 1]
      /\ \A i \in DOMAIN R[s] : i \in Nat \ {0}
  BY DEF FirstTaken
<1>3. ASSUME NEW t \in Socket, NEW i \in DOMAIN R[t], Bears(R[t][i], a)
      PROVE  \/ t = s /\ i \in Nat /\ <<s, i + 1>> \in Places(Q, a)
             \/ t # s /\ <<t, i>> \in Places(Q, a)
  <2>1. CASE t = s
    BY <1>1, <1>3, <2>1, PlacesDef
  <2>2. CASE t # s
    BY <1>1, <1>3, <2>2, PlacesDef
  <2> QED BY <2>1, <2>2
<1>4. ASSUME NEW x \in Places(R, a) PROVE \E y \in Places(Q, a) : y[1] = x[1]
  <2>1. PICK t, i : t \in Socket /\ i \in DOMAIN R[t] /\ Bears(R[t][i], a) /\ x = <<t, i>>
    BY PlacesDef
  <2>2. CASE t = s
    <3>1. PICK y \in Places(Q, a) : y = <<s, i + 1>>
      BY <1>3, <2>1, <2>2
    <3> QED BY <2>1, <2>2, <3>1
  <2>3. CASE t # s
    BY <1>3, <2>1, <2>3
  <2> QED BY <2>2, <2>3
<1>5. ASSUME AtMostOne(Places(Q, a)), NEW x \in Places(R, a), NEW y \in Places(R, a)
      PROVE  x = y
  <2>1. PICK t, i : t \in Socket /\ i \in DOMAIN R[t] /\ Bears(R[t][i], a) /\ x = <<t, i>>
    BY PlacesDef
  <2>2. PICK u, j : u \in Socket /\ j \in DOMAIN R[u] /\ Bears(R[u][j], a) /\ y = <<u, j>>
    BY PlacesDef
  <2>3. CASE t = s /\ u = s
    <3>1. <<s, i + 1>> = <<s, j + 1>> /\ i \in Nat /\ j \in Nat
      BY <1>3, <1>5, <2>1, <2>2, <2>3 DEF AtMostOne
    <3>2. i = j
      BY <3>1
    <3> QED BY <2>1, <2>2, <2>3, <3>2
  <2>4. CASE t # s /\ u # s
    BY <1>3, <1>5, <2>1, <2>2, <2>4 DEF AtMostOne
  <2>5. CASE t = s /\ u # s
    <3>1. <<s, i + 1>> = <<u, j>>
      BY <1>3, <1>5, <2>1, <2>2, <2>5 DEF AtMostOne
    <3> QED BY <2>5, <3>1
  <2>6. CASE t # s /\ u = s
    <3>1. <<t, i>> = <<s, j + 1>>
      BY <1>3, <1>5, <2>1, <2>2, <2>6 DEF AtMostOne
    <3> QED BY <2>6, <3>1
  <2> QED BY <2>3, <2>4, <2>5, <2>6
<1> QED BY <1>4, <1>5 DEF AtMostOne

\* Taking the one message that bears the turn of a leaves none.
LEMMA TakenTurn ==
    ASSUME NEW Q, NEW R, NEW a, NEW s \in Socket, FirstTaken(Q, R, s), Bears(Q[s][1], a),
           AtMostOne(Places(Q, a))
    PROVE  <<s, 1>> \in Places(Q, a) /\ Places(R, a) = {}
<1>1. /\ 1 \in DOMAIN Q[s] /\ \A t \in Socket \ {s} : R[t] = Q[t]
      /\ \A i \in DOMAIN R[s] : i + 1 \in DOMAIN Q[s] /\ R[s][i] = Q[s][i + 1]
      /\ \A i \in DOMAIN R[s] : i \in Nat \ {0}
  BY DEF FirstTaken
<1>3. <<s, 1>> \in Places(Q, a)
  BY <1>1, PlacesDef
<1>4. ASSUME NEW x \in Places(R, a) PROVE FALSE
  <2>1. PICK t, i : t \in Socket /\ i \in DOMAIN R[t] /\ Bears(R[t][i], a) /\ x = <<t, i>>
    BY PlacesDef
  <2>2. CASE t = s
    <3>1. <<s, i + 1>> \in Places(Q, a) /\ i \in Nat \ {0}
      BY <1>1, <2>1, <2>2, PlacesDef
    <3>2. <<s, i + 1>> = <<s, 1>>
      BY <1>3, <3>1 DEF AtMostOne
    <3> QED BY <3>1, <3>2
  <2>3. CASE t # s
    <3>1. <<t, i>> \in Places(Q, a)
      BY <1>1, <2>1, <2>3, PlacesDef
    <3>2. <<t, i>> = <<s, 1>>
      BY <1>3, <3>1 DEF AtMostOne
    <3> QED BY <2>3, <3>2
  <2> QED BY <2>2, <2>3
<1> QED BY <1>3, <1>4

\* An appended message adds its own place, if it bears the turn.
LEMMA AppendedTurn ==
    ASSUME NEW Q \in [Socket -> Seq(Message)], NEW a, NEW s \in Socket, NEW m \in Message,
           NEW R,
           \A t \in Socket : R[t] = IF t = s THEN Append(Q[s], m) ELSE Q[t]
    PROVE  \A x \in Places(R, a) :
             x \in Places(Q, a) \/ (Bears(m, a) /\ x = <<s, Len(Q[s]) + 1>>)
<1>1. /\ DOMAIN Append(Q[s], m) = DOMAIN Q[s] \cup {Len(Q[s]) + 1}
      /\ Append(Q[s], m)[Len(Q[s]) + 1] = m
      /\ \A i \in DOMAIN Q[s] : Append(Q[s], m)[i] = Q[s][i]
  BY AppendPlaces
<1>2. ASSUME NEW x \in Places(R, a)
      PROVE  x \in Places(Q, a) \/ (Bears(m, a) /\ x = <<s, Len(Q[s]) + 1>>)
  <2>1. PICK t, i : t \in Socket /\ i \in DOMAIN R[t] /\ Bears(R[t][i], a) /\ x = <<t, i>>
    BY PlacesDef
  <2>2. CASE t = s
    BY <1>1, <2>1, <2>2, PlacesDef
  <2>3. CASE t # s
    BY <2>1, <2>3, PlacesDef
  <2> QED BY <2>2, <2>3
<1> QED BY <1>2

\* A queue that is emptied has no places.
LEMMA EmptiedPlaces ==
    ASSUME NEW Q \in [Socket -> Seq(Message)], NEW a, NEW s \in Socket,
           NEW R,
           \A t \in Socket : R[t] = IF t = s THEN << >> ELSE Q[t]
    PROVE  Places(R, a) \subseteq Places(Q, a)
<1>1. ASSUME NEW x \in Places(R, a) PROVE x \in Places(Q, a)
  <2>1. PICK t, i : t \in Socket /\ i \in DOMAIN R[t] /\ Bears(R[t][i], a) /\ x = <<t, i>>
    BY PlacesDef
  <2>2. DOMAIN << >> = {}
    OBVIOUS
  <2>3. R[t] = Q[t]
    BY <2>1, <2>2
  <2> QED BY <2>1, <2>3, PlacesDef
<1> QED BY <1>1

-----------------------------------------------------------------------------
(* The order of a queue *)

LEMMA OrderedTail ==
    ASSUME NEW Q, NEW R, NEW s, FirstTaken(Q, R, s), NEW a, NEW e, NEW N,
           Ordered(Q[s], a, e, N), ~Replies(Q[s][1], a, e)
    PROVE  Ordered(R[s], a, e, N)
<1> SUFFICES ASSUME NEW i \in DOMAIN R[s], Gathered(R[s][i], a, e), R[s][i].offer \notin N
             PROVE  \E j \in DOMAIN R[s] : j < i /\ Replies(R[s][j], a, e)
  BY DEF Ordered
<1>1. i + 1 \in DOMAIN Q[s] /\ R[s][i] = Q[s][i + 1] /\ i \in Nat \ {0}
  BY DEF FirstTaken
<1>2. PICK j \in DOMAIN Q[s] : j < i + 1 /\ Replies(Q[s][j], a, e)
  BY <1>1 DEF Ordered
<1>3. j # 1
  BY <1>2
<1>4. j \in Nat \ {0} /\ j - 1 \in DOMAIN R[s] /\ R[s][j - 1] = Q[s][j]
  BY <1>3 DEF FirstTaken
<1> QED BY <1>1, <1>2, <1>4

LEMMA OrderedAppend ==
    ASSUME NEW q \in Seq(Message), NEW m \in Message, NEW a, NEW e, NEW N,
           Ordered(q, a, e, N), Gathered(m, a, e) => m.offer \in N \/ Holds(q, a, e)
    PROVE  Ordered(Append(q, m), a, e, N)
<1>1. /\ Len(q) \in Nat /\ DOMAIN q = 1..Len(q)
      /\ DOMAIN Append(q, m) = DOMAIN q \cup {Len(q) + 1}
      /\ Append(q, m)[Len(q) + 1] = m
      /\ \A i \in DOMAIN q : Append(q, m)[i] = q[i] /\ i < Len(q) + 1
  BY AppendPlaces
<1> SUFFICES ASSUME NEW i \in DOMAIN Append(q, m), Gathered(Append(q, m)[i], a, e),
                    Append(q, m)[i].offer \notin N
             PROVE  \E j \in DOMAIN Append(q, m) : j < i /\ Replies(Append(q, m)[j], a, e)
  BY DEF Ordered
<1>2. CASE i \in DOMAIN q
  <2>1. PICK j \in DOMAIN q : j < i /\ Replies(q[j], a, e)
    BY <1>1, <1>2 DEF Ordered
  <2> QED BY <1>1, <2>1
<1>3. CASE i = Len(q) + 1
  <2>1. PICK j \in DOMAIN q : Replies(q[j], a, e)
    BY <1>1, <1>3 DEF Holds, Items
  <2> QED BY <1>1, <1>3, <2>1
<1> QED BY <1>1, <1>2, <1>3

\* More offers known, or nothing sent that one has to know.
LEMMA OrderedMore ==
    ASSUME NEW q, NEW a, NEW e, NEW N, NEW M,
           (Ordered(q, a, e, N) /\ N \subseteq M) \/
             \A m \in Items(q) : Gathered(m, a, e) => m.offer \in M
    PROVE  Ordered(q, a, e, M)
BY DEF Ordered, Items

\* The first message has no answer ahead of it.
LEMMA OrderedHead ==
    ASSUME NEW q \in Seq(Message), 1 \in DOMAIN q, NEW a, NEW e, NEW N,
           Ordered(q, a, e, N), Gathered(q[1], a, e)
    PROVE  q[1].offer \in N
<1>1. \A j \in DOMAIN q : j \in Nat \ {0}
  BY LenProperties
<1> QED BY <1>1 DEF Ordered

-----------------------------------------------------------------------------
(* Turns *)

\* Whose the sockets are at which a has its turn.
LEMMA TurnOwner ==
    ASSUME RelayIInv, NEW a \in Account
    PROVE  /\ \A x \in Places(up, a) : x[1] \in Socket /\ (x[1] \in Client => Owner[x[1]] = a)
           /\ \A x \in Places(down, a) : x[1] \in Socket /\ (x[1] \in Client => Owner[x[1]] = a)
           /\ \A c \in Client : connections[a] = c => Owner[c] = a
<1>1. ASSUME NEW x \in Places(up, a)
      PROVE  x[1] \in Socket /\ (x[1] \in Client => Owner[x[1]] = a)
  <2>1. PICK s, i : s \in Socket /\ i \in DOMAIN up[s] /\ Bears(up[s][i], a) /\ x = <<s, i>>
    BY PlacesDef
  <2>2. up[s][i] \in Items(up[s])
    BY <2>1 DEF Items
  <2> QED BY <2>1, <2>2 DEF RelayIInv, Addressed, FromClient, Bears
<1>2. ASSUME NEW x \in Places(down, a)
      PROVE  x[1] \in Socket /\ (x[1] \in Client => Owner[x[1]] = a)
  <2>1. PICK s, i : s \in Socket /\ i \in DOMAIN down[s] /\ Bears(down[s][i], a) /\ x = <<s, i>>
    BY PlacesDef
  <2>2. down[s][i] \in Items(down[s])
    BY <2>1 DEF Items
  <2> QED BY <2>1, <2>2 DEF RelayIInv, Addressed, ToClient, Bears
<1>3. \A c \in Client : connections[a] = c => Owner[c] = a
  <2>1. None \notin Client
    BY DEF Socket
  <2> QED BY <2>1 DEF RelayIInv, Addressed
<1> QED BY <1>1, <1>2, <1>3

\* A step that moves no turn of a forward, but may lose it.
LEMMA SameTurn ==
    ASSUME RelayIInv, NEW a \in Account, OneTurn(a), Waited(a),
           connections'[a] = connections[a],
           \A c \in Client : Owner[c] = a => answer'[c] = answer[c] /\ offered'[c] = offered[c],
           AtMostOne(Places(up', a)),
           \A x \in Places(up', a) : \E y \in Places(up, a) : y[1] = x[1],
           AtMostOne(Places(down', a)),
           \A x \in Places(down', a) : \E y \in Places(down, a) : y[1] = x[1],
           AtMostOne(Handling(a)'), Handling(a)' # {} => Handling(a) # {}
    PROVE  OneTurn(a)' /\ Waited(a)'
<1>1. OneTurn(a)'
  <2>1. Places(up', a) # {} => Places(up, a) # {}
    OBVIOUS
  <2>2. Places(down', a) # {} => Places(down, a) # {}
    OBVIOUS
  <2> QED BY <2>1, <2>2 DEF OneTurn
<1>2. \A c \in Client : Owner[c] = a /\ Waits(c) => Waits(c)'
  BY DEF Waits
<1>3. Waits(connections[a]) => Waits(connections[a])'
  <2> SUFFICES ASSUME Waits(connections[a]) PROVE Waits(connections[a])'
    OBVIOUS
  <2>1. PICK c \in Client : c = connections[a]
    BY DEF Waits
  <2>2. Waits(c) /\ Owner[c] = a
    BY <2>1, TurnOwner
  <2>3. Waits(c)'
    BY <1>2, <2>2
  <2>4. connections'[a] = c
    BY <2>1
  <2> QED BY <2>3, <2>4 DEF Waits
<1>4. ASSUME NEW x \in Places(up', a)
      PROVE  Waits(IF x[1] \in Client THEN x[1] ELSE connections[a])'
  <2>1. PICK y \in Places(up, a) : y[1] = x[1]
    OBVIOUS
  <2>2. Waits(IF x[1] \in Client THEN x[1] ELSE connections[a])
    BY <2>1 DEF Waited
  <2>3. CASE x[1] \in Client
    <3>1. Owner[x[1]] = a /\ Waits(x[1])
      BY <2>1, <2>2, <2>3, TurnOwner
    <3> QED BY <1>2, <2>3, <3>1
  <2>4. CASE x[1] \notin Client
    BY <1>3, <2>2, <2>4
  <2> QED BY <2>3, <2>4
<1>5. ASSUME NEW x \in Places(down', a)
      PROVE  Waits(connections[a])' /\ (x[1] \in Client => x[1] = connections'[a])
  <2>1. PICK y \in Places(down, a) : y[1] = x[1]
    OBVIOUS
  <2> QED BY <1>3, <2>1 DEF Waited
<1>6. Waited(a)'
  BY <1>3, <1>4, <1>5 DEF Waited
<1> QED BY <1>1, <1>6

\* Handlers that are as they were, or fewer.
LEMMA LessHandling ==
    ASSUME NEW a, AtMostOne(Handling(a)),
           \A e \in Emulator : \A w \in work'[e] : w \in work[e] \/ w.at = "gather" \/ w.client # a
    PROVE  AtMostOne(Handling(a)') /\ (Handling(a)' # {} => Handling(a) # {})
<1>1. Handling(a)' \subseteq Handling(a)
  BY DEF Handling
<1> QED BY <1>1 DEF AtMostOne

\* What taking a message from s does to the turns.
LEMMA UpTaken ==
    ASSUME TypeOK, NEW s \in Socket, NEW ev, Takes(s, ev), NEW a, OneTurn(a)
    PROVE  /\ ~Bears(Head(up[s]), a) =>
                /\ AtMostOne(Places(up', a))
                /\ \A x \in Places(up', a) : \E y \in Places(up, a) : y[1] = x[1]
           /\ Bears(Head(up[s]), a) =>
                /\ <<s, 1>> \in Places(up, a) /\ Places(up', a) = {}
                /\ Places(down, a) = {} /\ Handling(a) = {}
<1>1. FirstTaken(up, up', s) /\ Head(up[s]) = up[s][1]
  BY TakesFirst
<1>2. AtMostOne(Places(up, a)) /\ (Places(up, a) # {} => Places(down, a) = {} /\ Handling(a) = {})
  BY DEF OneTurn
<1>3. CASE Bears(up[s][1], a)
  <2>1. <<s, 1>> \in Places(up, a) /\ Places(up', a) = {}
    BY <1>1, <1>2, <1>3, TakenTurn
  <2> QED BY <1>1, <1>2, <1>3, <2>1
<1>4. CASE ~Bears(up[s][1], a)
  <2>1. /\ AtMostOne(Places(up', a))
        /\ \A x \in Places(up', a) : \E y \in Places(up, a) : y[1] = x[1]
    BY <1>1, <1>2, <1>4, TakenOther
  <2> QED BY <1>1, <1>4, <2>1
<1> QED BY <1>3, <1>4

\* What a page's taking a message does to the turns.
LEMMA DownTaken ==
    ASSUME TypeOK, NEW s \in Socket, NEW ev, Gets(s, ev), NEW a, OneTurn(a)
    PROVE  /\ ~Bears(Head(down[s]), a) =>
                /\ AtMostOne(Places(down', a))
                /\ \A x \in Places(down', a) : \E y \in Places(down, a) : y[1] = x[1]
           /\ Bears(Head(down[s]), a) =>
                /\ <<s, 1>> \in Places(down, a) /\ Places(down', a) = {}
                /\ Places(up, a) = {} /\ Handling(a) = {}
<1>1. FirstTaken(down, down', s) /\ Head(down[s]) = down[s][1]
  BY GetsFirst
<1>2. AtMostOne(Places(down, a)) /\ (Places(down, a) # {} => Places(up, a) = {} /\ Handling(a) = {})
  BY DEF OneTurn
<1> QED BY <1>1, <1>2, TakenOther, TakenTurn

\* What is sent adds its own place at most.
LEMMA EmittedTurn ==
    ASSUME TypeOK, NEW t \in Socket \cup {None}, NEW m \in Message, Emit(t, m), NEW a
    PROVE  \A x \in Places(down', a) :
             x \in Places(down, a) \/ (Bears(m, a) /\ x = <<t, Len(down[t]) + 1>>)
<1>1. CASE down' = down
  BY <1>1
<1>2. CASE t \in Socket /\ down' = [down EXCEPT ![t] = Append(@, m)]
  <2>1. /\ down \in [Socket -> Seq(Message)]
        /\ \A x \in Socket : down'[x] = IF x = t THEN Append(down[t], m) ELSE down[x]
    BY <1>2 DEF TypeOK
  <2>2. t \in Socket
    BY <1>2
  <2> QED BY <2>1, <2>2, AppendedTurn
<1> QED BY <1>1, <1>2 DEF Emit

LEMMA SentTurn ==
    ASSUME TypeOK, NEW s \in Socket, NEW m \in Message, Send(s, m), NEW a
    PROVE  \A x \in Places(up', a) :
             x \in Places(up, a) \/ (Bears(m, a) /\ x = <<s, Len(up[s]) + 1>>)
<1>1. /\ up \in [Socket -> Seq(Message)]
      /\ \A x \in Socket : up'[x] = IF x = s THEN Append(up[s], m) ELSE up[x]
  BY DEF TypeOK, Send
<1> QED BY <1>1, AppendedTurn

-----------------------------------------------------------------------------
(* The turns of a through each step *)

LEMMA CloseTurn ==
    ASSUME RelayIInv, NEW s \in Socket, Close(s), NEW a \in Account, OneTurn(a), Waited(a)
    PROVE  OneTurn(a)' /\ Waited(a)'
<1>0. /\ up \in [Socket -> Seq(Message)] /\ down \in [Socket -> Seq(Message)]
      /\ \A x \in Socket : up'[x] = IF x = s THEN << >> ELSE up[x]
      /\ \A x \in Socket : down'[x] = IF x = s THEN << >> ELSE down[x]
  BY DEF Close, RelayIInv, AuditTypeOK, TypeOK
<1>1. Places(up', a) \subseteq Places(up, a) /\ Places(down', a) \subseteq Places(down, a)
  BY <1>0, EmptiedPlaces
<1>2. AtMostOne(Places(up', a)) /\ AtMostOne(Places(down', a))
  BY <1>1 DEF OneTurn, AtMostOne
<1>3. AtMostOne(Handling(a)') /\ (Handling(a)' # {} => Handling(a) # {})
  BY LessHandling DEF Close, OneTurn
<1> QED BY <1>1, <1>2, <1>3, SameTurn DEF Close

\* The server takes a message that bears no turn of a, and sends nothing that does.
LEMMA OtherTaken ==
    ASSUME RelayIInv, NEW s \in Socket, NEW ev, Takes(s, ev),
           NEW a \in Account, OneTurn(a), Waited(a), ~Bears(Head(up[s]), a),
           NEW t \in Socket \cup {None}, Emit(t, Head(up[s])) \/ down' = down,
           connections'[a] = connections[a], UNCHANGED <<answer, offered, work>>
    PROVE  OneTurn(a)' /\ Waited(a)'
<1>1. TypeOK /\ Head(up[s]) \in Message
  BY TakesFacts DEF RelayIInv, AuditTypeOK
<1>2. /\ AtMostOne(Places(up', a))
      /\ \A x \in Places(up', a) : \E y \in Places(up, a) : y[1] = x[1]
  BY <1>1, UpTaken
<1>3. Places(down', a) \subseteq Places(down, a)
  BY <1>1, EmittedTurn
<1>4. AtMostOne(Places(down', a))
  BY <1>3 DEF OneTurn, AtMostOne
<1>5. AtMostOne(Handling(a)') /\ (Handling(a)' # {} => Handling(a) # {})
  BY LessHandling DEF OneTurn
<1> QED BY <1>2, <1>3, <1>4, <1>5, SameTurn

LEMMA OfferTurn ==
    ASSUME RelayIInv, NEW s \in Socket, Offer(s), NEW a \in Account, OneTurn(a), Waited(a)
    PROVE  OneTurn(a)' /\ Waited(a)'
<1> DEFINE m == Head(up[s])
<1>1. TypeOK /\ Takes(s, "Offer") /\ m \in Message /\ m \in Items(up[s]) /\ m.ev = "Offer"
  BY TakesFacts DEF RelayIInv, AuditTypeOK, Offer
<1>2. s \in Client /\ m.client = Owner[s]
  BY <1>1 DEF RelayIInv, Addressed, FromEmulator, FromClient, Socket
<1>3. UNCHANGED <<answer, offered, work>>
  BY DEF Offer
<1>4. connections[Target[s]] \in Emulator \cup {None}
  BY <1>2 DEF RelayIInv, AuditTypeOK, TypeOK, Addressed, Socket
<1>5. \/ connections' = connections /\ down' = down
      \/ connections' = [connections EXCEPT ![Owner[s]] = s] /\ Emit(connections[Target[s]], m)
  BY <1>2 DEF Offer
<1> HIDE DEF m
<1>6. CASE Owner[s] # a
  <2>0. ~Bears(m, a)
    BY <1>2, <1>6 DEF Bears
  <2>1. connections'[a] = connections[a]
    BY <1>1, <1>5, <1>6 DEF TypeOK
  <2>2. connections[Target[s]] \in Socket \cup {None}
    BY <1>4 DEF Socket
  <2>3. Emit(connections[Target[s]], Head(up[s])) \/ down' = down
    BY <1>5 DEF m
  <2>4. ~Bears(Head(up[s]), a)
    BY <2>0 DEF m
  <2>5. Takes(s, "Offer") /\ connections'[a] = connections[a]
    BY <1>1, <2>1
  <2> QED BY <1>3, <2>2, <2>3, <2>4, <2>5, OtherTaken
<1>7. CASE Owner[s] = a
  <2>1. Bears(m, a)
    BY <1>1, <1>2, <1>7 DEF Bears
  <2>2. /\ <<s, 1>> \in Places(up, a) /\ Places(up', a) = {}
        /\ Places(down, a) = {} /\ Handling(a) = {}
    BY <1>1, <2>1, UpTaken DEF m
  <2>3. Waits(s)
    BY <1>2, <2>2 DEF Waited
  <2>4. Handling(a)' = {}
    BY <1>3, <2>2 DEF Handling
  <2>5. CASE down' = down
    BY <2>2, <2>4, <2>5 DEF OneTurn, Waited, AtMostOne
  <2>6. CASE /\ connections' = [connections EXCEPT ![Owner[s]] = s]
             /\ Emit(connections[Target[s]], m)
    <3> DEFINE t == connections[Target[s]]
    <3>1. \A x \in Places(down', a) : x = <<t, Len(down[t]) + 1>>
      BY <1>1, <1>4, <2>2, <2>6, EmittedTurn DEF Socket
    <3>2. \A x \in Places(down', a) : x[1] \notin Client
      BY <1>4, <3>1 DEF Socket
    <3>3. connections'[a] = s
      BY <1>1, <1>7, <2>6 DEF TypeOK
    <3>4. Waits(connections[a])'
      BY <1>3, <2>3, <3>3 DEF Waits
    <3>5. OneTurn(a)'
      BY <2>2, <2>4, <3>1 DEF OneTurn, AtMostOne
    <3>6. Waited(a)'
      BY <2>2, <2>4, <3>2, <3>4 DEF Waited
    <3> QED BY <3>5, <3>6
  <2> QED BY <1>5, <2>5, <2>6
<1> QED BY <1>6, <1>7

LEMMA AnswerTurn ==
    ASSUME RelayIInv, NEW s \in Socket, Answer(s), NEW a \in Account, OneTurn(a), Waited(a)
    PROVE  OneTurn(a)' /\ Waited(a)'
<1> DEFINE m == Head(up[s])
           t == connections[m.client]
<1>1. TypeOK /\ Takes(s, "Answer") /\ m \in Message /\ m \in Items(up[s]) /\ m.ev = "Answer"
  BY TakesFacts DEF RelayIInv, AuditTypeOK, Answer
<1>2. s \in Emulator /\ m.client \in Account /\ s \notin Client
  BY <1>1 DEF RelayIInv, Addressed, FromEmulator, FromClient, Socket
<1>3. UNCHANGED <<connections, answer, offered, work>> /\ Emit(t, m)
  BY DEF Answer
<1>4. t \in Socket \cup {None}
  BY <1>1, <1>2 DEF TypeOK
<1> HIDE DEF m
<1>5. CASE m.client # a
  <2>1. ~Bears(m, a)
    BY <1>5 DEF Bears
  <2> QED BY <1>1, <1>3, <1>4, <2>1, OtherTaken DEF m
<1>6. CASE m.client = a
  <2>1. Bears(m, a)
    BY <1>1, <1>6 DEF Bears
  <2>2. /\ <<s, 1>> \in Places(up, a) /\ Places(up', a) = {}
        /\ Places(down, a) = {} /\ Handling(a) = {}
    BY <1>1, <2>1, UpTaken DEF m
  <2>3. Waits(connections[a])
    BY <1>2, <2>2 DEF Waited
  <2>4. Handling(a)' = {}
    BY <1>3, <2>2 DEF Handling
  <2>5. \A x \in Places(down', a) : x = <<t, Len(down[t]) + 1>>
    BY <1>1, <1>3, <1>4, <2>2, EmittedTurn
  <2>6. Waits(connections[a])' /\ \A x \in Places(down', a) : x[1] = connections'[a]
    BY <1>3, <1>6, <2>3, <2>5 DEF Waits
  <2>7. OneTurn(a)'
    BY <2>2, <2>4, <2>5 DEF OneTurn, AtMostOne
  <2>8. Waited(a)'
    BY <2>2, <2>4, <2>6 DEF Waited
  <2> QED BY <2>7, <2>8
<1> QED BY <1>5, <1>6

LEMMA OtherHandleTurn ==
    ASSUME RelayIInv, NEW s \in Socket, StartStreaming(s) \/ IceCandidate(s),
           NEW a \in Account, OneTurn(a), Waited(a)
    PROVE  OneTurn(a)' /\ Waited(a)'
<1> DEFINE m == Head(up[s])
<1>1. /\ TypeOK /\ m \in Message /\ m \in Items(up[s])
      /\ m.ev \notin {"Offer", "Answer"} /\ Takes(s, m.ev)
  BY TakesFacts DEF RelayIInv, AuditTypeOK, StartStreaming, IceCandidate
<1>2. ~Bears(m, a)
  BY <1>1 DEF Bears
<1>3. CASE StartStreaming(s)
  <2>1. s \in Emulator
    BY <1>1, <1>3 DEF StartStreaming, Takes, RelayIInv, Addressed, FromClient, Socket
  <2>2. connections'[a] = connections[a] /\ UNCHANGED <<answer, offered, work, down>>
    BY <1>1, <1>3, <2>1 DEF StartStreaming, TypeOK
  <2> QED BY <1>1, <1>2, <2>2, OtherTaken
<1>4. CASE IceCandidate(s)
  <2> DEFINE t == IF s \in Emulator THEN connections[m.client] ELSE connections[Target[s]]
  <2>1. UNCHANGED <<connections, answer, offered, work>> /\ Emit(t, m)
    BY <1>4 DEF IceCandidate
  <2>2. s \in Emulator => m.client \in Account
    BY <1>1, <1>4 DEF RelayIInv, Addressed, FromEmulator, IceCandidate, Takes
  <2>3. t \in Socket \cup {None}
    BY <1>1, <2>2 DEF TypeOK, Socket
  <2> QED BY <1>1, <1>2, <2>1, <2>3, OtherTaken
<1> QED BY <1>3, <1>4

\* What a page gets that bears no turn of a.
LEMMA OtherGot ==
    ASSUME RelayIInv, NEW s \in Socket, NEW ev, Gets(s, ev),
           NEW a \in Account, OneTurn(a), Waited(a), ~Bears(Head(down[s]), a),
           connections'[a] = connections[a], UNCHANGED <<up, offered>>,
           \A c \in Client : Owner[c] = a => answer'[c] = answer[c],
           \A e \in Emulator : \A w \in work'[e] : w \in work[e] \/ w.client # a
    PROVE  OneTurn(a)' /\ Waited(a)'
<1>1. TypeOK
  BY DEF RelayIInv, AuditTypeOK
<1>2. /\ AtMostOne(Places(down', a))
      /\ \A x \in Places(down', a) : \E y \in Places(down, a) : y[1] = x[1]
  BY <1>1, DownTaken
<1>3. AtMostOne(Handling(a)') /\ (Handling(a)' # {} => Handling(a) # {})
  BY LessHandling DEF OneTurn
<1>4. /\ AtMostOne(Places(up', a))
      /\ \A x \in Places(up', a) : \E y \in Places(up, a) : y[1] = x[1]
  BY DEF OneTurn
<1> QED BY <1>2, <1>3, <1>4, SameTurn

LEMMA GetAnswerTurn ==
    ASSUME RelayIInv, NEW c \in Client, GetAnswer(c), NEW a \in Account, OneTurn(a), Waited(a)
    PROVE  OneTurn(a)' /\ Waited(a)'
<1> DEFINE m == Head(down[c])
<1>0. c \in Socket
  BY DEF Socket
<1>1. TypeOK /\ Gets(c, "Answer") /\ m \in Items(down[c]) /\ m.ev = "Answer"
  BY <1>0, GetsFacts DEF RelayIInv, AuditTypeOK, GetAnswer
<1>2. m.client = Owner[c]
  BY <1>1 DEF RelayIInv, Addressed, ToClient
<1>3. UNCHANGED <<connections, up, offered, work>>
  BY DEF GetAnswer
<1>4. \A b \in Client \ {c} : answer'[b] = answer[b]
  BY <1>1 DEF GetAnswer, TypeOK
<1> HIDE DEF m
<1>5. CASE Owner[c] # a
  <2>1. ~Bears(Head(down[c]), a)
    BY <1>2, <1>5 DEF m, Bears
  <2>2. \A b \in Client : Owner[b] = a => answer'[b] = answer[b]
    BY <1>4, <1>5
  <2> QED BY <1>0, <1>1, <1>3, <2>1, <2>2, OtherGot
<1>6. CASE Owner[c] = a
  <2>1. Bears(Head(down[c]), a)
    BY <1>1, <1>2, <1>6 DEF m, Bears
  <2>2. Places(down', a) = {} /\ Places(up, a) = {} /\ Handling(a) = {}
    BY <1>0, <1>1, <2>1, DownTaken
  <2>3. Places(up', a) = {} /\ Handling(a)' = {}
    BY <1>3, <2>2 DEF Handling
  <2> QED BY <2>2, <2>3 DEF OneTurn, Waited, AtMostOne
<1> QED BY <1>5, <1>6

LEMMA GetCandidateTurn ==
    ASSUME RelayIInv, NEW s \in Socket, GetCandidate(s), NEW a \in Account, OneTurn(a), Waited(a)
    PROVE  OneTurn(a)' /\ Waited(a)'
<1>1. Gets(s, "IceCandidate") /\ ~Bears(Head(down[s]), a)
  BY DEF GetCandidate, Gets, Bears
<1> QED BY <1>1, OtherGot DEF GetCandidate

\* A click adds the place of the offer.
LEMMA ClickedPlaces ==
    ASSUME RelayIInv, NEW c \in Client, ClickConnect(c), NEW a \in Account
    PROVE  \A x \in Places(up', a) :
             x \in Places(up, a) \/ (Owner[c] = a /\ x = <<c, Len(up[c]) + 1>>)
<1> DEFINE n == <<c, offered[c] + 1>>
           m1 == Msg("Offer", Owner[c], n, None)
           m2 == Msg("IceCandidate", Owner[c], n, None)
<1>1. /\ c \in Socket /\ up \in [Socket -> Seq(Message)] /\ up[c] \in Seq(Message)
      /\ n \in Offers /\ Owner[c] \in Account
  BY DEF RelayIInv, AuditTypeOK, TypeOK, Offers, Socket
<1>2. m1 \in Message /\ m2 \in Message
  BY <1>1 DEF Msg, Message
<1>3. m1.ev = "Offer" /\ m1.client = Owner[c] /\ ~Bears(m2, a)
  BY DEF Msg, Bears
<1>4. up' = [up EXCEPT ![c] = @ \o <<m1, m2>>]
  BY DEF ClickConnect
<1> HIDE DEF n, m1, m2
<1>5. Append(up[c], m1) \in Seq(Message)
  BY <1>1, <1>2, AppendProperties
<1>6. \A t \in Socket : up'[t] = IF t = c THEN Append(Append(up[c], m1), m2) ELSE up[t]
  <2>1. up[c] \o <<m1, m2>> = Append(Append(up[c], m1), m2)
    BY <1>1, <1>2, ConcatAppend
  <2> QED BY <1>1, <1>4, <2>1
<1> DEFINE Q == [t \in Socket |-> IF t = c THEN Append(up[c], m1) ELSE up[t]]
<1>7. /\ Q \in [Socket -> Seq(Message)] /\ Q[c] = Append(up[c], m1)
      /\ \A t \in Socket : Q[t] = IF t = c THEN Append(up[c], m1) ELSE up[t]
  BY <1>1, <1>5
<1> HIDE DEF Q
<1>8. \A t \in Socket : up'[t] = IF t = c THEN Append(Q[c], m2) ELSE Q[t]
  BY <1>6, <1>7
<1>9. \A x \in Places(Q, a) :
        x \in Places(up, a) \/ (Bears(m1, a) /\ x = <<c, Len(up[c]) + 1>>)
  BY <1>1, <1>2, <1>7, AppendedTurn
<1>10. \A x \in Places(up', a) : x \in Places(Q, a)
  BY <1>1, <1>2, <1>3, <1>7, <1>8, AppendedTurn
<1> QED BY <1>3, <1>9, <1>10 DEF Bears

\* Nothing of an account is under way, so nothing bears its turn.
LEMMA NoTurn ==
    ASSUME NEW a, ~UnderWay(a)
    PROVE  Places(up, a) = {} /\ Places(down, a) = {} /\ Handling(a) = {}
<1>1. ASSUME NEW x \in Places(up, a) PROVE FALSE
  <2>1. PICK s, i : s \in Socket /\ i \in DOMAIN up[s] /\ Bears(up[s][i], a) /\ x = <<s, i>>
    BY PlacesDef
  <2>2. up[s][i] \in Items(up[s])
    BY <2>1 DEF Items
  <2> QED BY <2>1, <2>2 DEF UnderWay, Concerns, Bears
<1>2. ASSUME NEW x \in Places(down, a) PROVE FALSE
  <2>1. PICK s, i : s \in Socket /\ i \in DOMAIN down[s] /\ Bears(down[s][i], a) /\ x = <<s, i>>
    BY PlacesDef
  <2>2. down[s][i] \in Items(down[s])
    BY <2>1 DEF Items
  <2> QED BY <2>1, <2>2 DEF UnderWay, Concerns, Bears
<1>3. Handling(a) = {}
  BY DEF UnderWay, Handling
<1> QED BY <1>1, <1>2, <1>3

LEMMA ClickTurn ==
    ASSUME RelayIInv, NEW c \in Client, Clicks(c),
           NEW a \in Account \ hasty', OneTurn(a), Waited(a)
    PROVE  OneTurn(a)' /\ Waited(a)'
<1>1. ClickConnect(c) /\ UNCHANGED <<connections, down, work>> /\ c \in Socket
  BY DEF Clicks, ClickConnect, Socket
<1>2. \A x \in Places(up', a) :
        x \in Places(up, a) \/ (Owner[c] = a /\ x = <<c, Len(up[c]) + 1>>)
  BY <1>1, ClickedPlaces
<1>3. CASE Owner[c] = a
  <2>1. ~UnderWay(a)
    BY <1>3 DEF Clicks
  <2>2. Places(up, a) = {} /\ Places(down, a) = {} /\ Handling(a) = {}
    BY <2>1, NoTurn
  <2>3. Places(down', a) = {} /\ Handling(a)' = {}
    BY <1>1, <2>2 DEF Handling
  <2>4. Waits(c)'
    <3>1. offered[c] \in Nat /\ offered'[c] = offered[c] + 1 /\ answer'[c] = None
      BY <1>1 DEF RelayIInv, AuditTypeOK, TypeOK, ClickConnect
    <3> QED BY <3>1 DEF Waits
  <2>5. \A x \in Places(up', a) : x = <<c, Len(up[c]) + 1>>
    BY <1>2, <2>2
  <2>6. OneTurn(a)'
    BY <2>3, <2>5 DEF OneTurn, AtMostOne
  <2>7. Waited(a)'
    BY <2>3, <2>4, <2>5 DEF Waited
  <2> QED BY <2>6, <2>7
<1>4. CASE Owner[c] # a
  <2>1. Places(up', a) \subseteq Places(up, a)
    BY <1>2, <1>4
  <2>2. AtMostOne(Places(up', a)) /\ AtMostOne(Places(down', a))
    BY <1>1, <2>1 DEF OneTurn, AtMostOne
  <2>3. AtMostOne(Handling(a)') /\ (Handling(a)' # {} => Handling(a) # {})
    BY <1>1, LessHandling DEF OneTurn
  <2>4. \A b \in Client : Owner[b] = a => answer'[b] = answer[b] /\ offered'[b] = offered[b]
    BY <1>1, <1>4 DEF ClickConnect, RelayIInv, AuditTypeOK, TypeOK
  <2>5. \A x \in Places(down', a) : \E y \in Places(down, a) : y[1] = x[1]
    BY <1>1
  <2>6. \A x \in Places(up', a) : \E y \in Places(up, a) : y[1] = x[1]
    BY <2>1
  <2>7. connections'[a] = connections[a]
    BY <1>1
  <2> QED BY <2>2, <2>3, <2>4, <2>5, <2>6, <2>7, SameTurn
<1> QED BY <1>3, <1>4

LEMMA GetOfferTurn ==
    ASSUME RelayIInv, NEW e \in Emulator, GetOffer(e), NEW a \in Account, OneTurn(a), Waited(a)
    PROVE  OneTurn(a)' /\ Waited(a)'
<1> DEFINE m == Head(down[e])
           h == [at |-> "create", client |-> m.client, offer |-> m.offer, sdp |-> None]
<1>1. /\ e \in Socket /\ TypeOK /\ Gets(e, "Offer")
      /\ m \in Items(down[e]) /\ m.ev = "Offer"
  BY GetsFacts DEF RelayIInv, AuditTypeOK, GetOffer, Socket
<1>2. /\ UNCHANGED <<connections, up, offered, answer>>
      /\ work' = [work EXCEPT ![e] = @ \cup {h}]
  BY DEF GetOffer
<1>3. \A f \in Emulator : work'[f] = IF f = e THEN work[e] \cup {h} ELSE work[f]
  BY <1>1, <1>2 DEF TypeOK
<1>4. h.client = m.client
  OBVIOUS
<1> HIDE DEF m, h
<1>5. CASE m.client # a
  <2>1. ~Bears(Head(down[e]), a)
    BY <1>5 DEF m, Bears
  <2>2. \A f \in Emulator : \A w \in work'[f] : w \in work[f] \/ w.client # a
    BY <1>3, <1>4, <1>5
  <2>3. connections'[a] = connections[a] /\ UNCHANGED <<up, offered, answer>>
    BY <1>2
  <2> QED BY <1>1, <2>1, <2>2, <2>3, OtherGot
<1>6. CASE m.client = a
  <2>1. Bears(Head(down[e]), a)
    BY <1>1, <1>6 DEF m, Bears
  <2>2. /\ <<e, 1>> \in Places(down, a) /\ Places(down', a) = {}
        /\ Places(up, a) = {} /\ Handling(a) = {}
    BY <1>1, <2>1, DownTaken
  <2>3. Waits(connections[a])
    BY <2>2 DEF Waited
  <2>4. Places(up', a) = {} /\ Waits(connections[a])'
    BY <1>2, <2>2, <2>3 DEF Waits
  <2>5. \A x \in Handling(a)' : x = <<e, h>>
    BY <1>3, <2>2 DEF Handling
  <2>6. OneTurn(a)'
    BY <2>2, <2>4, <2>5 DEF OneTurn, AtMostOne
  <2>7. Waited(a)'
    BY <2>2, <2>4 DEF Waited
  <2> QED BY <2>6, <2>7
<1> QED BY <1>5, <1>6

\* A handler that goes on, or ends, is still the only one of its account.
LEMMA MovedHandling ==
    ASSUME TypeOK, NEW e \in Emulator, NEW w \in work[e], NEW W, Moves(e, w, W), AtMostOne(W),
           \A v \in W : v.at = "gather" \/ (w.at # "gather" /\ v.client = w.client),
           NEW a, AtMostOne(Handling(a))
    PROVE  AtMostOne(Handling(a)') /\ (Handling(a)' # {} => Handling(a) # {})
<1>1. \A f \in Emulator : work'[f] = IF f = e THEN (work[e] \ {w}) \cup W ELSE work[f]
  BY DEF TypeOK, Moves
<1>2. ASSUME NEW x \in Handling(a)'
      PROVE  \/ x \in Handling(a) /\ x # <<e, w>>
             \/ <<e, w>> \in Handling(a) /\ \E v \in W : x = <<e, v>>
  <2>1. PICK f, v : /\ f \in Emulator /\ v \in work'[f] /\ v.at # "gather" /\ v.client = a
                    /\ x = <<f, v>>
    BY DEF Handling
  <2>2. CASE f = e /\ v \in W
    <3>1. <<e, w>> \in Handling(a)
      BY <2>1, <2>2 DEF Handling
    <3> QED BY <2>1, <2>2, <3>1
  <2>3. CASE v \in work[f] /\ ~(f = e /\ v = w)
    BY <2>1, <2>3 DEF Handling
  <2> QED BY <1>1, <2>1, <2>2, <2>3
<1>3. ASSUME NEW x \in Handling(a)', NEW y \in Handling(a)' PROVE x = y
  BY <1>2 DEF AtMostOne
<1> QED BY <1>2, <1>3 DEF AtMostOne

LEMMA PeerTurn ==
    ASSUME RelayIInv, NEW e \in Emulator, NEW w \in work[e],
           CreatePeer(e, w) \/ SetRemote(e, w) \/ CreateAnswer(e, w) \/ Gather(e, w),
           NEW a \in Account, OneTurn(a), Waited(a)
    PROVE  OneTurn(a)' /\ Waited(a)'
<1>1. TypeOK /\ e \in Socket /\ w \in Handler
  BY DEF RelayIInv, AuditTypeOK, TypeOK, Socket
<1>2. UNCHANGED <<connections, down, offered, answer>>
  BY DEF CreatePeer, SetRemote, CreateAnswer, Gather
<1>3. PICK W : /\ Moves(e, w, W) /\ AtMostOne(W)
               /\ \A v \in W : v.at = "gather" \/ (w.at # "gather" /\ v.client = w.client)
  <2>1. CASE CreatePeer(e, w)
    <3> DEFINE v == [w EXCEPT !.at = "remote"]
    <3>1. v.client = w.client
      BY <1>1 DEF Handler
    <3>2. w.at # "gather" /\ (Moves(e, w, {v}))
      BY <2>1 DEF CreatePeer
    <3> HIDE DEF v
    <3> QED BY <3>1, <3>2 DEF AtMostOne
  <2>2. CASE SetRemote(e, w)
    <3> DEFINE v == [w EXCEPT !.at = "answer"]
    <3>1. v.client = w.client
      BY <1>1 DEF Handler
    <3>2. w.at # "gather" /\ (Moves(e, w, {v}))
      BY <2>2 DEF SetRemote
    <3> HIDE DEF v
    <3> QED BY <3>1, <3>2 DEF AtMostOne
  <2>3. CASE CreateAnswer(e, w)
    <3> DEFINE v == [w EXCEPT !.at = "local", !.sdp = peer[e].remote]
    <3>1. v.client = w.client
      BY <1>1 DEF Handler
    <3>2. w.at # "gather" /\ (Moves(e, w, {v}) \/ Moves(e, w, {}))
      BY <2>3 DEF CreateAnswer
    <3> HIDE DEF v
    <3> QED BY <3>1, <3>2 DEF AtMostOne
  <2>4. CASE Gather(e, w)
    <3>1. w.at = "gather" /\ \E W : W \subseteq {w} /\ Moves(e, w, W)
      BY <2>4 DEF Gather
    <3> QED BY <3>1 DEF AtMostOne
  <2> QED BY <2>1, <2>2, <2>3, <2>4
<1>4. AtMostOne(Handling(a)') /\ (Handling(a)' # {} => Handling(a) # {})
  BY <1>1, <1>3, MovedHandling DEF OneTurn
<1>5. \A x \in Places(up', a) : x \in Places(up, a)
  <2>1. CASE up' = up
    BY <2>1
  <2>2. CASE Gather(e, w)
    <3> DEFINE n == Msg("IceCandidate", w.client, w.sdp, e)
    <3>1. n \in Message /\ ~Bears(n, a) /\ Send(e, n)
      BY <1>1, <2>2 DEF Gather, Msg, Message, Handler, Bears
    <3> HIDE DEF n
    <3> QED BY <1>1, <3>1, SentTurn
  <2> QED BY <2>1, <2>2 DEF CreatePeer, SetRemote, CreateAnswer
<1>6. AtMostOne(Places(up', a)) /\ AtMostOne(Places(down', a))
  BY <1>2, <1>5 DEF OneTurn, AtMostOne
<1>7. /\ \A x \in Places(up', a) : \E y \in Places(up, a) : y[1] = x[1]
      /\ \A x \in Places(down', a) : \E y \in Places(down, a) : y[1] = x[1]
      /\ connections'[a] = connections[a]
      /\ \A c \in Client : Owner[c] = a => answer'[c] = answer[c] /\ offered'[c] = offered[c]
  BY <1>2, <1>5
<1> QED BY <1>4, <1>6, <1>7, SameTurn

LEMMA SendAnswerTurn ==
    ASSUME RelayIInv, NEW e \in Emulator, NEW w \in work[e], SendAnswer(e, w),
           NEW a \in Account, OneTurn(a), Waited(a)
    PROVE  OneTurn(a)' /\ Waited(a)'
<1> DEFINE n == Msg("Answer", w.client, w.sdp, e)
           v == [w EXCEPT !.at = "gather", !.client = Owner[peer[e].made[1]]]
<1>1. TypeOK /\ e \in Socket /\ e \notin Client /\ w \in Handler /\ w.at = "local"
  BY DEF RelayIInv, AuditTypeOK, TypeOK, Socket, SendAnswer
<1>2. UNCHANGED <<connections, down, offered, answer>>
  BY DEF SendAnswer
<1>3. n \in Message /\ n.ev = "Answer" /\ n.client = w.client /\ v.at = "gather"
  BY <1>1 DEF Msg, Message, Handler
<1>4. (Moves(e, w, {}) /\ up' = up) \/ (Moves(e, w, {v}) /\ Send(e, n))
  BY DEF SendAnswer
<1> HIDE DEF n, v
<1>5. /\ connections'[a] = connections[a] /\ Places(down', a) = Places(down, a)
      /\ \A c \in Client : Owner[c] = a => answer'[c] = answer[c] /\ offered'[c] = offered[c]
      /\ \A x \in Places(down', a) : \E y \in Places(down, a) : y[1] = x[1]
  BY <1>2
<1>6. AtMostOne(Handling(a)') /\ (Handling(a)' # {} => Handling(a) # {})
  <2>1. AtMostOne({}) /\ AtMostOne({v})
    BY DEF AtMostOne
  <2> QED BY <1>1, <1>3, <1>4, <2>1, MovedHandling DEF OneTurn
<1>7. \A x \in Places(up', a) : x \in Places(up, a) \/ (w.client = a /\ x = <<e, Len(up[e]) + 1>>)
  <2>1. CASE up' = up
    BY <2>1
  <2>2. CASE Send(e, n)
    BY <1>1, <1>3, <2>2, SentTurn DEF Bears
  <2> QED BY <1>4, <2>1, <2>2
<1>8. CASE \A x \in Places(up', a) : x \in Places(up, a)
  <2>1. AtMostOne(Places(up', a)) /\ AtMostOne(Places(down', a))
    BY <1>5, <1>8 DEF OneTurn, AtMostOne
  <2> QED BY <1>5, <1>6, <1>8, <2>1, SameTurn
<1>9. CASE w.client = a /\ Moves(e, w, {v})
  <2>1. <<e, w>> \in Handling(a)
    BY <1>1, <1>9 DEF Handling
  <2>2. Places(up, a) = {} /\ Places(down, a) = {} /\ Waits(connections[a])
    BY <2>1 DEF OneTurn, Waited
  <2>3. \A f \in Emulator : work'[f] = IF f = e THEN (work[e] \ {w}) \cup {v} ELSE work[f]
    BY <1>1, <1>9 DEF TypeOK, Moves
  <2>4. ASSUME NEW x \in Handling(a)' PROVE FALSE
    <3>1. PICK f, u : /\ f \in Emulator /\ u \in work'[f] /\ u.at # "gather" /\ u.client = a
                      /\ x = <<f, u>>
      BY <2>4 DEF Handling
    <3>2. u \in work[f] /\ ~(f = e /\ u = w)
      BY <1>3, <2>3, <3>1
    <3>3. <<f, u>> \in Handling(a)
      BY <3>1, <3>2 DEF Handling
    <3>4. <<f, u>> = <<e, w>>
      BY <2>1, <3>3 DEF OneTurn, AtMostOne
    <3> QED BY <3>2, <3>4
  <2>5. \A x \in Places(up', a) : x = <<e, Len(up[e]) + 1>>
    BY <1>7, <2>2
  <2>6. Places(down', a) = {} /\ Handling(a)' = {} /\ Waits(connections[a])'
    BY <1>2, <2>2, <2>4 DEF Waits
  <2>7. OneTurn(a)'
    BY <2>5, <2>6 DEF OneTurn, AtMostOne
  <2>8. Waited(a)'
    BY <1>1, <2>5, <2>6 DEF Waited
  <2> QED BY <2>7, <2>8
<1> QED BY <1>4, <1>7, <1>8, <1>9

LEMMA StreamsTurn ==
    ASSUME RelayIInv, NEW e \in Emulator, ClickStream(e), NEW a \in Account, OneTurn(a), Waited(a)
    PROVE  OneTurn(a)' /\ Waited(a)'
<1> DEFINE n == Msg("StartStreaming", None, None, e)
<1>1. TypeOK /\ e \in Socket /\ n \in Message /\ ~Bears(n, a) /\ Send(e, n)
  BY DEF RelayIInv, AuditTypeOK, ClickStream, Socket, Msg, Message, Bears
<1> HIDE DEF n
<1>2. \A x \in Places(up', a) : x \in Places(up, a)
  BY <1>1, SentTurn
<1>3. UNCHANGED <<connections, down, offered, answer, work>>
  BY DEF ClickStream
<1>4. AtMostOne(Places(up', a)) /\ AtMostOne(Places(down', a))
  BY <1>2, <1>3 DEF OneTurn, AtMostOne
<1>5. AtMostOne(Handling(a)') /\ (Handling(a)' # {} => Handling(a) # {})
  BY <1>3, LessHandling DEF OneTurn
<1>6. /\ \A x \in Places(up', a) : \E y \in Places(up, a) : y[1] = x[1]
      /\ \A x \in Places(down', a) : \E y \in Places(down, a) : y[1] = x[1]
      /\ connections'[a] = connections[a]
      /\ \A c \in Client : Owner[c] = a => answer'[c] = answer[c] /\ offered'[c] = offered[c]
  BY <1>2, <1>3
<1> QED BY <1>4, <1>5, <1>6, SameTurn

-----------------------------------------------------------------------------
(* A page that is not open *)

LEMMA UnopenedStep ==
    ASSUME RelayIInv, Unopened, AuditNext
    PROVE  Unopened'
<1> SUFFICES ASSUME NEW c \in Client, sock'[c] = "new"
             PROVE  up'[c] = << >> /\ connections'[Owner[c]] # c
  BY DEF Unopened
<1>0. /\ TypeOK /\ c \in Socket /\ c \notin Emulator /\ Owner[c] \in Account
      /\ Client \subseteq Socket /\ Emulator \subseteq Socket
  BY DEF RelayIInv, AuditTypeOK, Socket
<1>1. CASE \E s \in Socket : Comes(s)
  BY <1>0, <1>1 DEF Comes, Open, Close, Unopened, TypeOK
<1>2. CASE \E s \in Socket : Handles(s)
  <2>1. PICK s \in Socket : Handle(s)
    BY <1>2 DEF Handles
  <2>2. PICK ev : Takes(s, ev)
    BY <2>1 DEF Handle, StartStreaming, Offer, Answer, IceCandidate
  <2>3. up[s] # << >> /\ up'[c] = IF c = s THEN Tail(up[s]) ELSE up[c]
    BY <1>0, <2>2 DEF Takes, TypeOK
  <2>4. sock[c] = "new"
    BY <2>1 DEF Handle, StartStreaming, Offer, Answer, IceCandidate
  <2>5. s # c /\ up[c] = << >> /\ connections[Owner[c]] # c
    BY <2>3, <2>4 DEF Unopened
  <2>6. connections'[Owner[c]] # c
    BY <1>0, <2>1, <2>5 DEF Handle, StartStreaming, Offer, Answer, IceCandidate, TypeOK
  <2> QED BY <2>3, <2>5, <2>6
<1>3. CASE \E s \in Socket : Delivers(s)
  BY <1>3 DEF Delivers, GetCandidate, GetAnswer, Unopened
<1>4. CASE \E d \in Client : Clicks(d)
  BY <1>0, <1>4 DEF Clicks, ClickConnect, Unopened, TypeOK
<1>5. CASE \E e \in Emulator : Streams(e)
  BY <1>0, <1>5 DEF Streams, ClickStream, Send, Unopened, TypeOK
<1>6. CASE \E e \in Emulator : Begins(e)
  BY <1>6 DEF Begins, GetOffer, Unopened
<1>7. CASE \E e \in Emulator : \E w \in work[e] : Steps(e, w)
  <2>1. PICK e \in Emulator : \E w \in work[e] : Works(e, w)
    BY <1>7 DEF Steps
  <2>2. UNCHANGED <<sock, connections>>
    BY <2>1 DEF Works, CreatePeer, SetRemote, CreateAnswer, SendAnswer, Gather
  <2>3. up'[c] = up[c]
    BY <1>0, <2>1 DEF Works, CreatePeer, SetRemote, CreateAnswer, SendAnswer, Gather, Send, TypeOK
  <2> QED BY <2>2, <2>3 DEF Unopened
<1> QED BY <1>1, <1>2, <1>3, <1>4, <1>5, <1>6, <1>7 DEF AuditNext

-----------------------------------------------------------------------------
(* Answers and candidates of one page, in the queues *)

LEMMA HoldsPlaces ==
    ASSUME NEW Q, NEW s \in Socket, NEW a, NEW e, Holds(Q[s], a, e)
    PROVE  Places(Q, a) # {}
<1>1. PICK i \in DOMAIN Q[s] : Replies(Q[s][i], a, e)
  BY DEF Holds, Items
<1>2. <<s, i>> \in Places(Q, a)
  BY <1>1, PlacesDef DEF Replies, Bears
<1> QED BY <1>2

\* A first message that is no answer for a leaves the order and the answers.
LEMMA FirstOrder ==
    ASSUME NEW Q, NEW R, NEW s, FirstTaken(Q, R, s), NEW a, NEW e, ~Replies(Q[s][1], a, e),
           NEW t \in Socket, NEW N, Ordered(Q[t], a, e, N)
    PROVE  Ordered(R[t], a, e, N) /\ (Holds(Q[t], a, e) => Holds(R[t], a, e))
<1>1. CASE t = s
  <2>1. Ordered(R[s], a, e, N)
    BY <1>1, OrderedTail
  <2>2. ASSUME Holds(Q[s], a, e) PROVE Holds(R[s], a, e)
    <3>1. PICK j \in DOMAIN Q[s] : Replies(Q[s][j], a, e)
      BY <2>2 DEF Holds, Items
    <3>2. j # 1
      BY <3>1
    <3>3. j - 1 \in DOMAIN R[s] /\ R[s][j - 1] = Q[s][j]
      BY <3>2 DEF FirstTaken
    <3>4. Q[s][j] \in Items(R[s])
      BY <3>3 DEF Items
    <3> QED BY <3>1, <3>4 DEF Holds
  <2> QED BY <1>1, <2>1, <2>2
<1>2. CASE t # s
  BY <1>2 DEF FirstTaken
<1> QED BY <1>1, <1>2

LEMMA TakenOrder ==
    ASSUME TypeOK, NEW s \in Socket, NEW ev, Takes(s, ev), NEW a, NEW e,
           ~Replies(Head(up[s]), a, e), NEW t \in Socket, NEW N, Ordered(up[t], a, e, N)
    PROVE  Ordered(up'[t], a, e, N) /\ (Holds(up[t], a, e) => Holds(up'[t], a, e))
<1>1. FirstTaken(up, up', s) /\ ~Replies(up[s][1], a, e)
  BY TakesFirst
<1> QED BY <1>1, FirstOrder

LEMMA GotOrder ==
    ASSUME TypeOK, NEW s \in Socket, NEW ev, Gets(s, ev), NEW a, NEW e,
           ~Replies(Head(down[s]), a, e), NEW t \in Socket, NEW N, Ordered(down[t], a, e, N)
    PROVE  Ordered(down'[t], a, e, N) /\ (Holds(down[t], a, e) => Holds(down'[t], a, e))
<1>1. FirstTaken(down, down', s) /\ ~Replies(down[s][1], a, e)
  BY GetsFirst
<1> QED BY <1>1, FirstOrder

\* An appended candidate keeps the order if the answer is there, or known.
LEMMA AppendedOrder ==
    ASSUME NEW q \in Seq(Message), NEW m \in Message, NEW a, NEW e, NEW N,
           Ordered(q, a, e, N), Gathered(m, a, e) => m.offer \in N \/ Holds(q, a, e)
    PROVE  /\ Ordered(Append(q, m), a, e, N)
           /\ Holds(q, a, e) \/ Replies(m, a, e) => Holds(Append(q, m), a, e)
<1>1. Ordered(Append(q, m), a, e, N)
  BY OrderedAppend
<1>2. Items(Append(q, m)) = Items(q) \cup {m}
  BY AppendItems
<1> QED BY <1>1, <1>2 DEF Holds

LEMMA EmittedOrder ==
    ASSUME TypeOK, NEW t \in Socket \cup {None}, NEW m \in Message, Emit(t, m),
           NEW c \in Socket, NEW a, NEW e, NEW N, Ordered(down[c], a, e, N),
           c = t /\ sock[c] = "open" /\ Gathered(m, a, e) =>
             m.offer \in N \/ Holds(down[c], a, e)
    PROVE  /\ Ordered(down'[c], a, e, N)
           /\ Holds(down[c], a, e) => Holds(down'[c], a, e)
           /\ c = t /\ sock[c] = "open" /\ Replies(m, a, e) => Holds(down'[c], a, e)
<1>0. None \notin Socket
  BY DEF Socket
<1>1. CASE c = t /\ sock[c] = "open"
  <2>1. down[c] \in Seq(Message) /\ down'[c] = Append(down[c], m)
    BY <1>0, <1>1 DEF Emit, TypeOK
  <2>2. Gathered(m, a, e) => m.offer \in N \/ Holds(down[c], a, e)
    BY <1>1
  <2>3. /\ Ordered(Append(down[c], m), a, e, N)
        /\ Holds(down[c], a, e) \/ Replies(m, a, e) => Holds(Append(down[c], m), a, e)
    BY <2>1, <2>2, AppendedOrder
  <2> QED BY <2>1, <2>3
<1>2. CASE ~(c = t /\ sock[c] = "open")
  <2>1. down'[c] = down[c]
    BY <1>2 DEF Emit, TypeOK
  <2> QED BY <1>2, <2>1
<1> QED BY <1>1, <1>2

LEMMA SentOrder ==
    ASSUME TypeOK, NEW s \in Socket, NEW m \in Message, Send(s, m),
           NEW c \in Socket, NEW a, NEW e, NEW N, Ordered(up[c], a, e, N),
           c = s /\ Gathered(m, a, e) => m.offer \in N \/ Holds(up[c], a, e)
    PROVE  /\ Ordered(up'[c], a, e, N)
           /\ Holds(up[c], a, e) => Holds(up'[c], a, e)
           /\ c = s /\ Replies(m, a, e) => Holds(up'[c], a, e)
<1>1. CASE c = s
  <2>1. up[c] \in Seq(Message) /\ up'[c] = Append(up[c], m)
    BY <1>1 DEF Send, TypeOK
  <2>2. Gathered(m, a, e) => m.offer \in N \/ Holds(up[c], a, e)
    BY <1>1
  <2>3. /\ Ordered(Append(up[c], m), a, e, N)
        /\ Holds(up[c], a, e) \/ Replies(m, a, e) => Holds(Append(up[c], m), a, e)
    BY <2>1, <2>2, AppendedOrder
  <2> QED BY <2>1, <2>3
<1>2. CASE c # s
  <2>1. up'[c] = up[c]
    BY <1>2 DEF Send, TypeOK
  <2> QED BY <1>2, <2>1
<1> QED BY <1>1, <1>2

-----------------------------------------------------------------------------
(* Follows through each step *)

\* Follows is about the pages of a.
LEMMA OwnFollows ==
    ASSUME RelayIInv', NEW a \in Account, NEW e \in Emulator,
           \A c \in Client : Owner[c] = a =>
             /\ Ordered(down'[c], a, e, Given(c)')
             /\ connections'[a] = c /\ sock'[c] = "open" =>
                  /\ Ordered(up'[e], a, e, Known(c, a, e)')
                  /\ \A w \in work'[e] : w.at = "gather" /\ w.client = a =>
                       w.sdp \in Known(c, a, e)' \/ Holds(up'[e], a, e)
    PROVE  Follows(a, e)'
<1>1. ASSUME NEW c \in Client, Owner[c] # a
      PROVE  Ordered(down'[c], a, e, Given(c)') /\ connections'[a] # c
  <2>1. \A m \in Items(down'[c]) : m.client = Owner[c]
    BY DEF RelayIInv, Addressed, ToClient
  <2>2. connections'[a] # c
    BY <1>1 DEF RelayIInv, Addressed, Socket
  <2>3. \A m \in Items(down'[c]) : Gathered(m, a, e) => m.offer \in Given(c)'
    BY <1>1, <2>1 DEF Gathered
  <2> QED BY <2>2, <2>3, OrderedMore
<1> QED BY <1>1 DEF Follows

\* A step that gives no answer away and adds nothing out of order.
LEMMA KeptFollows ==
    ASSUME RelayIInv', NEW a \in Account, NEW e \in Emulator,
           \A c \in Client : Owner[c] = a =>
             answer'[c] = answer[c] /\ Ordered(down'[c], a, e, Given(c)),
           \A c \in Client : Owner[c] = a /\ connections'[a] = c /\ sock'[c] = "open" =>
             /\ Holds(down[c], a, e) => Holds(down'[c], a, e)
             /\ Ordered(up'[e], a, e, Known(c, a, e))
             /\ \A w \in work'[e] : w.at = "gather" /\ w.client = a =>
                  w.sdp \in Known(c, a, e) \/ Holds(up'[e], a, e)
    PROVE  Follows(a, e)'
<1>1. ASSUME NEW c \in Client, Owner[c] = a PROVE Given(c)' = Given(c)
  BY <1>1 DEF Given
<1>2. ASSUME NEW c \in Client, Owner[c] = a, connections'[a] = c, sock'[c] = "open"
      PROVE  /\ Ordered(up'[e], a, e, Known(c, a, e)')
             /\ \A w \in work'[e] : w.at = "gather" /\ w.client = a =>
                  w.sdp \in Known(c, a, e)' \/ Holds(up'[e], a, e)
  <2>1. Known(c, a, e) \subseteq Known(c, a, e)'
    BY <1>1, <1>2 DEF Known
  <2>2. Ordered(up'[e], a, e, Known(c, a, e)')
    BY <1>2, <2>1, OrderedMore
  <2> QED BY <1>2, <2>1, <2>2
<1> QED BY <1>1, <1>2, OwnFollows

LEMMA OpenFollows ==
    ASSUME RelayIInv, RelayIInv', NEW s \in Socket, Open(s), Unopened,
           NEW a \in Account, NEW e \in Emulator, Follows(a, e)
    PROVE  Follows(a, e)'
<1>1. UNCHANGED <<connections, up, down, answer, work>>
  BY DEF Open
<1>2. \A c \in Client : connections[a] = c /\ sock'[c] = "open" => sock[c] = "open"
  <2>1. SUFFICES ASSUME NEW c \in Client, connections[a] = c, sock'[c] = "open", sock[c] # "open"
                 PROVE  FALSE
    OBVIOUS
  <2>2. c \in Socket /\ Owner[c] = a
    BY <2>1 DEF RelayIInv, Addressed, Socket
  <2>3. sock[c] = "new"
    BY <2>1, <2>2 DEF Open, RelayIInv, AuditTypeOK, TypeOK
  <2> QED BY <2>1, <2>2, <2>3 DEF Unopened
<1> QED BY <1>1, <1>2, KeptFollows DEF Follows

LEMMA CloseFollows ==
    ASSUME RelayIInv, RelayIInv', NEW s \in Socket, Close(s),
           NEW a \in Account, NEW e \in Emulator, Follows(a, e)
    PROVE  Follows(a, e)'
<1>1. /\ UNCHANGED <<connections, answer>>
      /\ \A c \in Socket : sock'[c] = "open" => c # s /\ sock[c] = "open"
      /\ \A c \in Socket : up'[c] = IF c = s THEN << >> ELSE up[c]
      /\ \A c \in Socket : down'[c] = IF c = s THEN << >> ELSE down[c]
      /\ work'[e] = IF e = s THEN {} ELSE work[e]
  BY DEF Close, RelayIInv, AuditTypeOK, TypeOK
<1>2. \A N : Ordered(<< >>, a, e, N)
  BY DEF Ordered
<1>3. Client \subseteq Socket /\ e \in Socket
  BY DEF Socket
<1>4. \A c \in Client : Ordered(down'[c], a, e, Given(c))
  BY <1>1, <1>2, <1>3 DEF Follows
<1>5. ASSUME NEW c \in Client, connections'[a] = c, sock'[c] = "open"
      PROVE  /\ Holds(down[c], a, e) => Holds(down'[c], a, e)
             /\ Ordered(up'[e], a, e, Known(c, a, e))
             /\ \A w \in work'[e] : w.at = "gather" /\ w.client = a =>
                  w.sdp \in Known(c, a, e) \/ Holds(up'[e], a, e)
  <2>1. connections[a] = c /\ sock[c] = "open" /\ down'[c] = down[c]
    BY <1>1, <1>3, <1>5
  <2>2. /\ Ordered(up[e], a, e, Known(c, a, e))
        /\ \A w \in work[e] : w.at = "gather" /\ w.client = a =>
                  w.sdp \in Known(c, a, e) \/ Holds(up[e], a, e)
    BY <2>1 DEF Follows
  <2>3. CASE e = s
    BY <1>1, <1>2, <1>3, <2>1, <2>3
  <2>4. CASE e # s
    BY <1>1, <1>3, <2>1, <2>2, <2>4
  <2> QED BY <2>3, <2>4
<1> QED BY <1>1, <1>4, <1>5, KeptFollows

\* What the server does with a message that is no answer of e to a, when the
\* map keeps a's page.
LEMMA ServedFollows ==
    ASSUME RelayIInv, RelayIInv', NEW s \in Socket, NEW ev, Takes(s, ev),
           NEW a \in Account, NEW e \in Emulator, Follows(a, e),
           ~Replies(Head(up[s]), a, e),
           NEW t \in Socket \cup {None}, Emit(t, Head(up[s])) \/ down' = down,
           Gathered(Head(up[s]), a, e) => s = e /\ t = connections[a],
           connections'[a] = connections[a], UNCHANGED <<sock, answer, work>>
    PROVE  Follows(a, e)'
<1>0. /\ TypeOK /\ Head(up[s]) \in Message /\ Client \subseteq Socket /\ e \in Socket
      /\ FirstTaken(up, up', s) /\ Head(up[s]) = up[s][1]
  BY TakesFacts, TakesFirst DEF RelayIInv, AuditTypeOK, Socket
<1>1. ASSUME NEW c \in Client, Owner[c] = a
      PROVE  Ordered(down'[c], a, e, Given(c)) /\ (Holds(down[c], a, e) => Holds(down'[c], a, e))
  <2>1. Ordered(down[c], a, e, Given(c))
    BY DEF Follows
  <2>2. CASE down' = down
    BY <2>1, <2>2
  <2>3. CASE Emit(t, Head(up[s]))
    <3>1. ASSUME c = t, sock[c] = "open", Gathered(Head(up[s]), a, e)
          PROVE  Head(up[s]).offer \in Given(c) \/ Holds(down[c], a, e)
      <4>1. s = e /\ connections[a] = c
        BY <3>1
      <4>2. Ordered(up[e], a, e, Known(c, a, e))
        BY <3>1, <4>1 DEF Follows
      <4>3. up[e] \in Seq(Message) /\ 1 \in DOMAIN up[e] /\ Gathered(up[e][1], a, e)
        BY <1>0, <3>1, <4>1 DEF TypeOK, FirstTaken
      <4>4. up[e][1].offer \in Known(c, a, e)
        BY <4>2, <4>3, OrderedHead
      <4> QED BY <1>0, <4>1, <4>4 DEF Known
    <3> QED BY <1>0, <2>1, <2>3, <3>1, EmittedOrder
  <2> QED BY <2>2, <2>3
<1>2. ASSUME NEW c \in Client, connections'[a] = c, sock'[c] = "open"
      PROVE  /\ Ordered(up'[e], a, e, Known(c, a, e))
             /\ \A w \in work'[e] : w.at = "gather" /\ w.client = a =>
                  w.sdp \in Known(c, a, e) \/ Holds(up'[e], a, e)
  <2>1. /\ Ordered(up[e], a, e, Known(c, a, e))
        /\ \A w \in work[e] : w.at = "gather" /\ w.client = a =>
                  w.sdp \in Known(c, a, e) \/ Holds(up[e], a, e)
    BY <1>2 DEF Follows
  <2>2. Ordered(up'[e], a, e, Known(c, a, e)) /\ (Holds(up[e], a, e) => Holds(up'[e], a, e))
    BY <1>0, <2>1, TakenOrder
  <2> QED BY <2>1, <2>2
<1> QED BY <1>1, <1>2, KeptFollows

LEMMA StreamingFollows ==
    ASSUME RelayIInv, RelayIInv', NEW s \in Socket, StartStreaming(s),
           NEW a \in Account, NEW e \in Emulator, Follows(a, e)
    PROVE  Follows(a, e)'
<1>1. /\ TypeOK /\ Takes(s, "StartStreaming") /\ Head(up[s]) \in Items(up[s])
      /\ Head(up[s]).ev = "StartStreaming"
  BY TakesFacts DEF RelayIInv, AuditTypeOK, StartStreaming
<1>2. s \in Emulator
  BY <1>1 DEF RelayIInv, Addressed, FromClient, Socket
<1>3. connections'[a] = connections[a] /\ UNCHANGED <<sock, answer, work, down>>
  BY <1>1, <1>2 DEF StartStreaming, TypeOK
<1>4. ~Replies(Head(up[s]), a, e) /\ ~Gathered(Head(up[s]), a, e)
  BY <1>1 DEF Replies, Gathered
<1> QED BY <1>1, <1>3, <1>4, ServedFollows

LEMMA CandidateFollows ==
    ASSUME RelayIInv, RelayIInv', NEW s \in Socket, IceCandidate(s),
           NEW a \in Account, NEW e \in Emulator, Follows(a, e)
    PROVE  Follows(a, e)'
<1> DEFINE m == Head(up[s])
           t == IF s \in Emulator THEN connections[m.client] ELSE connections[Target[s]]
<1>1. TypeOK /\ Takes(s, "IceCandidate") /\ m \in Items(up[s]) /\ m.ev = "IceCandidate"
  BY TakesFacts DEF RelayIInv, AuditTypeOK, IceCandidate
<1>2. UNCHANGED <<connections, sock, answer, work>> /\ Emit(t, m)
  BY DEF IceCandidate
<1>3. s \in Emulator => m.client \in Account /\ m.from = s
  BY <1>1 DEF RelayIInv, Addressed, FromEmulator
<1>4. s \notin Emulator => s \in Client /\ m.from = None
  BY <1>1 DEF RelayIInv, Addressed, FromClient, Socket
<1>5. t \in Socket \cup {None}
  BY <1>1, <1>3, <1>4 DEF TypeOK, Socket
<1>6. ~Replies(m, a, e)
  BY <1>1 DEF Replies
<1>7. Gathered(m, a, e) => s = e /\ t = connections[a]
  BY <1>3, <1>4 DEF Gathered, Socket
<1> QED BY <1>1, <1>2, <1>5, <1>6, <1>7, ServedFollows

LEMMA OfferFollows ==
    ASSUME RelayIInv, RelayIInv', NEW s \in Socket, Offer(s),
           NEW a \in Account \ hasty, NEW e \in Emulator \ shared, Follows(a, e)
    PROVE  Follows(a, e)'
<1> DEFINE m == Head(up[s])
<1>1. /\ TypeOK /\ Takes(s, "Offer") /\ m \in Message /\ m \in Items(up[s]) /\ m.ev = "Offer"
      /\ e \in Socket
  BY TakesFacts DEF RelayIInv, AuditTypeOK, Offer, Socket
<1>2. s \in Client /\ m.client = Owner[s] /\ m.from = None /\ s # e
  BY <1>1 DEF RelayIInv, Addressed, FromEmulator, FromClient, Socket
<1>3. UNCHANGED <<sock, answer, work>> /\ up'[e] = up[e]
  BY <1>1, <1>2 DEF Offer, Takes, TypeOK
<1>4. \A c \in Client : down'[c] = down[c]
  <2>1. connections[Target[s]] \notin Client
    BY <1>2 DEF RelayIInv, AuditTypeOK, TypeOK, Addressed, Socket
  <2>2. down' = down \/ Emit(connections[Target[s]], m)
    BY DEF Offer
  <2> QED BY <1>1, <2>1, <2>2 DEF Emit, TypeOK, Socket
<1>5. connections'[a] = connections[a] \/ (Owner[s] = a /\ connections'[a] = s)
  <2>1. \/ connections' = connections
        \/ connections' = [connections EXCEPT ![Owner[s]] = s]
    BY <1>2 DEF Offer
  <2> QED BY <1>1, <2>1 DEF TypeOK
<1> HIDE DEF m
<1>6. ASSUME NEW c \in Client, connections'[a] = c, sock'[c] = "open"
      PROVE  /\ Ordered(up[e], a, e, Known(c, a, e))
             /\ \A w \in work[e] : w.at = "gather" /\ w.client = a =>
                  w.sdp \in Known(c, a, e) \/ Holds(up[e], a, e)
  <2>1. CASE connections[a] = c
    BY <1>3, <1>6, <2>1 DEF Follows
  <2>2. CASE connections[a] # c
    <3>1. Owner[s] = a /\ c = s
      BY <1>5, <1>6, <2>2
    <3>2. PICK b \in Client : Only(a, b)
      BY <1>2, <3>1 DEF RelayIInv, OneOffer
    <3>3. Reach(a, m)
      BY <1>2, <3>1 DEF Reach, RelayIInv, AuditTypeOK, Socket
    <3>4. s = b
      BY <1>1, <3>2, <3>3 DEF Only
    <3>5. ASSUME NEW n \in Items(up[e]), n.client = a PROVE FALSE
      <4>1. Reach(a, n)
        BY <3>5 DEF RelayIInv, Addressed, FromEmulator, Reach
      <4> QED BY <1>1, <2>2, <3>1, <3>2, <3>4, <4>1 DEF Only
    <3>6. \A w \in work[e] : w.client # a
      BY <2>2, <3>1, <3>2, <3>4 DEF Only
    <3>7. \A n \in Items(up[e]) : ~Gathered(n, a, e)
      BY <3>5 DEF Gathered
    <3>8. Ordered(up[e], a, e, Known(c, a, e))
      BY <3>7, OrderedMore
    <3> QED BY <3>6, <3>8
  <2> QED BY <2>1, <2>2
<1>7. \A c \in Client : answer'[c] = answer[c] /\ Ordered(down'[c], a, e, Given(c))
  BY <1>3, <1>4 DEF Follows
<1> QED BY <1>3, <1>4, <1>6, <1>7, KeptFollows

LEMMA AnswerFollows ==
    ASSUME RelayIInv, RelayIInv', NEW s \in Socket, Answer(s),
           NEW a \in Account, NEW e \in Emulator, Follows(a, e)
    PROVE  Follows(a, e)'
<1> DEFINE m == Head(up[s])
           t == connections[m.client]
<1>1. /\ TypeOK /\ Takes(s, "Answer") /\ m \in Message /\ m \in Items(up[s]) /\ m.ev = "Answer"
      /\ Client \subseteq Socket
  BY TakesFacts DEF RelayIInv, AuditTypeOK, Answer, Socket
<1>2. s \in Emulator /\ m.client \in Account /\ m.from = s
  BY <1>1 DEF RelayIInv, Addressed, FromEmulator, FromClient, Socket
<1>3. UNCHANGED <<connections, sock, answer, work>> /\ Emit(t, m)
  BY DEF Answer
<1>4. t \in Socket \cup {None}
  BY <1>1, <1>2 DEF TypeOK
<1>5. ~Gathered(m, a, e)
  BY <1>1 DEF Gathered
<1>6. CASE ~Replies(m, a, e)
  BY <1>1, <1>3, <1>4, <1>5, <1>6, ServedFollows
<1>7. CASE Replies(m, a, e)
  <2>1. t = connections[a]
    BY <1>7 DEF Replies
  <2> HIDE DEF m, t
  <2>2. ASSUME NEW c \in Client, Owner[c] = a
        PROVE  Ordered(down'[c], a, e, Given(c)')
    <3>1. Ordered(down[c], a, e, Given(c)) /\ Given(c)' = Given(c)
      BY <1>3 DEF Follows, Given
    <3> QED BY <1>1, <1>3, <1>4, <1>5, <3>1, EmittedOrder
  <2>3. ASSUME NEW c \in Client, connections'[a] = c, sock'[c] = "open"
        PROVE  Offers \subseteq Known(c, a, e)'
    <3>1. c = t /\ sock[c] = "open"
      BY <1>3, <2>1, <2>3
    <3>2. Ordered(down[c], a, e, Given(c))
      BY DEF Follows
    <3>3. Holds(down'[c], a, e)
      BY <1>1, <1>3, <1>4, <1>5, <1>7, <3>1, <3>2, EmittedOrder
    <3> QED BY <3>3 DEF Known
  <2>4. \A n \in Items(up'[e]) : Gathered(n, a, e) => n.offer \in Offers
    BY DEF RelayIInv, Addressed, FromEmulator, Gathered
  <2>5. \A w \in work'[e] : w.at = "gather" => w.sdp \in Offers
    BY DEF RelayIInv, Pages, AuditTypeOK, TypeOK, Handler
  <2>6. ASSUME NEW c \in Client, connections'[a] = c, sock'[c] = "open"
        PROVE  Ordered(up'[e], a, e, Known(c, a, e)')
    <3>1. \A n \in Items(up'[e]) : Gathered(n, a, e) => n.offer \in Known(c, a, e)'
      BY <2>3, <2>4, <2>6
    <3> QED BY <3>1, OrderedMore
  <2> QED BY <2>2, <2>3, <2>5, <2>6, OwnFollows
<1> QED BY <1>6, <1>7

LEMMA GetCandidateFollows ==
    ASSUME RelayIInv, RelayIInv', NEW s \in Socket, GetCandidate(s),
           NEW a \in Account, NEW e \in Emulator, Follows(a, e)
    PROVE  Follows(a, e)'
<1>1. /\ TypeOK /\ Gets(s, "IceCandidate") /\ ~Replies(Head(down[s]), a, e)
      /\ UNCHANGED <<sock, connections, up, answer, work>> /\ Client \subseteq Socket
  BY DEF RelayIInv, AuditTypeOK, GetCandidate, Gets, Replies, Socket
<1>2. ASSUME NEW c \in Client
      PROVE  Ordered(down'[c], a, e, Given(c)) /\ (Holds(down[c], a, e) => Holds(down'[c], a, e))
  <2>1. Ordered(down[c], a, e, Given(c))
    BY DEF Follows
  <2> QED BY <1>1, <2>1, GotOrder
<1>3. ASSUME NEW c \in Client, connections'[a] = c, sock'[c] = "open"
      PROVE  /\ Ordered(up'[e], a, e, Known(c, a, e))
             /\ \A w \in work'[e] : w.at = "gather" /\ w.client = a =>
                  w.sdp \in Known(c, a, e) \/ Holds(up'[e], a, e)
  BY <1>1, <1>3 DEF Follows
<1> QED BY <1>1, <1>2, <1>3, KeptFollows

\* The answer that the page of a waits for is the only one, and to its offer.
LEMMA GetAnswerFollows ==
    ASSUME RelayIInv, RelayIInv', NEW c \in Client, GetAnswer(c),
           NEW a \in Account \ hasty, OneTurn(a), Waited(a),
           NEW e \in Emulator \ shared, Follows(a, e)
    PROVE  Follows(a, e)'
<1> DEFINE m == Head(down[c])
<1>1. /\ TypeOK /\ c \in Socket /\ Gets(c, "Answer") /\ m \in Items(down[c]) /\ m.ev = "Answer"
      /\ m \in Message /\ Client \subseteq Socket
  BY GetsFacts DEF RelayIInv, AuditTypeOK, GetAnswer, Socket
<1>2. m.client = Owner[c]
  BY <1>1 DEF RelayIInv, Addressed, ToClient
<1>3. UNCHANGED <<connections, sock, up, offered, work>>
  BY DEF GetAnswer
<1>4. \A b \in Client \ {c} : answer'[b] = answer[b] /\ down'[b] = down[b]
  BY <1>1 DEF GetAnswer, Gets, TypeOK
<1> HIDE DEF m
<1>5. CASE Owner[c] # a
  <2>1. \A b \in Client : Owner[b] = a => answer'[b] = answer[b] /\ down'[b] = down[b]
    BY <1>4, <1>5
  <2>2. \A b \in Client : Owner[b] = a => answer'[b] = answer[b] /\ Ordered(down'[b], a, e, Given(b))
    BY <2>1 DEF Follows
  <2>3. \A b \in Client : Owner[b] = a /\ connections'[a] = b /\ sock'[b] = "open" =>
             /\ Holds(down[b], a, e) => Holds(down'[b], a, e)
             /\ Ordered(up'[e], a, e, Known(b, a, e))
             /\ \A w \in work'[e] : w.at = "gather" /\ w.client = a =>
                  w.sdp \in Known(b, a, e) \/ Holds(up'[e], a, e)
    BY <1>3, <2>1 DEF Follows
  <2> QED BY <2>2, <2>3, KeptFollows
<1>6. CASE Owner[c] = a
  <2>1. Bears(Head(down[c]), a)
    BY <1>1, <1>2, <1>6 DEF m, Bears
  <2>2. <<c, 1>> \in Places(down, a) /\ Places(down', a) = {}
    BY <1>1, <2>1, DownTaken
  <2>3. connections[a] = c /\ Waits(c)
    BY <2>2 DEF Waited
  <2>4. answer'[c] = m
    BY <1>1, <2>3 DEF GetAnswer, TypeOK, Waits, m
  <2>5. Given(c) = {} /\ Given(c)' = {m.offer}
    <3>1. m # None /\ answer[c] = None
      BY <1>1, <2>3, MessageAssumption DEF Waits
    <3> QED BY <2>4, <3>1 DEF Given
  <2>6. m.offer \in Known(c, a, e)'
    BY <2>5 DEF Known
  <2>7. ASSUME NEW b \in Client, Owner[b] = a, b # c
        PROVE  Ordered(down'[b], a, e, Given(b)') /\ connections'[a] # b
    <3>1. Given(b)' = Given(b)
      BY <1>4, <2>7 DEF Given
    <3> QED BY <1>3, <1>4, <2>3, <2>7, <3>1 DEF Follows
  <2>8. CASE m.from = e
    <3>1. PICK b \in Client : Only(a, b)
      BY <1>6 DEF RelayIInv, OneOffer
    <3>2. m.offer = Current(b)
      BY <1>1, <1>2, <1>6, <2>8, <3>1 DEF Only, Reach
    <3>3. \A n \in Items(down'[c]) : Gathered(n, a, e) => n.offer \in Given(c)'
      <4>1. Items(down'[c]) \subseteq Items(down[c])
        BY <1>1, GetsFacts
      <4>2. \A n \in Items(down[c]) : Gathered(n, a, e) => n.offer = Current(b)
        BY <1>1, <3>1 DEF Only, Reach, Gathered
      <4> QED BY <2>5, <3>2, <4>1, <4>2
    <3>4. \A n \in Items(up'[e]) : Gathered(n, a, e) => n.offer \in Known(c, a, e)'
      <4>1. \A n \in Items(up[e]) : Gathered(n, a, e) => n.offer = Current(b)
        BY <3>1 DEF Only, Reach, Gathered, Socket
      <4> QED BY <1>3, <2>6, <3>2, <4>1
    <3>5. \A w \in work'[e] : w.at = "gather" /\ w.client = a => w.sdp \in Known(c, a, e)'
      <4>1. \A w \in work[e] : w.at = "gather" /\ w.client = a => w.sdp = Current(b)
        BY <3>1 DEF Only, RelayIInv, Steady
      <4> QED BY <1>3, <2>6, <3>2, <4>1
    <3>6. Ordered(down'[c], a, e, Given(c)') /\ Ordered(up'[e], a, e, Known(c, a, e)')
      BY <3>3, <3>4, OrderedMore
    <3> QED BY <2>7, <3>5, <3>6, OwnFollows
  <2>9. CASE m.from # e
    <3>1. ~Replies(Head(down[c]), a, e)
      BY <2>9 DEF m, Replies
    <3>2. Ordered(down[c], a, e, Given(c))
      BY DEF Follows
    <3>3. Ordered(down'[c], a, e, Given(c)) /\ (Holds(down[c], a, e) => Holds(down'[c], a, e))
      BY <1>1, <3>1, <3>2, GotOrder
    <3>4. ~Holds(down[c], a, e)
      BY <1>1, <2>2, <3>3, HoldsPlaces
    <3>5. Known(c, a, e) = {}
      BY <2>5, <3>4 DEF Known
    <3>6. Ordered(down'[c], a, e, Given(c)')
      BY <2>5, <3>3, OrderedMore
    <3>7. ASSUME sock'[c] = "open"
          PROVE  /\ Ordered(up'[e], a, e, Known(c, a, e)')
                 /\ \A w \in work'[e] : w.at = "gather" /\ w.client = a => Holds(up'[e], a, e)
      <4>1. /\ Ordered(up[e], a, e, Known(c, a, e))
            /\ \A w \in work[e] : w.at = "gather" /\ w.client = a =>
                 w.sdp \in Known(c, a, e) \/ Holds(up[e], a, e)
        BY <1>3, <2>3, <3>7 DEF Follows
      <4>2. Known(c, a, e) \subseteq Known(c, a, e)'
        BY <3>5
      <4>3. Ordered(up'[e], a, e, Known(c, a, e)')
        BY <1>3, <4>1, <4>2, OrderedMore
      <4> QED BY <1>3, <3>5, <4>1, <4>3
    <3> QED BY <2>7, <3>6, <3>7, OwnFollows
  <2> QED BY <2>8, <2>9
<1> QED BY <1>5, <1>6

LEMMA ClickFollows ==
    ASSUME RelayIInv, RelayIInv', NEW c \in Client, Clicks(c),
           NEW a \in Account \ hasty', NEW e \in Emulator, Follows(a, e)
    PROVE  Follows(a, e)'
<1>1. /\ TypeOK /\ UNCHANGED <<sock, connections, down, work>> /\ e # c
      /\ Client \subseteq Socket /\ e \in Socket
  BY DEF RelayIInv, AuditTypeOK, Clicks, ClickConnect, Socket
<1>2. up'[e] = up[e] /\ \A b \in Client \ {c} : answer'[b] = answer[b]
  BY <1>1 DEF Clicks, ClickConnect, TypeOK
<1>3. CASE Owner[c] = a
  <2>1. ~UnderWay(a)
    BY <1>3 DEF Clicks
  <2>2. \A s \in Socket : /\ \A m \in Items(up[s]) : m.client # a
                          /\ \A m \in Items(down[s]) : m.client # a
    BY <2>1 DEF UnderWay, Concerns
  <2>3. \A w \in work[e] : w.client # a
    BY <2>1 DEF UnderWay
  <2>4. \A N : Ordered(up'[e], a, e, N) /\ \A b \in Client : Ordered(down'[b], a, e, N)
    <3>1. \A m \in Items(up'[e]) : ~Gathered(m, a, e)
      BY <1>1, <1>2, <2>2 DEF Gathered
    <3>2. \A b \in Client : \A m \in Items(down'[b]) : ~Gathered(m, a, e)
      BY <1>1, <2>2 DEF Gathered
    <3> QED BY <3>1, <3>2, OrderedMore
  <2> QED BY <1>1, <2>3, <2>4, OwnFollows
<1>4. CASE Owner[c] # a
  <2>1. \A b \in Client : Owner[b] = a => answer'[b] = answer[b] /\ Ordered(down'[b], a, e, Given(b))
    BY <1>1, <1>2, <1>4 DEF Follows
  <2>2. \A b \in Client : Owner[b] = a /\ connections'[a] = b /\ sock'[b] = "open" =>
             /\ Holds(down[b], a, e) => Holds(down'[b], a, e)
             /\ Ordered(up'[e], a, e, Known(b, a, e))
             /\ \A w \in work'[e] : w.at = "gather" /\ w.client = a =>
                  w.sdp \in Known(b, a, e) \/ Holds(up'[e], a, e)
    BY <1>1, <1>2 DEF Follows
  <2> QED BY <2>1, <2>2, KeptFollows
<1> QED BY <1>3, <1>4

\* A page works on, and may send a message: a candidate of what it answered.
LEMMA WorkedFollows ==
    ASSUME RelayIInv, RelayIInv', NEW f \in Emulator, NEW a \in Account, NEW e \in Emulator,
           Follows(a, e), UNCHANGED <<sock, connections, answer>>,
           \A c \in Client : down'[c] = down[c],
           up' = up \/ \E m \in Message :
             /\ Send(f, m)
             /\ Gathered(m, a, e) => f = e /\ \E w \in work[e] :
                  w.at = "gather" /\ w.client = a /\ m.offer = w.sdp,
           \A w \in work'[e] : w.at = "gather" /\ w.client = a =>
             w \in work[e] \/ Holds(up'[e], a, e)
    PROVE  Follows(a, e)'
<1>0. TypeOK /\ e \in Socket /\ f \in Socket
  BY DEF RelayIInv, AuditTypeOK, Socket
<1>1. \A c \in Client : answer'[c] = answer[c] /\ Ordered(down'[c], a, e, Given(c))
  BY DEF Follows
<1>2. ASSUME NEW c \in Client, connections'[a] = c, sock'[c] = "open"
      PROVE  /\ Ordered(up'[e], a, e, Known(c, a, e))
             /\ \A w \in work'[e] : w.at = "gather" /\ w.client = a =>
                  w.sdp \in Known(c, a, e) \/ Holds(up'[e], a, e)
  <2>1. /\ Ordered(up[e], a, e, Known(c, a, e))
        /\ \A w \in work[e] : w.at = "gather" /\ w.client = a =>
                  w.sdp \in Known(c, a, e) \/ Holds(up[e], a, e)
    BY <1>2 DEF Follows
  <2>2. Ordered(up'[e], a, e, Known(c, a, e)) /\ (Holds(up[e], a, e) => Holds(up'[e], a, e))
    <3>1. CASE up' = up
      BY <2>1, <3>1
    <3>2. CASE up' # up
      <4>1. PICK m \in Message :
             /\ Send(f, m)
             /\ Gathered(m, a, e) => f = e /\ \E w \in work[e] :
                  w.at = "gather" /\ w.client = a /\ m.offer = w.sdp
        BY <3>2
      <4>2. e = f /\ Gathered(m, a, e) => m.offer \in Known(c, a, e) \/ Holds(up[e], a, e)
        BY <2>1, <4>1
      <4> QED BY <1>0, <2>1, <4>1, <4>2, SentOrder
    <3> QED BY <3>1, <3>2
  <2> QED BY <2>1, <2>2
<1>3. \A c \in Client : Holds(down[c], a, e) => Holds(down'[c], a, e)
  OBVIOUS
<1> QED BY <1>1, <1>2, <1>3, KeptFollows

LEMMA StreamsFollows ==
    ASSUME RelayIInv, RelayIInv', NEW f \in Emulator, ClickStream(f),
           NEW a \in Account, NEW e \in Emulator, Follows(a, e)
    PROVE  Follows(a, e)'
<1> DEFINE n == Msg("StartStreaming", None, None, f)
<1>1. n \in Message /\ ~Gathered(n, a, e) /\ Send(f, n)
  BY DEF ClickStream, Msg, Message, Gathered
<1>2. UNCHANGED <<sock, connections, answer, down, work>>
  BY DEF ClickStream
<1> HIDE DEF n
<1> QED BY <1>1, <1>2, WorkedFollows

LEMMA GetOfferFollows ==
    ASSUME RelayIInv, RelayIInv', NEW f \in Emulator, GetOffer(f),
           NEW a \in Account, NEW e \in Emulator, Follows(a, e)
    PROVE  Follows(a, e)'
<1>1. UNCHANGED <<sock, connections, answer, up>>
  BY DEF GetOffer
<1>2. \A c \in Client : down'[c] = down[c]
  BY DEF GetOffer, Gets, RelayIInv, AuditTypeOK, TypeOK, Socket
<1>3. \A w \in work'[e] : w.at = "gather" => w \in work[e]
  BY DEF GetOffer, RelayIInv, AuditTypeOK, TypeOK
<1> QED BY <1>1, <1>2, <1>3, WorkedFollows

LEMMA WorksFollows ==
    ASSUME RelayIInv, RelayIInv', NEW f \in Emulator, NEW w \in work[f], Works(f, w),
           NEW a \in Account, NEW e \in Emulator \ shared, Follows(a, e)
    PROVE  Follows(a, e)'
<1>1. /\ TypeOK /\ w \in Handler /\ f \in Socket /\ e \in Socket
      /\ UNCHANGED <<sock, connections, answer, down>>
  BY DEF RelayIInv, AuditTypeOK, TypeOK, Works, CreatePeer, SetRemote, CreateAnswer, SendAnswer,
         Gather, Socket
<1>2. ASSUME CreatePeer(f, w) \/ SetRemote(f, w) \/ CreateAnswer(f, w) PROVE Follows(a, e)'
  <2>1. up' = up
    BY <1>2 DEF CreatePeer, SetRemote, CreateAnswer
  <2>2. \A at \in {"remote", "answer"} : [w EXCEPT !.at = at].at = at
    BY <1>1 DEF Handler
  <2>3. [w EXCEPT !.at = "local", !.sdp = peer[f].remote].at = "local"
    BY <1>1 DEF Handler
  <2>4. PICK W : Moves(f, w, W) /\ \A v \in W : v.at # "gather"
    <3>1. CASE CreatePeer(f, w)
      <4> DEFINE v == [w EXCEPT !.at = "remote"]
      <4>1. v.at = "remote" /\ Moves(f, w, {v})
        BY <2>2, <3>1 DEF CreatePeer
      <4> HIDE DEF v
      <4> QED BY <4>1
    <3>2. CASE SetRemote(f, w)
      <4> DEFINE v == [w EXCEPT !.at = "answer"]
      <4>1. v.at = "answer" /\ Moves(f, w, {v})
        BY <2>2, <3>2 DEF SetRemote
      <4> HIDE DEF v
      <4> QED BY <4>1
    <3>3. CASE CreateAnswer(f, w)
      <4> DEFINE v == [w EXCEPT !.at = "local", !.sdp = peer[f].remote]
      <4>1. v.at = "local" /\ (Moves(f, w, {v}) \/ Moves(f, w, {}))
        BY <2>3, <3>3 DEF CreateAnswer
      <4> HIDE DEF v
      <4> QED BY <4>1
    <3> QED BY <1>2, <3>1, <3>2, <3>3
  <2>5. \A v \in work'[e] : v.at = "gather" => v \in work[e]
    BY <1>1, <2>4 DEF Moves, TypeOK
  <2> QED BY <1>1, <2>1, <2>5, WorkedFollows
<1>3. ASSUME SendAnswer(f, w) PROVE Follows(a, e)'
  <2> DEFINE n == Msg("Answer", w.client, w.sdp, f)
             h == [w EXCEPT !.at = "gather", !.client = Owner[peer[f].made[1]]]
  <2>1. n \in Message /\ ~Gathered(n, a, e) /\ w.at = "local"
    BY <1>1, <1>3 DEF Msg, Message, Handler, Gathered, SendAnswer
  <2>2. n.ev = "Answer" /\ n.client = w.client /\ n.from = f
    BY DEF Msg
  <2>3. \/ Moves(f, w, {}) /\ up' = up
        \/ Moves(f, w, {h}) /\ Send(f, n)
    BY <1>3 DEF SendAnswer
  <2>4. h.client = Owner[peer[f].made[1]]
    BY <1>1 DEF Handler
  <2> HIDE DEF n, h
  <2>5. CASE Moves(f, w, {}) /\ up' = up
    <3>1. \A v \in work'[e] : v \in work[e]
      BY <1>1, <2>5 DEF Moves, TypeOK
    <3> QED BY <1>1, <2>5, <3>1, WorkedFollows
  <2>6. CASE Moves(f, w, {h}) /\ Send(f, n)
    <3>1. ASSUME f = e, h.client = a PROVE Holds(up'[e], a, e)
      <4>1. peer[e].made = w.offer /\ Owner[w.offer[1]] = w.client
        BY <2>1, <3>1 DEF RelayIInv, Steady, Pages
      <4>2. w.client = a
        BY <2>4, <3>1, <4>1
      <4>3. Replies(n, a, e)
        BY <2>2, <3>1, <4>2 DEF Replies
      <4>4. Ordered(up[e], a, e, Offers)
        <5>1. \A m \in Items(up[e]) : Gathered(m, a, e) => m.offer \in Offers
          BY DEF RelayIInv, Addressed, FromEmulator, Gathered
        <5> QED BY <5>1, OrderedMore
      <4> QED BY <1>1, <2>1, <2>6, <3>1, <4>3, <4>4, SentOrder
    <3>2. \A v \in work'[e] : v \in work[e] \/ (f = e /\ v = h)
      BY <1>1, <2>6 DEF Moves, TypeOK
    <3>3. \A v \in work'[e] : v.at = "gather" /\ v.client = a => v \in work[e] \/ Holds(up'[e], a, e)
      BY <3>1, <3>2
    <3> QED BY <1>1, <2>1, <2>6, <3>3, WorkedFollows
  <2> QED BY <2>3, <2>5, <2>6
<1>4. ASSUME Gather(f, w) PROVE Follows(a, e)'
  <2> DEFINE n == Msg("IceCandidate", w.client, w.sdp, f)
  <2>1. n \in Message /\ n.client = w.client /\ n.offer = w.sdp /\ n.from = f /\ w.at = "gather"
    BY <1>1, <1>4 DEF Msg, Message, Handler, Gather
  <2>2. Send(f, n) /\ \E W : W \subseteq {w} /\ Moves(f, w, W)
    BY <1>4 DEF Gather
  <2> HIDE DEF n
  <2>3. Gathered(n, a, e) => f = e /\ \E v \in work[e] :
          v.at = "gather" /\ v.client = a /\ n.offer = v.sdp
    BY <2>1 DEF Gathered
  <2>4. \A v \in work'[e] : v \in work[e]
    BY <1>1, <2>2 DEF Moves, TypeOK
  <2> QED BY <1>1, <2>1, <2>2, <2>3, <2>4, WorkedFollows
<1> QED BY <1>2, <1>3, <1>4 DEF Works

-----------------------------------------------------------------------------
LEMMA TurnInit == AuditInit => TurnIInv
<1> SUFFICES ASSUME AuditInit PROVE TurnIInv
  OBVIOUS
<1>1. RelayIInv
  BY RelayInit
<1>2. \A s \in Socket : up[s] = << >> /\ down[s] = << >>
  BY DEF AuditInit, Init
<1>3. /\ connections = [p \in Device \cup Account |-> None] /\ sock = [s \in Socket |-> "new"]
      /\ \A e \in Emulator : work[e] = {}
  BY DEF AuditInit, Init
<1>4. Unopened
  BY <1>2, <1>3 DEF Unopened, Socket
<1>5. ASSUME NEW a \in Account PROVE OneTurn(a) /\ Waited(a)
  <2>1. DOMAIN << >> = {}
    OBVIOUS
  <2>2. Places(up, a) = {} /\ Places(down, a) = {} /\ Handling(a) = {}
    BY <1>2, <1>3, <2>1 DEF Places, Handling
  <2> QED BY <2>2 DEF OneTurn, Waited, AtMostOne
<1>6. ASSUME NEW a \in Account, NEW e \in Emulator PROVE Follows(a, e)
  <2>1. \A N : Ordered(<< >>, a, e, N)
    BY DEF Ordered
  <2> QED BY <1>2, <1>3, <2>1 DEF Follows, Socket
<1> QED BY <1>1, <1>4, <1>5, <1>6 DEF TurnIInv, TurnsKept, OrderKept

LEMMA TurnsStep ==
    ASSUME TurnIInv, AuditNext
    PROVE  TurnsKept'
<1> SUFFICES ASSUME NEW a \in Account \ hasty' PROVE OneTurn(a)' /\ Waited(a)'
  BY DEF TurnsKept
<1>1. a \in Account /\ a \notin hasty
  BY DEF AuditNext, Comes, Handles, Delivers, Clicks, Streams, Begins, Steps
<1>2. RelayIInv /\ OneTurn(a) /\ Waited(a)
  BY <1>1 DEF TurnIInv, TurnsKept
<1>3. ASSUME NEW s \in Socket, Comes(s) PROVE OneTurn(a)' /\ Waited(a)'
  <2>1. CASE Open(s)
    <3>1. UNCHANGED <<connections, up, down, offered, answer, work>>
      BY <2>1 DEF Open
    <3> QED BY <1>2, <3>1 DEF OneTurn, Waited, Handling, Waits
  <2> QED BY <1>1, <1>2, <1>3, <2>1, CloseTurn DEF Comes
<1>4. ASSUME NEW s \in Socket, Handles(s) PROVE OneTurn(a)' /\ Waited(a)'
  BY <1>1, <1>2, <1>4, OfferTurn, AnswerTurn, OtherHandleTurn DEF Handles, Handle
<1>5. ASSUME NEW s \in Socket, Delivers(s) PROVE OneTurn(a)' /\ Waited(a)'
  BY <1>1, <1>2, <1>5, GetAnswerTurn, GetCandidateTurn DEF Delivers
<1>6. ASSUME NEW c \in Client, Clicks(c) PROVE OneTurn(a)' /\ Waited(a)'
  BY <1>2, <1>6, ClickTurn
<1>7. ASSUME NEW e \in Emulator, Streams(e) PROVE OneTurn(a)' /\ Waited(a)'
  BY <1>1, <1>2, <1>7, StreamsTurn DEF Streams
<1>8. ASSUME NEW e \in Emulator, Begins(e) PROVE OneTurn(a)' /\ Waited(a)'
  BY <1>1, <1>2, <1>8, GetOfferTurn DEF Begins
<1>9. ASSUME NEW e \in Emulator, NEW w \in work[e], Steps(e, w) PROVE OneTurn(a)' /\ Waited(a)'
  BY <1>1, <1>2, <1>9, PeerTurn, SendAnswerTurn DEF Steps, Works
<1> QED BY <1>3, <1>4, <1>5, <1>6, <1>7, <1>8, <1>9 DEF AuditNext

LEMMA OrderStep ==
    ASSUME TurnIInv, RelayIInv', AuditNext
    PROVE  OrderKept'
<1> SUFFICES ASSUME NEW a \in Account \ hasty', NEW e \in Emulator \ shared'
             PROVE  Follows(a, e)'
  BY DEF OrderKept
<1>1. a \in Account \ hasty /\ e \in Emulator \ shared
  BY DEF AuditNext, Comes, Handles, Delivers, Clicks, Streams, Begins, Steps
<1>2. RelayIInv /\ Unopened /\ OneTurn(a) /\ Waited(a) /\ Follows(a, e)
  BY <1>1 DEF TurnIInv, TurnsKept, OrderKept
<1>3. ASSUME NEW s \in Socket, Comes(s) PROVE Follows(a, e)'
  BY <1>2, <1>3, OpenFollows, CloseFollows DEF Comes
<1>4. ASSUME NEW s \in Socket, Handles(s) PROVE Follows(a, e)'
  BY <1>1, <1>2, <1>4, StreamingFollows, OfferFollows, AnswerFollows, CandidateFollows
     DEF Handles, Handle
<1>5. ASSUME NEW s \in Socket, Delivers(s) PROVE Follows(a, e)'
  BY <1>1, <1>2, <1>5, GetCandidateFollows, GetAnswerFollows DEF Delivers
<1>6. ASSUME NEW c \in Client, Clicks(c) PROVE Follows(a, e)'
  BY <1>2, <1>6, ClickFollows
<1>7. ASSUME NEW f \in Emulator, Streams(f) PROVE Follows(a, e)'
  BY <1>2, <1>7, StreamsFollows DEF Streams
<1>8. ASSUME NEW f \in Emulator, Begins(f) PROVE Follows(a, e)'
  BY <1>2, <1>8, GetOfferFollows DEF Begins
<1>9. ASSUME NEW f \in Emulator, NEW w \in work[f], Steps(f, w) PROVE Follows(a, e)'
  BY <1>1, <1>2, <1>9, WorksFollows DEF Steps
<1> QED BY <1>3, <1>4, <1>5, <1>6, <1>7, <1>8, <1>9 DEF AuditNext

LEMMA TurnStep == TurnIInv /\ [AuditNext]_auditVars => TurnIInv'
<1> SUFFICES ASSUME TurnIInv, [AuditNext]_auditVars PROVE TurnIInv'
  OBVIOUS
<1>1. RelayIInv'
  BY RelayStep DEF TurnIInv
<1>2. CASE AuditNext
  BY <1>1, <1>2, UnopenedStep, TurnsStep, OrderStep DEF TurnIInv
<1>3. CASE UNCHANGED auditVars
  <2>1. UNCHANGED <<sock, connections, up, down, offered, answer, work, hasty, shared>>
    BY <1>3 DEF auditVars, vars
  <2>2. Unopened'
    BY <2>1 DEF TurnIInv, Unopened
  <2>3. TurnsKept'
    BY <2>1 DEF TurnIInv, TurnsKept, OneTurn, Waited, Handling, Waits
  <2>4. OrderKept'
    <3>1. ASSUME NEW a \in Account, NEW e \in Emulator, Follows(a, e) PROVE Follows(a, e)'
      BY <1>1, <2>1, <3>1, KeptFollows DEF Follows
    <3> QED BY <2>1, <3>1 DEF TurnIInv, OrderKept
  <2> QED BY <1>1, <2>2, <2>3, <2>4 DEF TurnIInv
<1> QED BY <1>2, <1>3

\* An account that is not hasty has one turn at a time, its page waits for the
\* answer as long, and what an unshared page gathers for it follows the answer,
\* for any number of pages, accounts, emulators and offers.
THEOREM TurnsInductive == AuditSpec => []TurnIInv
BY TurnInit, TurnStep, PTL DEF AuditSpec

\* No candidate reaches an account's page before the answer it depends on,
\* unless the account was hasty or the answering page shared.
THEOREM CandidatesComeBehind == AuditSpec => CandidatesFollow
<1>1. ASSUME TurnIInv, NEW c \in Client, GetCandidate(c), Clear(c, Head(down[c]))
      PROVE  answer[c] # None /\ answer[c].offer = Head(down[c]).offer
  <2> DEFINE m == Head(down[c])
  <2>1. /\ c \in Socket /\ TypeOK /\ Gets(c, "IceCandidate") /\ m \in Items(down[c])
        /\ m.ev = "IceCandidate" /\ Owner[c] \in Account
    BY <1>1, GetsFacts DEF TurnIInv, RelayIInv, AuditTypeOK, GetCandidate, Socket
  <2>2. /\ m.client = Owner[c] /\ m.from \in Emulator
        /\ Owner[c] \in Account \ hasty /\ m.from \in Emulator \ shared
    BY <1>1, <2>1 DEF TurnIInv, RelayIInv, Addressed, ToClient, Clear
  <2>3. Ordered(down[c], Owner[c], m.from, Given(c))
    BY <1>1, <2>2 DEF TurnIInv, OrderKept, Follows
  <2>4. down[c] \in Seq(Message) /\ 1 \in DOMAIN down[c] /\ m = down[c][1]
    BY <2>1, GetsFirst DEF TypeOK, FirstTaken
  <2>5. Gathered(down[c][1], Owner[c], m.from)
    BY <2>1, <2>2, <2>4 DEF Gathered
  <2>6. m.offer \in Given(c)
    BY <2>3, <2>4, <2>5, OrderedHead
  <2> QED BY <2>6 DEF Given
<1>2. TurnIInv => [\A c \in Client :
        GetCandidate(c) /\ Clear(c, Head(down[c])) =>
          answer[c] # None /\ answer[c].offer = Head(down[c]).offer]_auditVars
  BY <1>1
<1> QED BY <1>2, TurnsInductive, PTL DEF CandidatesFollow

\* No answer reaches an account's page that does not wait for one, unless the
\* account was hasty.
THEOREM AnswersAreAwaited == AuditSpec => AnswersAwaited
<1>1. ASSUME TurnIInv, NEW c \in Client, GetAnswer(c), Owner[c] \notin hasty
      PROVE  Waits(c)
  <2>1. /\ c \in Socket /\ TypeOK /\ Gets(c, "Answer") /\ Head(down[c]) \in Items(down[c])
        /\ Head(down[c]).ev = "Answer" /\ Owner[c] \in Account
    BY <1>1, GetsFacts DEF TurnIInv, RelayIInv, AuditTypeOK, GetAnswer, Socket
  <2>2. Bears(Head(down[c]), Owner[c])
    BY <1>1, <2>1 DEF TurnIInv, RelayIInv, Addressed, ToClient, Bears
  <2>3. OneTurn(Owner[c]) /\ Waited(Owner[c])
    BY <1>1, <2>1 DEF TurnIInv, TurnsKept
  <2>4. <<c, 1>> \in Places(down, Owner[c])
    BY <2>1, <2>2, <2>3, DownTaken
  <2> QED BY <2>3, <2>4 DEF Waited
<1>2. TurnIInv =>
        [\A c \in Client : GetAnswer(c) /\ Owner[c] \notin hasty => Waits(c)]_auditVars
  BY <1>1
<1> QED BY <1>2, TurnsInductive, PTL DEF AnswersAwaited

=============================================================================
