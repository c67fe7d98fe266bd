----------------------------- MODULE RelayAudit -----------------------------
(***************************************************************************)
(* What may be expected of SignalingRelay, whose messages carry no name of *)
(* the offer they belong to.  History variables record who made that       *)
(* matter: the accounts that offered while something of an earlier offer   *)
(* of theirs was still under way, from whatever page, and the emulators'   *)
(* pages that got an offer while they were still answering another.        *)
(***************************************************************************)
EXTENDS SignalingRelay

VARIABLES hasty, shared

auditVars == <<vars, hasty, shared>>

-----------------------------------------------------------------------------
Items(q) == {q[i] : i \in DOMAIN q}
Concerns(q, a) == \E m \in Items(q) : m.client = a

\* A message or a handler of an offer of a is under way, on a socket that still
\* may bring it somewhere.
UnderWay(a) ==
    \/ \E s \in Socket : Concerns(up[s], a) \/ Concerns(down[s], a)
    \/ \E e \in Emulator : \E w \in work[e] : w.client = a

Answering(e) == \E w \in work[e] : w.at # "gather"

AuditInit == Init /\ hasty = {} /\ shared = {}

Clicks(c) ==
    /\ ClickConnect(c)
    /\ hasty' = IF UnderWay(Owner[c]) THEN hasty \cup {Owner[c]} ELSE hasty
    /\ UNCHANGED shared

Begins(e) ==
    /\ GetOffer(e)
    /\ shared' = IF Answering(e) THEN shared \cup {e} ELSE shared
    /\ UNCHANGED hasty

Handles(s) == Handle(s) /\ UNCHANGED <<hasty, shared>>
Delivers(s) == (GetCandidate(s) \/ (s \in Client /\ GetAnswer(s))) /\ UNCHANGED <<hasty, shared>>
Steps(e, w) == Works(e, w) /\ UNCHANGED <<hasty, shared>>
Comes(s) == (Open(s) \/ Close(s)) /\ UNCHANGED <<hasty, shared>>
Streams(e) == ClickStream(e) /\ UNCHANGED <<hasty, shared>>

AuditNext ==
    \/ \E s \in Socket : Comes(s) \/ Handles(s) \/ Delivers(s)
    \/ \E c \in Client : Clicks(c)
    \/ \E e \in Emulator : Streams(e) \/ Begins(e) \/ \E w \in work[e] : Steps(e, w)

AuditSpec == AuditInit /\ [][AuditNext]_auditVars

-----------------------------------------------------------------------------
Clear(c, m) == Owner[c] \notin hasty /\ m.from \notin shared

\* The offer of c's peer connection.
Current(c) == <<c, offered[c]>>

\* No account's peer connection is given the answer to another offer, of this or
\* any other page, unless the account was hasty or the answering page shared.
AnswersFit == \A c \in Client : answer[c] # None /\ Clear(c, answer[c]) =>
    answer[c].offer = Current(c)

\* No candidate reaches an account's page before the answer it depends on: one
\* that does is lost, for addIceCandidate needs a remote description.
CandidatesFollow == [][ \A c \in Client :
    GetCandidate(c) /\ Clear(c, Head(down[c])) =>
      answer[c] # None /\ answer[c].offer = Head(down[c]).offer ]_auditVars

\* The peer connection of c waits for an answer.
Waits(c) == c \in Client /\ answer[c] = None /\ offered[c] > 0

\* No answer reaches an account's page that does not wait for one: setRemote-
\* Description would refuse it, and the page would miss what it negotiates.  An
\* emulator's page that is shared answers wrongly, but not twice, nor a page that
\* has not asked.
AnswersAwaited == [][ \A c \in Client :
    GetAnswer(c) /\ Owner[c] \notin hasty => Waits(c) ]_auditVars

-----------------------------------------------------------------------------
(* The inductive invariant of AnswersFit. *)

\* Type invariant of the sockets, pages, messages, handlers and the history.
AuditTypeOK == TypeOK /\ hasty \subseteq Account /\ shared \subseteq Emulator

Reach(p, m) == m.client = p /\ m.from \notin shared

\* Everything clear that is under way for a is of c's last offer, and what comes
\* of it finds c in the map.
Only(a, c) ==
    /\ Owner[c] = a
    /\ \A s \in Socket : \A m \in Items(up[s]) : Reach(a, m) =>
          /\ m.offer = Current(c)
          /\ m.ev = "Offer" => s = c
          /\ s \in Emulator => connections[a] = c
    /\ \A s \in Socket : \A m \in Items(down[s]) : Reach(a, m) =>
          /\ m.offer = Current(c)
          /\ m.ev = "Offer" => connections[a] = c
          /\ s \in Client => s = c
    /\ \A e \in Emulator \ shared : \A w \in work[e] : w.client = a =>
          w.offer = Current(c) /\ connections[a] = c

OneOffer == \A c \in Client : Owner[c] \notin hasty => \E b \in Client : Only(Owner[c], b)

\* An unshared page answers one offer at a time, with that offer's peer connection.
Steady(e) == \A w \in work[e] :
    /\ w.at \in {"remote", "answer", "local"} => peer[e].made = w.offer
    /\ w.at \in {"answer", "local"} => peer[e].remote = w.offer
    /\ w.at \in {"local", "gather"} => w.sdp = w.offer
    /\ \A v \in work[e] : v.at # "gather" /\ w.at # "gather" => v = w

\* Who sends what, and for whom.
FromClient(c, m) ==
    /\ m.ev \in {"Offer", "IceCandidate"} /\ m.from = None
    /\ m.client = Owner[c] /\ m.offer \in Offers /\ Owner[m.offer[1]] = m.client
FromEmulator(e, m) ==
    /\ m.ev \in {"StartStreaming", "Answer", "IceCandidate"} /\ m.from = e
    /\ m.ev # "StartStreaming" => m.client \in Account /\ m.offer \in Offers

ToClient(c, m) ==
    m.client = Owner[c] /\ m.offer \in Offers /\ m.from \in Emulator /\ m.ev # "Offer"
ToEmulator(m) ==
    /\ m.client \in Account /\ m.offer \in Offers /\ Owner[m.offer[1]] = m.client
    /\ m.ev = "Offer" => m.from = None

Addressed ==
    /\ \A p \in Device \cup Account : connections[p] # None => Owner[connections[p]] = p
    /\ \A c \in Client : \A m \in Items(up[c]) : FromClient(c, m)
    /\ \A e \in Emulator : \A m \in Items(up[e]) : FromEmulator(e, m)
    /\ \A c \in Client : \A m \in Items(down[c]) : ToClient(c, m)
    /\ \A e \in Emulator : \A m \in Items(down[e]) : ToEmulator(m)

\* What a handler on a page finds in the variable, shared or not.
Pages == \A e \in Emulator :
    /\ ~peer[e].stable => peer[e].remote # None
    /\ \A w \in work[e] :
          /\ w.at # "create" => peer[e].made # None
          /\ w.at # "gather" => Owner[w.offer[1]] = w.client
          /\ w.at \in {"local", "gather"} => w.sdp # None

RelayIInv ==
    /\ AuditTypeOK /\ Addressed /\ Pages
    /\ \A e \in Emulator \ shared : Steady(e)
    /\ OneOffer /\ AnswersFit

-----------------------------------------------------------------------------
(* The inductive invariant of CandidatesFollow and AnswersAwaited: an account *)
(* that is not hasty has one turn at a time, first its Offer, then the        *)
(* handler of it, then the Answer, and what is gathered for it comes behind.  *)

\* The places of a's turn in the queues Q and among the handlers.
Bears(m, a) == m.ev \in {"Offer", "Answer"} /\ m.client = a
Places(Q, a) == UNION {{s} \X {i \in DOMAIN Q[s] : Bears(Q[s][i], a)} : s \in Socket}
Handling(a) ==
    UNION {{e} \X {w \in work[e] : w.at # "gather" /\ w.client = a} : e \in Emulator}

AtMostOne(S) == \A x, y \in S : x = y

OneTurn(a) ==
    /\ AtMostOne(Places(up, a)) /\ AtMostOne(Places(down, a)) /\ AtMostOne(Handling(a))
    /\ Places(up, a) # {} => Places(down, a) = {} /\ Handling(a) = {}
    /\ Places(down, a) # {} => Handling(a) = {}

\* As long as a has its turn, the page that made the offer waits; once the
\* server has the offer that is the page of the map.
Waited(a) ==
    /\ \A x \in Places(up, a) : Waits(IF x[1] \in Client THEN x[1] ELSE connections[a])
    /\ \A x \in Places(down, a) :
          Waits(connections[a]) /\ (x[1] \in Client => x[1] = connections[a])
    /\ Handling(a) # {} => Waits(connections[a])

\* The answer, and a candidate, that e sends a.
Replies(m, a, e) == m.ev = "Answer" /\ m.client = a /\ m.from = e
Gathered(m, a, e) == m.ev = "IceCandidate" /\ m.client = a /\ m.from = e

\* In q, e's candidates for a come behind its answer, but those of offers in N.
Ordered(q, a, e, N) == \A i \in DOMAIN q : Gathered(q[i], a, e) =>
    q[i].offer \in N \/ \E j \in DOMAIN q : j < i /\ Replies(q[j], a, e)

Holds(q, a, e) == \E m \in Items(q) : Replies(m, a, e)

\* The offers of which c has the answer, and has it when it gets what comes next.
Given(c) == IF answer[c] = None THEN {} ELSE {answer[c].offer}
Known(c, a, e) == Given(c) \cup {n \in Offers : Holds(down[c], a, e)}

\* What e gathers for a follows its answer, all the way to the page.
Follows(a, e) == \A c \in Client :
    /\ Ordered(down[c], a, e, Given(c))
    /\ connections[a] = c /\ sock[c] = "open" =>
         /\ Ordered(up[e], a, e, Known(c, a, e))
         /\ \A w \in work[e] : w.at = "gather" /\ w.client = a =>
               w.sdp \in Known(c, a, e) \/ Holds(up[e], a, e)

\* A page that is not yet open has sent nothing and is nobody's.
Unopened == \A c \in Client : sock[c] = "new" => up[c] = << >> /\ connections[Owner[c]] # c

TurnsKept == \A a \in Account \ hasty : OneTurn(a) /\ Waited(a)
OrderKept == \A a \in Account \ hasty, e \in Emulator \ shared : Follows(a, e)

TurnIInv == RelayIInv /\ Unopened /\ TurnsKept /\ OrderKept

-----------------------------------------------------------------------------
(* A claim of the repository that the pages do not keep. *)

\* "Send the answer back", "Sent answer to client": the answer an emulator's
\* page sends a client is to an offer of that client.  The page has one
\* variable for the peer connections of all.
AnswersOwnClient == \A e \in Emulator : \A m \in Items(up[e]) :
    m.ev = "Answer" => Owner[m.offer[1]] = m.client

=============================================================================
