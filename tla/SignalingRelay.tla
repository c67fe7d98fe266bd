---------------------------- MODULE SignalingRelay --------------------------
(***************************************************************************)
(* How a peer connection comes about: an account's page sends an Offer     *)
(* through SignalingServerGateway to the emulator's page, which sends an   *)
(* Answer and then its ICE candidates back.  The server names both sides   *)
(* by their keys in its connections map, never by the offer a message      *)
(* belongs to, and so do the pages: each keeps the one peer connection it  *)
(* made last in a variable and every handler uses that.                    *)
(*                                                                         *)
(* socket.io delivers the messages of a socket in order, in each           *)
(* direction, and loses those under way when it closes.  A page lives as   *)
(* long as its socket.  SignalingGateway has what the events do to the     *)
(* database.                                                               *)
(***************************************************************************)
EXTENDS Naturals, Sequences

CONSTANTS
    Device, Account, None,
    Emulator, Client,  \* sockets of the pages of emulators and of accounts
    Owner,             \* the device or account a socket is of
    Target,            \* the device an account's page connects to
    MaxOffers,         \* bound: how many offers each account's page makes
    Trickle            \* bound: the messages waiting in a queue to a client
                       \* while an emulator's page goes on to gather candidates

Socket == Emulator \cup Client
Offers == Client \X Nat

ASSUME RelayAssumption ==
    /\ Device \cap Account = {} /\ Emulator \cap Client = {}
    /\ Owner \in [Socket -> Device \cup Account]
    /\ \A e \in Emulator : Owner[e] \in Device
    /\ \A c \in Client : Owner[c] \in Account
    /\ Target \in [Client -> Device]
    /\ MaxOffers \in [Client -> Nat]
    /\ None \notin Socket \cup Offers \cup Account

ASSUME TrickleAssumption == Trickle \in Nat

VARIABLES
    sock,         \* "new", "open" or "closed"
    connections,  \* Map<string, Socket>
    up, down,     \* messages to the server and from it, by socket
    offered,      \* how many offers a client's page has made: its peer
                  \* connection is that of the last
    answer,       \* the answer that peer connection was given
    peer,         \* the peer connection of an emulator's page
    work          \* its handlers of Offer between two awaits

vars == <<sock, connections, up, down, offered, answer, peer, work>>

\* A message: its event, the account it names, the offer its sdp or candidate
\* belongs to, and the emulator's page it is from.
Msg(ev, a, n, e) == [ev |-> ev, client |-> a, offer |-> n, from |-> e]

\* A peer connection was made for the offer made, has the remote description of
\* the offer remote, and is stable when it has no offer to answer.
NoPeer == [made |-> None, remote |-> None, stable |-> TRUE]

Message == [ev : {"StartStreaming", "Offer", "Answer", "IceCandidate"},
            client : Account \cup {None}, offer : Offers \cup {None}, from : Emulator \cup {None}]
Handler == [at : {"create", "remote", "answer", "local", "gather"},
            client : Account, offer : Offers, sdp : Offers \cup {None}]

ASSUME MessageAssumption == None \notin Message

TypeOK ==
    /\ sock \in [Socket -> {"new", "open", "closed"}]
    /\ connections \in [Device \cup Account -> Socket \cup {None}]
    /\ up \in [Socket -> Seq(Message)] /\ down \in [Socket -> Seq(Message)]
    /\ offered \in [Client -> Nat]
    /\ answer \in [Client -> Message \cup {None}]
    /\ peer \in [Emulator -> [made : Offers \cup {None}, remote : Offers \cup {None},
                              stable : BOOLEAN]]
    /\ work \in [Emulator -> SUBSET Handler]

Init ==
    /\ sock = [s \in Socket |-> "new"]
    /\ connections = [p \in Device \cup Account |-> None]
    /\ up = [s \in Socket |-> << >>]
    /\ down = [s \in Socket |-> << >>]
    /\ offered = [c \in Client |-> 0]
    /\ answer = [c \in Client |-> None]
    /\ peer = [e \in Emulator |-> NoPeer]
    /\ work = [e \in Emulator |-> {}]

-----------------------------------------------------------------------------
(* Sockets *)

Open(s) ==
    /\ sock[s] = "new"
    /\ sock' = [sock EXCEPT ![s] = "open"]
    /\ UNCHANGED <<connections, up, down, offered, answer, peer, work>>

\* The page is closed or the connection breaks; the map keeps the socket.
Close(s) ==
    /\ sock[s] = "open"
    /\ sock' = [sock EXCEPT ![s] = "closed"]
    /\ up' = [up EXCEPT ![s] = << >>]
    /\ down' = [down EXCEPT ![s] = << >>]
    /\ work' = [e \in Emulator |-> IF e = s THEN {} ELSE work[e]]
    /\ UNCHANGED <<connections, offered, answer, peer>>

Send(s, m) == up' = [up EXCEPT ![s] = Append(@, m)]

\* The server takes the next message of s.
Takes(s, ev) ==
    /\ up[s] # << >> /\ Head(up[s]).ev = ev
    /\ up' = [up EXCEPT ![s] = Tail(@)]

\* emit to a socket of the map: nothing without one, lost if it has closed.
Emit(s, m) ==
    down' = IF s # None /\ sock[s] = "open" THEN [down EXCEPT ![s] = Append(@, m)] ELSE down

-----------------------------------------------------------------------------
(* The server *)

StartStreaming(s) ==
    /\ Takes(s, "StartStreaming")
    /\ connections' = [connections EXCEPT ![Owner[s]] = s]
    /\ UNCHANGED <<sock, down, offered, answer, peer, work>>

\* 'Emulator not found' goes to nobody: the page has no handler for exceptions.
Offer(s) ==
    LET m == Head(up[s]) IN
    /\ Takes(s, "Offer")
    /\ IF connections[Target[s]] = None
         THEN UNCHANGED <<connections, down>>
         ELSE /\ connections' = [connections EXCEPT ![m.client] = s]
              /\ Emit(connections[Target[s]], m)
    /\ UNCHANGED <<sock, offered, answer, peer, work>>

\* Mutant: the answer is broadcast.
AnswerToAll(s) ==
    LET m == Head(up[s]) IN
    /\ Takes(s, "Answer")
    /\ down' = [r \in Socket |-> IF r \in Client /\ sock[r] = "open"
                                   THEN Append(down[r], m) ELSE down[r]]
    /\ UNCHANGED <<sock, connections, offered, answer, peer, work>>

Answer(s) ==
    LET m == Head(up[s]) IN
    /\ Takes(s, "Answer")
    /\ Emit(connections[m.client], m)
    /\ UNCHANGED <<sock, connections, offered, answer, peer, work>>

\* Mutant: a candidate of an emulator is broadcast.
CandidateToAll(s) ==
    LET m == Head(up[s]) IN
    /\ Takes(s, "IceCandidate")
    /\ down' = [r \in Socket |-> IF r # s /\ sock[r] = "open"
                                   THEN Append(down[r], m) ELSE down[r]]
    /\ UNCHANGED <<sock, connections, offered, answer, peer, work>>

\* isEmulator ? clientId : deviceId
IceCandidate(s) ==
    LET m == Head(up[s]) IN
    /\ Takes(s, "IceCandidate")
    /\ Emit(IF s \in Emulator THEN connections[m.client] ELSE connections[Target[s]], m)
    /\ UNCHANGED <<sock, connections, offered, answer, peer, work>>

Handle(s) == StartStreaming(s) \/ Offer(s) \/ Answer(s) \/ IceCandidate(s)

-----------------------------------------------------------------------------
(* The account's page *)

\* Mutant: the page keeps the peer connection it has.
ClickConnectAgain(c) ==
    LET n == <<c, offered[c] + 1>>
        m(ev) == Msg(ev, Owner[c], n, None)
    IN  /\ sock[c] = "open" /\ offered[c] < MaxOffers[c]
        /\ offered' = [offered EXCEPT ![c] = @ + 1]
        /\ up' = [up EXCEPT ![c] = @ \o <<m("Offer"), m("IceCandidate")>>]
        /\ UNCHANGED <<sock, connections, down, answer, peer, work>>

\* A click: a new peer connection, its offer, and the candidates gathered for it
\* (bound: one stands for them all; an emulator's page does nothing with them).
ClickConnect(c) ==
    LET n == <<c, offered[c] + 1>>
        m(ev) == Msg(ev, Owner[c], n, None)
    IN  /\ sock[c] = "open" /\ offered[c] < MaxOffers[c]
        /\ offered' = [offered EXCEPT ![c] = @ + 1]
        /\ answer' = [answer EXCEPT ![c] = None]
        /\ up' = [up EXCEPT ![c] = @ \o <<m("Offer"), m("IceCandidate")>>]
        /\ UNCHANGED <<sock, connections, down, peer, work>>

\* The page takes the next message from the server.
Gets(s, ev) ==
    /\ down[s] # << >> /\ Head(down[s]).ev = ev
    /\ down' = [down EXCEPT ![s] = Tail(@)]

\* setRemoteDescription, which a peer connection with an answer refuses.
GetAnswer(c) ==
    LET m == Head(down[c]) IN
    /\ Gets(c, "Answer")
    /\ answer' = IF offered[c] > 0 /\ answer[c] = None
                   THEN [answer EXCEPT ![c] = m] ELSE answer
    /\ UNCHANGED <<sock, connections, up, offered, peer, work>>

\* addIceCandidate, of a client's page or an emulator's.
GetCandidate(s) ==
    /\ Gets(s, "IceCandidate")
    /\ UNCHANGED <<sock, connections, up, offered, answer, peer, work>>

-----------------------------------------------------------------------------
(* The emulator's page.  Its handler of Offer awaits four times; each time   *)
(* it goes on with the peer connection the variable then has.                *)

ClickStream(e) ==
    /\ sock[e] = "open" /\ connections[Owner[e]] # e /\ up[e] = << >>
    /\ Send(e, Msg("StartStreaming", None, None, e))
    /\ UNCHANGED <<sock, connections, down, offered, answer, peer, work>>

Moves(e, w, W) == work' = [work EXCEPT ![e] = (@ \ {w}) \cup W]

GetOffer(e) ==
    LET m == Head(down[e]) IN
    /\ Gets(e, "Offer")
    /\ work' = [work EXCEPT ![e] = @ \cup {[at |-> "create", client |-> m.client,
                                           offer |-> m.offer, sdp |-> None]}]
    /\ UNCHANGED <<sock, connections, up, offered, answer, peer>>

\* await createPeerConnection(clientId)
CreatePeer(e, w) ==
    /\ w.at = "create"
    /\ peer' = [peer EXCEPT ![e] = [made |-> w.offer, remote |-> None, stable |-> TRUE]]
    /\ Moves(e, w, {[w EXCEPT !.at = "remote"]})
    /\ UNCHANGED <<sock, connections, up, down, offered, answer>>

\* await peerConnection.setRemoteDescription(offer)
SetRemote(e, w) ==
    /\ w.at = "remote"
    /\ peer' = [peer EXCEPT ![e].remote = w.offer, ![e].stable = FALSE]
    /\ Moves(e, w, {[w EXCEPT !.at = "answer"]})
    /\ UNCHANGED <<sock, connections, up, down, offered, answer>>

\* await peerConnection.createAnswer(), which throws in a stable one.
CreateAnswer(e, w) ==
    /\ w.at = "answer"
    /\ Moves(e, w, IF peer[e].stable THEN {}
                   ELSE {[w EXCEPT !.at = "local", !.sdp = peer[e].remote]})
    /\ UNCHANGED <<sock, connections, up, down, offered, answer, peer>>

\* await peerConnection.setLocalDescription(answer), which throws unless the
\* answer is to the offer it has; then the Answer is sent.
SendAnswer(e, w) ==
    /\ w.at = "local"
    /\ IF peer[e].stable \/ peer[e].remote # w.sdp
         THEN Moves(e, w, {}) /\ UNCHANGED <<up, peer>>
         ELSE /\ Moves(e, w, {[w EXCEPT !.at = "gather", !.client = Owner[peer[e].made[1]]]})
              /\ peer' = [peer EXCEPT ![e].stable = TRUE]
              /\ Send(e, Msg("Answer", w.client, w.sdp, e))
    /\ UNCHANGED <<sock, connections, down, offered, answer>>

Room(e) == Len(up[e]) < Trickle /\ \A c \in Client : Len(down[c]) < Trickle

\* A candidate is found and sent to the client the peer connection was made for;
\* it is the last, or more are to come.
Gather(e, w) ==
    /\ w.at = "gather"
    /\ Send(e, Msg("IceCandidate", w.client, w.sdp, e))
    /\ Moves(e, w, {v \in {w} : Room(e)}) \/ Moves(e, w, {})
    /\ UNCHANGED <<sock, connections, down, offered, answer, peer>>

-----------------------------------------------------------------------------
Works(e, w) ==
    CreatePeer(e, w) \/ SetRemote(e, w) \/ CreateAnswer(e, w) \/ SendAnswer(e, w) \/ Gather(e, w)

Next ==
    \/ \E s \in Socket : Open(s) \/ Close(s) \/ Handle(s) \/ GetCandidate(s)
    \/ \E c \in Client : ClickConnect(c) \/ GetAnswer(c)
    \/ \E e \in Emulator : ClickStream(e) \/ GetOffer(e)
    \/ \E e \in Emulator : \E w \in work[e] : Works(e, w)

Spec == Init /\ [][Next]_vars

=============================================================================
