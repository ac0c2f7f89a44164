------------------------------- MODULE Lobby -------------------------------
(***************************************************************************)
(* How two players come into one match: the lobby of the game client       *)
(* (startHost, cloudJoin, startRankedMatch, closeNet and the driver's      *)
(* events in main.ts), its signalling client (cloudflare-signal.ts), the   *)
(* negotiation and the data channel (online-session.ts, transport.ts,      *)
(* room-transport.ts) and the driver's handshake and ready gate            *)
(* (driver.ts), over the Room object.                                      *)
(*                                                                         *)
(* A player tries a bounded number of times; an attempt <<p, n>> is a      *)
(* fresh peer id, opens at most one socket, and, of a host, names its      *)
(* room.  What an attempt awaits goes on when the player has given it up,  *)
(* so each continuation here asks first whether the attempt is still the   *)
(* current one (token === netGen), as in the code.                         *)
(*                                                                         *)
(* In a behaviour the players meet as friends (WebRTC, by a code read out) *)
(* or as opponents the matchmaker paired (packets through the room).       *)
(***************************************************************************)
EXTENDS Room

CONSTANTS
  Host, Guest,   \* the players, by their parts
  Mode,          \* the ways to meet: a subset of {"friend", "ranked"}
  MaxAttempts,   \* bound: how often a player tries
  Budget         \* bound: attempts of both players, and calls, connections and
                 \* links that fail, all together

Player == {Host, Guest}
Attempt == Player \X (1 .. MaxAttempts)
HostAttempt == {a \in Attempt : a[1] = Host}
Self == [a \in Attempt |-> a]

ASSUME LobbyAssumption ==
  /\ Socket = Attempt /\ Holder = Self /\ Code = HostAttempt
  /\ Mode \subseteq {"friend", "ranked"} /\ MaxAttempts \in Nat /\ Budget \in Nat
  /\ Host # Guest /\ None \notin Attempt \cup (Attempt \X Attempt)

VARIABLES
  mode,     \* how the players meet
  app,      \* app[p]: the lobby variables of the page
  work,     \* <<a, step>>: continuations the page of a still awaits
  shown,    \* the room codes that a host was shown, and read out
  link,     \* link[a]: the transport of an attempt
  driver,   \* driver[a]: the NetDriver of an attempt
  inbox,    \* inbox[a]: controls on the data channel to a
  cand,     \* cand[a]: where a's ICE candidate is
  faults    \* faults so far

peerVars == <<link, driver, inbox, cand>>
vars == <<roomVars, mode, app, work, shown, peerVars, faults>>

\* The page after closeNet().
Idle == [screen |-> "menu", at |-> None, peer |-> None, neg |-> None, sdp |-> FALSE,
         token |-> None, net |-> None, sig |-> None, record |-> None, busy |-> FALSE,
         tries |-> 0]
NoLink == [state |-> "none", mate |-> None, remote |-> FALSE]
NoDriver == [state |-> "none", token |-> None, seed |-> None, local |-> FALSE,
             mate |-> FALSE, started |-> FALSE]

Or(S) == S \cup {None}
Seed == HostAttempt \X (Attempt \ HostAttempt)
OfPlayer(p) == {a \in Attempt : a[1] = p}
Message == [t : {"hello", "welcome", "profile", "ready", "city-match", "quit"},
            token : Or(HostAttempt), seed : Or(Seed), record : Or(HostAttempt)]

TypeOK ==
  /\ RoomTypeOK
  /\ mode \in Mode
  /\ \A p \in Player :
       app[p] \in [screen : {"menu", "lobby", "netready", "match"}, at : Or(OfPlayer(p)),
                  peer : Or(Attempt \ OfPlayer(p)), neg : Or(Attempt), sdp : BOOLEAN,
                  token : Or(HostAttempt), net : Or(Attempt), sig : Or(Attempt),
                  record : Or(HostAttempt), busy : BOOLEAN, tries : Nat]
  /\ work \subseteq Attempt \X {"assigned", "connect", "create", "join", "offer", "accept",
                                "answer", "hook", "record"}
  /\ link \in [Attempt -> [state : {"none", "connecting", "open", "closed"},
                           mate : Or(Attempt), remote : BOOLEAN]]
  /\ driver \in [Attempt -> [state : {"none", "handshake", "playing", "closed"},
                             token : Or(HostAttempt), seed : Or(Seed), local : BOOLEAN,
                             mate : BOOLEAN, started : BOOLEAN]]
  /\ inbox \in [Attempt -> Seq(Message)]
  /\ shown \subseteq Code
  /\ cand \in [Attempt -> {"none", "sent", "queued", "pending", "applied", "dropped"}]
  /\ faults \in 0 .. Budget

Init ==
  /\ RoomInit
  /\ mode \in Mode
  /\ app = [p \in Player |-> Idle]
  /\ work = {} /\ shown = {}
  /\ link = [a \in Attempt |-> NoLink]
  /\ driver = [a \in Attempt |-> NoDriver]
  /\ inbox = [a \in Attempt |-> <<>>]
  /\ cand = [a \in Attempt |-> "none"]
  /\ faults = 0

-----------------------------------------------------------------------------
Current(a) == app[a[1]].at = a
Screen(a) == app[a[1]].screen
Alive(a) == Current(a) /\ Screen(a) = "lobby"
InLobby(a) == Current(a) /\ Screen(a) \in {"lobby", "netready"}
Hosting(a) == a[1] = Host

\* The attempt at the other end of a's driver.
Mate(a) == link[a].mate

Set(a, field, value) == [app EXCEPT ![a[1]] = [@ EXCEPT ![field] = value]]

Control(t) == [t |-> t, token |-> None, seed |-> None, record |-> None]
Hello(a) == [Control("hello") EXCEPT !.token = driver[a].token]
AsPacket(m) == [t |-> "packet", body |-> m]

Affordable(n) == app[Host].tries + app[Guest].tries + faults + n <= Budget
Fault == Affordable(1) /\ faults' = faults + 1

\* transport.send() of the controls ms: on the data channel, or through the room.
Sent(a, ms) ==
  IF mode = "friend"
  THEN /\ inbox' = IF link[a].state = "open" /\ link[Mate(a)].state # "closed"
                   THEN [inbox EXCEPT ![Mate(a)] = @ \o ms] ELSE inbox
       /\ up' = up
  ELSE /\ up' = Says(a, [i \in DOMAIN ms |-> AsPacket(ms[i])])
       /\ inbox' = inbox

-----------------------------------------------------------------------------
(***************************************************************************)
(* closeNet(): every way out of the lobby or the match.                    *)
(***************************************************************************)
\* RTCTransport.close(): no callback of it fires any more.
LinkClosed(t) == [link EXCEPT ![t].state = "closed"]

\* The driver says quit and closes its transport; with no driver yet, the
\* transport of the negotiation is closed.  A quit may die with the channel, and
\* nothing is said on a transport that is already down.
CloseTransport(p, words) ==
  LET d == app[p].net
      t == IF d # None THEN d ELSE app[p].neg
      b == IF t # None THEN Mate(t) ELSE None
      heard == IF d = None \/ mode = "ranked" \/ link[d].state # "open"
               THEN {<<>>} ELSE {<<>>, words}
  IN /\ link' = IF t = None THEN link ELSE LinkClosed(t)
     /\ driver' = IF d = None THEN driver ELSE [driver EXCEPT ![d].state = "closed"]
     /\ \E last \in heard :
          inbox' = [a \in Attempt |-> CASE a = t -> <<>>
                                        [] a = b /\ link[b].state # "closed" -> inbox[a] \o last
                                        [] OTHER -> inbox[a]]

\* Friends hang up the signalling socket; a ranked transport is its socket.
CloseSocket(p, words) ==
  IF mode = "friend" /\ app[p].sig # None THEN HangUp(app[p].sig, <<[t |-> "leave-room"]>>)
  ELSE IF mode = "ranked" /\ app[p].net # None
  THEN HangUp(app[p].net, [i \in DOMAIN words |-> AsPacket(words[i])])
  ELSE UNCHANGED <<sock, up, down>>

Menu(p, busy) == [app EXCEPT ![p] = [Idle EXCEPT !.busy = busy, !.tries = app[p].tries]]
Down(p, words) == CloseTransport(p, words) /\ CloseSocket(p, words) /\ UNCHANGED <<room, cand>>
Quit == <<Control("quit")>>

CloseNet(p) == app' = Menu(p, app[p].busy) /\ Down(p, Quit)

\* The same when the transport has closed already (peerDropped, connection lost).
CloseNetOnDrop(p) == app' = Menu(p, app[p].busy) /\ Down(p, <<>>)

-----------------------------------------------------------------------------
(***************************************************************************)
(* Starting, and what a start awaits first.                                *)
(***************************************************************************)
Begin(p, step) ==
  LET a == <<p, app[p].tries + 1>>
  IN /\ app[p].screen = "menu" /\ a \in Attempt /\ Affordable(1)
     /\ app' = [app EXCEPT ![p] = [@ EXCEPT !.screen = "lobby", !.at = a, !.tries = a[2]]]
     /\ work' = work \cup {<<a, step>>}

\* startHost() and cloudJoin(): a friend types a code that a host was shown.
Start(p) ==
  /\ mode = "friend" /\ Begin(p, "connect")
  /\ UNCHANGED <<roomVars, mode, shown, peerVars, faults>>

\* The matchmaker pairs the next attempts of both and allocates their room; each
\* learns of it from its next poll.
Pair ==
  LET h == <<Host, app[Host].tries + 1>>
      g == <<Guest, app[Guest].tries + 1>>
  IN /\ mode = "ranked" /\ {h, g} \subseteq Attempt /\ Affordable(2)
     /\ \A p \in Player : app[p].screen = "menu" /\ <<<<p, app[p].tries>>, "assigned">> \notin work
     /\ CreateRoom(h, h, {h, g})
     /\ app' = [p \in Player |-> [app[p] EXCEPT !.tries = @ + 1]]
     /\ work' = work \cup {<<h, "assigned">>, <<g, "assigned">>}
     /\ link' = [link EXCEPT ![h].mate = g, ![g].mate = h]
     /\ UNCHANGED <<mode, shown, driver, inbox, cand, faults>>

RoomOf(a) == IF Hosting(a) THEN a ELSE Mate(a)

\* startRankedMatch(), or the search was given up before the reply came.
Assigned(a) ==
  /\ <<a, "assigned">> \in work
  /\ \/ /\ app' = [app EXCEPT ![a[1]] = [@ EXCEPT !.screen = "lobby", !.at = a]]
        /\ work' = (work \ {<<a, "assigned">>}) \cup {<<a, "join">>}
        /\ OpenSocket(a, RoomOf(a))
     \/ /\ work' = work \ {<<a, "assigned">>}
        /\ UNCHANGED <<app, roomVars>>
  /\ UNCHANGED <<mode, shown, peerVars, faults>>

\* connectSignal() is under way: which server this is, then a probe of its socket.
Connecting(a) == <<a, "connect">> \in work

\* connectSignal() has answered.  A guest goes on to the room it was told of.
Connected(a) ==
  /\ Connecting(a)
  /\ UNCHANGED <<mode, shown, peerVars, faults>>
  /\ LET rest == work \ {<<a, "connect">>}
     IN \/ /\ ~Alive(a)
           /\ work' = rest /\ UNCHANGED <<app, roomVars>>
        \/ /\ Alive(a) /\ Hosting(a)
           /\ app' = Set(a, "sig", a)
           /\ work' = rest \cup {<<a, "create">>}
           /\ UNCHANGED roomVars
        \/ /\ Alive(a) /\ ~Hosting(a)
           /\ app' = Set(a, "sig", a)
           /\ work' = rest \cup {<<a, "join">>}
           /\ \E c \in shown : OpenSocket(a, c)

\* POST /api/rooms has answered; the socket is opened although the player may
\* have left the lobby meanwhile.
Created(a) ==
  /\ <<a, "create">> \in work
  /\ work' = (work \ {<<a, "create">>}) \cup {<<a, "join">>}
  /\ room' = [room EXCEPT ![a] = [status |-> "open", members |-> <<a>>,
                                  roster |-> {}, sessions |-> <<>>]]
  /\ sock' = [sock EXCEPT ![a] = [phase |-> "opening", code |-> a]]
  /\ UNCHANGED <<up, down, mode, app, shown, peerVars, faults>>

Coming(a, t) == down[a] # <<>> /\ Head(down[a]).t = t

\* The socket closed before the room was joined: refused, hung up or broken.
JoinRefused(a) == sock[a].phase \in {"left", "shut", "done"} /\ ~Coming(a, "room-joined")

\* A call of the start fails or takes too long; only the current attempt cares.
\* A ranked socket is closed in any case.
StartFails(a) ==
  /\ \E step \in {"connect", "create", "join"} :
       /\ <<a, step>> \in work
       /\ work' = work \ {<<a, step>>}
       /\ IF step = "join" /\ JoinRefused(a) THEN UNCHANGED faults ELSE Fault
  /\ IF Alive(a) THEN CloseNet(a[1])
     ELSE /\ IF mode = "ranked" THEN HangUp(a, <<>>) ELSE UNCHANGED <<sock, up, down>>
          /\ UNCHANGED <<room, app, peerVars>>
  /\ UNCHANGED <<mode, shown>>

-----------------------------------------------------------------------------
(***************************************************************************)
(* What comes on the socket of an attempt.                                 *)
(***************************************************************************)
\* hookDriver(): the driver of an attempt takes over its transport.
Hook(a) ==
  [driver EXCEPT ![a] = [NoDriver EXCEPT !.state = "handshake", !.token = app[a[1]].token]]

\* Slip: the join of a lobby that is over is just forgotten.
JoinedAndForgotten(a) ==
  /\ mode = "friend" /\ <<a, "join">> \in work /\ Coming(a, "room-joined")
  /\ work' = work \ {<<a, "join">>}
  /\ down' = Heard(a)
  /\ IF Alive(a)
     THEN /\ app' = Set(a, "token", sock[a].code)
          /\ shown' = IF Hosting(a) THEN shown \cup {a} ELSE shown
     ELSE UNCHANGED <<app, shown>>
  /\ UNCHANGED <<room, sock, up, mode, peerVars, faults>>

\* room-joined, for the friend who waits for it: the room is entered, or left at
\* once if the player gave up meanwhile.
Joined(a) ==
  /\ mode = "friend" /\ <<a, "join">> \in work /\ Coming(a, "room-joined")
  /\ work' = work \ {<<a, "join">>}
  /\ IF Alive(a)
     THEN /\ app' = Set(a, "token", sock[a].code)
          /\ shown' = IF Hosting(a) THEN shown \cup {a} ELSE shown
          /\ down' = Heard(a)
          /\ UNCHANGED <<sock, up>>
     ELSE HangUp(a, <<[t |-> "leave-room"]>>) /\ UNCHANGED <<app, shown>>
  /\ UNCHANGED <<room, mode, peerVars, faults>>

\* room-joined, for a ranked player: the transport is open and the driver hooked;
\* the guest's driver says hello.
RelayOpens(a) ==
  /\ mode = "ranked" /\ <<a, "join">> \in work /\ Coming(a, "room-joined")
  /\ work' = work \ {<<a, "join">>}
  /\ IF Alive(a)
     THEN LET d == [NoDriver EXCEPT !.state = "handshake", !.token = sock[a].code]
          IN /\ app' = [app EXCEPT ![a[1]] = [@ EXCEPT !.token = sock[a].code, !.net = a]]
             /\ driver' = [driver EXCEPT ![a] = d]
             /\ link' = [link EXCEPT ![a].state = "open"]
             /\ down' = Heard(a)
             /\ up' = IF Hosting(a) THEN up
                      ELSE Says(a, <<AsPacket([Control("hello") EXCEPT !.token = sock[a].code])>>)
             /\ UNCHANGED sock
     ELSE HangUp(a, <<>>) /\ UNCHANGED <<app, driver, link>>
  /\ UNCHANGED <<room, mode, shown, inbox, cand, faults>>

\* The callbacks of a signalling client are attached until it is closed.
Attached(a) == mode = "friend" /\ app[a[1]].sig = a

Signal(a, body) == Coming(a, "signaled") /\ Head(down[a]).body = body
Sender(a) == Head(down[a]).from
FromPeer(a) ==
  app[a[1]].peer = Sender(a) \/ (~Hosting(a) /\ app[a[1]].peer = None)

WantsPeer(a) ==
  Attached(a) /\ Coming(a, "peer-joined") /\ Hosting(a) /\ Alive(a) /\ app[a[1]].peer = None

\* Slip: only the host listens for its friend's leaving.
HostSeesLeaving(a) == Hosting(a) /\ Attached(a) /\ Coming(a, "peer-left") /\ InLobby(a)
SeesLeaving(a) == Attached(a) /\ Coming(a, "peer-left") /\ InLobby(a)
WantsIce(a) == Attached(a) /\ Signal(a, "ice") /\ InLobby(a) /\ FromPeer(a)
WantsOffer(a) ==
  Attached(a) /\ Signal(a, "offer") /\ ~Hosting(a) /\ Alive(a) /\ ~app[a[1]].sdp /\ FromPeer(a)
WantsAnswer(a) ==
  /\ Attached(a) /\ Signal(a, "answer") /\ Hosting(a) /\ Alive(a) /\ ~app[a[1]].sdp
  /\ FromPeer(a) /\ app[a[1]].neg # None

\* onPeerJoined of a host: the first peer is offered a match.
PeerJoined(a) ==
  /\ WantsPeer(a)
  /\ app' = Set(a, "peer", Head(down[a]).peer)
  /\ work' = work \cup {<<a, "offer">>}
  /\ down' = Heard(a)
  /\ UNCHANGED <<room, sock, up, mode, shown, peerVars, faults>>

\* onPeerLeft: a peer left the room, the lobby ends.
PeerLeft(a) == SeesLeaving(a) /\ CloseNet(a[1]) /\ UNCHANGED <<mode, work, shown, faults>>

\* Slip: without a transport a candidate is of no use.
IngestedOrDropped(a) ==
  IF app[a[1]].neg # a THEN "dropped" ELSE IF link[a].remote THEN "applied" ELSE "pending"

\* ingestRemoteCandidate(): to the transport if there is one, which holds it until
\* the remote description is set; else it waits for the transport.
Ingested(a) ==
  IF app[a[1]].neg # a THEN "queued" ELSE IF link[a].remote THEN "applied" ELSE "pending"

IceComes(a) ==
  /\ WantsIce(a)
  /\ cand' = [cand EXCEPT ![Sender(a)] = Ingested(a)]
  /\ down' = Heard(a)
  /\ UNCHANGED <<room, sock, up, mode, app, work, shown, link, driver, inbox, faults>>

\* onPeerSignal of a guest: the first offer is accepted.
OfferComes(a) ==
  /\ WantsOffer(a)
  /\ app' = [app EXCEPT ![a[1]] = [@ EXCEPT !.sdp = TRUE, !.peer = Sender(a)]]
  /\ work' = work \cup {<<a, "accept">>}
  /\ down' = Heard(a)
  /\ UNCHANGED <<room, sock, up, mode, shown, peerVars, faults>>

\* onPeerSignal of a host: the first answer to an offer that is out.
AnswerComes(a) ==
  /\ WantsAnswer(a)
  /\ app' = Set(a, "sdp", TRUE)
  /\ work' = work \cup {<<a, "answer">>}
  /\ down' = Heard(a)
  /\ UNCHANGED <<room, sock, up, mode, shown, peerVars, faults>>

\* Everything else the client drops: errors with nobody waiting, what comes after
\* the callbacks are detached or is not for this stage.
Ignored(a) ==
  /\ down[a] # <<>>
  /\ ~(WantsPeer(a) \/ SeesLeaving(a) \/ WantsIce(a) \/ WantsOffer(a) \/ WantsAnswer(a))
  /\ <<a, "join">> \in work => ~Coming(a, "room-joined") /\ ~Coming(a, "error")
  /\ mode = "ranked" => Coming(a, "peer-joined") \/ driver[a].state = "closed"
  /\ down' = Heard(a)
  /\ cand' = IF Signal(a, "ice") THEN [cand EXCEPT ![Sender(a)] = "dropped"] ELSE cand
  /\ UNCHANGED <<room, sock, up, mode, app, work, shown, link, driver, inbox, faults>>

Takes(a) ==
  Joined(a) \/ RelayOpens(a) \/ PeerJoined(a) \/ PeerLeft(a) \/ IceComes(a) \/ OfferComes(a)
  \/ AnswerComes(a) \/ Ignored(a)

-----------------------------------------------------------------------------
(***************************************************************************)
(* The negotiation: what createOfferTrickle(), acceptOfferTrickle() and    *)
(* acceptAnswerSdp() go on to when they resolve.                           *)
(***************************************************************************)
Done(a, step) == <<a, step>> \in work /\ work' = work \ {<<a, step>>}

\* The signal is sent to the peer of the attempt, or sendSignal() throws.
CanSignal(a) == sock[a].phase = "live"
Signalled(a, to, body) == Says(a, <<[t |-> "signal", to |-> to, body |-> body]>>)

\* The candidate of the peer that waited for a transport has one now.
Flushed(a, to) ==
  [b \in Attempt |-> IF b = app[a[1]].peer /\ cand[b] = "queued" THEN to ELSE cand[b]]

OfferMade(a) ==
  /\ Done(a, "offer")
  /\ IF ~Alive(a) THEN UNCHANGED <<roomVars, app, peerVars>>
     ELSE IF ~CanSignal(a) THEN CloseNet(a[1])
     ELSE /\ app' = Set(a, "neg", a)
          /\ link' = [link EXCEPT ![a].state = "connecting"]
          /\ cand' = Flushed(a, "pending")
          /\ up' = Signalled(a, app[a[1]].peer, "offer")
          /\ UNCHANGED <<room, sock, down, driver, inbox>>
  /\ UNCHANGED <<mode, shown, faults>>

\* acceptOfferTrickle(): the guest's transport, with the remote description set.
OfferAccepted(a) ==
  [link EXCEPT ![a] = [state |-> "connecting", mate |-> app[a[1]].peer, remote |-> TRUE]]

\* The guest's answer goes out and its driver is hooked.
Accepted(a) ==
  /\ Done(a, "accept")
  /\ IF ~Alive(a) THEN UNCHANGED <<roomVars, app, peerVars>>
     ELSE IF ~CanSignal(a) THEN CloseNet(a[1])
     ELSE /\ app' = [app EXCEPT ![a[1]] = [@ EXCEPT !.neg = a, !.net = a]]
          /\ link' = OfferAccepted(a)
          /\ driver' = Hook(a)
          /\ cand' = Flushed(a, "applied")
          /\ up' = Signalled(a, app[a[1]].peer, "answer")
          /\ UNCHANGED <<room, sock, down, inbox>>
  /\ UNCHANGED <<mode, shown, faults>>

\* flushRemote(): the candidates of the peer that the transport has held.
RemoteFlushed(a) ==
  [b \in Attempt |-> IF b = app[a[1]].peer /\ cand[b] = "pending" THEN "applied" ELSE cand[b]]

\* The host's remote description is set, and the candidates held till then go in.
Answered(a) ==
  /\ <<a, "answer">> \in work
  /\ work' = (work \ {<<a, "answer">>}) \cup {<<a, "hook">>}
  /\ link' = IF link[a].state = "closed" THEN link
             ELSE [link EXCEPT ![a].mate = app[a[1]].peer, ![a].remote = TRUE]
  /\ cand' = RemoteFlushed(a)
  /\ UNCHANGED <<roomVars, mode, app, shown, driver, inbox, faults>>

\* Slip: the continuation does not ask whether the attempt is still current.
HookedAnyway(a) ==
  /\ Done(a, "hook")
  /\ app' = Set(a, "net", a) /\ driver' = Hook(a)
  /\ UNCHANGED <<roomVars, mode, shown, link, inbox, cand, faults>>

\* The host's driver takes over the transport, whatever became of it.
Hooked(a) ==
  /\ Done(a, "hook")
  /\ IF Alive(a) THEN app' = Set(a, "net", a) /\ driver' = Hook(a)
     ELSE UNCHANGED <<app, driver>>
  /\ UNCHANGED <<roomVars, mode, shown, link, inbox, cand, faults>>

\* onicecandidate, relayed to the peer: relayIce() knows the peer of the current
\* attempt only, and a candidate for a socket that is closing is lost.
IceGathered(a) ==
  /\ mode = "friend" /\ link[a].state \in {"connecting", "open"} /\ cand[a] = "none"
  /\ LET heard == Current(a) /\ CanSignal(a)
     IN /\ up' = IF heard THEN Signalled(a, app[a[1]].peer, "ice") ELSE up
        /\ cand' = [cand EXCEPT ![a] = IF heard THEN "sent" ELSE "dropped"]
  /\ UNCHANGED <<room, sock, down, mode, app, work, shown, link, driver, inbox, faults>>

-----------------------------------------------------------------------------
(***************************************************************************)
(* The data channel.                                                       *)
(***************************************************************************)
\* onOpen(): the guest's driver says hello as the channel opens.
Greeted(a) ==
  IF ~Hosting(a) /\ driver[a].state = "handshake"
  THEN [inbox EXCEPT ![Mate(a)] = Append(@, Hello(a))] ELSE inbox

\* The browsers can reach each other: both descriptions are set and a candidate
\* has got through.
Opens(a) ==
  LET b == Mate(a)
  IN /\ mode = "friend" /\ link[a].state = "connecting" /\ link[a].remote
     /\ Mate(b) = a /\ link[b].remote /\ link[b].state # "closed"
     /\ cand[a] = "applied" \/ cand[b] = "applied"
     /\ link' = [link EXCEPT ![a].state = "open"]
     /\ inbox' = Greeted(a)
     /\ UNCHANGED <<roomVars, mode, app, work, shown, driver, cand, faults>>

\* The channel closes under an attempt: the other end closed it and all it said is
\* read, or the network failed.  The driver reports it, and the lobby or the match
\* is over.
LinkCloses(a) ==
  /\ mode = "friend" /\ link[a].state \in {"connecting", "open"} /\ link[a].remote
  /\ IF link[Mate(a)].state = "closed" /\ inbox[a] = <<>> THEN UNCHANGED faults ELSE Fault
  /\ IF app[a[1]].net = a THEN CloseNetOnDrop(a[1])
     ELSE /\ link' = [link EXCEPT ![a].state = "closed"]
          /\ inbox' = [inbox EXCEPT ![a] = <<>>]
          /\ UNCHANGED <<roomVars, app, driver, cand>>
  /\ UNCHANGED <<mode, work, shown>>

\* A ranked transport closes when the room says that the peer left, or closes it.
RelayCloses(a) ==
  /\ mode = "ranked" /\ link[a].state = "open"
  /\ \/ Coming(a, "peer-left") \/ Coming(a, "error")
     \/ down[a] = <<>> /\ a \in In("shut") \cup In("done")
  /\ CloseNetOnDrop(a[1])
  /\ UNCHANGED <<mode, work, shown, faults>>

\* A broken connection: signalling just ends, a ranked transport closes.
SocketBreaks(a) ==
  /\ Fault /\ Break(a)
  /\ IF mode = "ranked" /\ app[a[1]].net = a
     THEN /\ app' = Menu(a[1], app[a[1]].busy)
          /\ link' = [link EXCEPT ![a].state = "closed"]
          /\ driver' = [driver EXCEPT ![a].state = "closed"]
     ELSE UNCHANGED <<app, link, driver>>
  /\ UNCHANGED <<room, mode, work, shown, inbox, cand>>

-----------------------------------------------------------------------------
(***************************************************************************)
(* The record of the match that the host asks the league for.              *)
(***************************************************************************)
CityMatch(a, id) == [Control("city-match") EXCEPT !.record = id]

\* ensureCityMatch(): announced again if it is there, else asked for, unless a
\* call is under way (cityMatchBusy), be it of an earlier attempt.
Asks(a) == Hosting(a) /\ app[a[1]].record = None /\ ~app[a[1]].busy
Asked(a) == IF Asks(a) THEN {<<a, "record">>} ELSE {}
Announced(a) ==
  IF app[a[1]].record = None THEN <<>> ELSE <<CityMatch(a, app[a[1]].record)>>
Page(a, screen) ==
  LET page == app[a[1]]
  IN [app EXCEPT ![a[1]] = [page EXCEPT !.screen = screen, !.busy = page.busy \/ Asks(a)]]

\* createMatch() has answered: an answer to an attempt that is over is dropped,
\* and nobody asks again for the one that is current now.
RecordMade(a) ==
  /\ Done(a, "record")
  /\ IF app[a[1]].net = a
     THEN /\ app' = [app EXCEPT ![a[1]] = [@ EXCEPT !.busy = FALSE, !.record = a]]
          /\ Sent(a, <<CityMatch(a, a)>>)
     ELSE app' = Set(a, "busy", FALSE) /\ UNCHANGED <<up, inbox>>
  /\ UNCHANGED <<room, sock, down, mode, shown, link, driver, cand, faults>>

\* It failed: friends play a friendly, opponents do not play.
RecordFails(a) ==
  /\ Done(a, "record") /\ Fault
  /\ IF mode = "ranked" /\ app[a[1]].net = a
     THEN app' = Menu(a[1], FALSE) /\ Down(a[1], Quit)
     ELSE app' = Set(a, "busy", FALSE) /\ UNCHANGED <<roomVars, peerVars>>
  /\ UNCHANGED <<mode, shown>>

-----------------------------------------------------------------------------
(***************************************************************************)
(* The driver: hello, welcome, ready.                                      *)
(***************************************************************************)
Arriving(a) ==
  IF mode = "friend" THEN link[a].state = "open" /\ inbox[a] # <<>>
  ELSE Coming(a, "packet") /\ driver[a].state # "closed"
Foremost(a) == IF mode = "friend" THEN Head(inbox[a]) ELSE Head(down[a]).body

\* The message is taken and the controls ms go out.
Exchange(a, ms) ==
  IF mode = "friend"
  THEN /\ inbox' = [b \in Attempt |-> CASE b = a -> Tail(inbox[b])
                                        [] b = Mate(a) /\ link[b].state # "closed" -> inbox[b] \o ms
                                        [] OTHER -> inbox[b]]
       /\ UNCHANGED <<up, down>>
  ELSE /\ down' = Heard(a)
       /\ up' = Says(a, [i \in DOMAIN ms |-> AsPacket(ms[i])])
       /\ UNCHANGED inbox

Welcome(a, seed) == [Control("welcome") EXCEPT !.token = driver[a].token, !.seed = seed]
Mismatch(a) == Foremost(a).token # driver[a].token
Hears(a, t, state) == Arriving(a) /\ Foremost(a).t = t /\ driver[a].state = state

\* begin(): the session of the seed is there.
Begun(a, seed) == [driver EXCEPT ![a] = [@ EXCEPT !.state = "playing", !.seed = seed]]

\* The first hello: the host deals the seed, and both sides' identities are known.
HelloComes(a) ==
  /\ Hosting(a) /\ Hears(a, "hello", "handshake")
  /\ IF Mismatch(a) THEN CloseNet(a[1]) /\ UNCHANGED work
     ELSE LET seed == <<a, Mate(a)>>
          IN /\ driver' = Begun(a, seed)
             /\ Exchange(a, <<Welcome(a, seed)>>)
             /\ app' = Page(a, "netready") /\ work' = work \cup Asked(a)
             /\ UNCHANGED <<room, sock, link, cand>>
  /\ UNCHANGED <<mode, shown, faults>>

\* Slip: every hello deals a seed of its own.
DealtAnew(a) == <<Mate(a), a>>
HelloAgainAnew(a) ==
  /\ Hosting(a) /\ Hears(a, "hello", "playing")
  /\ Exchange(a, <<Welcome(a, DealtAnew(a))>>)
  /\ driver' = [driver EXCEPT ![a].seed = DealtAnew(a)]
  /\ UNCHANGED <<room, sock, mode, app, work, shown, link, cand, faults>>

\* A hello that was repeated before the welcome came: the same welcome again.
HelloAgain(a) ==
  /\ Hosting(a) /\ Hears(a, "hello", "playing")
  /\ Exchange(a, <<Welcome(a, driver[a].seed)>>)
  /\ UNCHANGED <<room, sock, mode, app, work, shown, link, driver, cand, faults>>

WelcomeComes(a) ==
  /\ ~Hosting(a) /\ Hears(a, "welcome", "handshake")
  /\ IF Mismatch(a) THEN CloseNet(a[1])
     ELSE /\ driver' = Begun(a, Foremost(a).seed)
          /\ Exchange(a, <<Control("profile")>>)
          /\ app' = Page(a, "netready")
          /\ UNCHANGED <<room, sock, link, cand>>
  /\ UNCHANGED <<mode, work, shown, faults>>

\* peerProfile: the host asks for the record, if it still may.
ProfileComes(a) ==
  /\ Hears(a, "profile", "playing")
  /\ Exchange(a, IF Hosting(a) THEN Announced(a) ELSE <<>>)
  /\ app' = Page(a, Screen(a)) /\ work' = work \cup Asked(a)
  /\ UNCHANGED <<room, sock, mode, shown, link, driver, cand, faults>>

\* cityMatch: the first record that is announced counts.
RecordComes(a) ==
  /\ Hears(a, "city-match", "playing")
  /\ Exchange(a, <<>>)
  /\ app' = IF app[a[1]].record = None THEN Set(a, "record", Foremost(a).record) ELSE app
  /\ UNCHANGED <<room, sock, mode, work, shown, link, driver, cand, faults>>

\* maybeStart() and launchNet(): with both ready the match begins, and the record
\* is announced, or asked for, once more.
Starts(a, d) == d.local /\ d.mate /\ ~d.started
Gated(a, d) == [driver EXCEPT ![a] = [d EXCEPT !.started = @ \/ Starts(a, d)]]

\* Slip: the peer's ready is noted, and only one's own press starts the match.
ReadyNoted(a) ==
  /\ Hears(a, "ready", "playing")
  /\ driver' = [driver EXCEPT ![a].mate = TRUE]
  /\ Exchange(a, <<>>)
  /\ UNCHANGED <<room, sock, mode, app, work, shown, link, cand, faults>>

ReadyComes(a) ==
  LET d == [driver[a] EXCEPT !.mate = TRUE]
  IN /\ Hears(a, "ready", "playing")
     /\ driver' = Gated(a, d)
     /\ Exchange(a, IF Starts(a, d) THEN Announced(a) ELSE <<>>)
     /\ app' = IF Starts(a, d) THEN Page(a, "match") ELSE app
     /\ work' = IF Starts(a, d) THEN work \cup Asked(a) ELSE work
     /\ UNCHANGED <<room, sock, mode, shown, link, cand, faults>>

\* doReady(): the player, or the timer of a ranked lobby once it has a record.
Ready(p) ==
  LET a == app[p].net
      d == [driver[a] EXCEPT !.local = TRUE]
  IN /\ app[p].screen = "netready" /\ a # None /\ ~driver[a].local
     /\ mode = "ranked" => app[p].record # None
     /\ driver' = Gated(a, d)
     /\ Sent(a, <<Control("ready")>> \o IF Starts(a, d) THEN Announced(a) ELSE <<>>)
     /\ app' = IF Starts(a, d) THEN Page(a, "match") ELSE app
     /\ work' = IF Starts(a, d) THEN work \cup Asked(a) ELSE work
     /\ UNCHANGED <<room, sock, down, mode, shown, link, cand, faults>>

QuitComes(a) ==
  /\ Arriving(a) /\ Foremost(a).t = "quit" /\ driver[a].state = "playing"
  /\ CloseNet(a[1])
  /\ UNCHANGED <<mode, work, shown, faults>>

\* What reaches a transport with no driver yet, or a driver at another stage.
Unheard(a) ==
  /\ Arriving(a)
  /\ \/ driver[a].state = "none"
     \/ driver[a].state = "handshake" /\ Foremost(a).t # (IF Hosting(a) THEN "hello" ELSE "welcome")
     \/ driver[a].state = "playing" /\ Foremost(a).t = "welcome"
  /\ Exchange(a, <<>>)
  /\ UNCHANGED <<room, sock, mode, app, work, shown, link, driver, cand, faults>>

Listens(a) ==
  HelloComes(a) \/ HelloAgain(a) \/ WelcomeComes(a) \/ ProfileComes(a) \/ RecordComes(a)
  \/ ReadyComes(a) \/ QuitComes(a) \/ Unheard(a)

\* poll(): the guest says hello again while it has no answer, and either side gives up
\* on the handshake after a while.  An answer that is later than the next hello counts
\* as a fault.
AllHeard(a) ==
  LET b == Mate(a) IN
  IF mode = "friend" THEN inbox[a] = <<>> /\ inbox[b] = <<>>
  ELSE up[a] = <<>> /\ up[b] = <<>> /\ down[a] = <<>> /\ down[b] = <<>>
HelloRetried(a) ==
  /\ ~Hosting(a) /\ app[a[1]].net = a /\ driver[a].state = "handshake"
  /\ link[a].state = "open"
  /\ IF AllHeard(a) THEN UNCHANGED faults ELSE Fault
  /\ Sent(a, <<Hello(a)>>)
  /\ UNCHANGED <<room, sock, down, mode, app, work, shown, link, driver, cand>>

HandshakeTimesOut(a) ==
  /\ app[a[1]].net = a /\ driver[a].state = "handshake"
  /\ CloseNet(a[1])
  /\ UNCHANGED <<mode, work, shown, faults>>

-----------------------------------------------------------------------------
\* Cancel in the lobby, or quit in the match.
Leave(p) ==
  /\ app[p].screen \in {"lobby", "netready", "match"}
  /\ CloseNet(p)
  /\ UNCHANGED <<mode, work, shown, faults>>

\* The Room object, the runtime, and the room's time.
RoomActs ==
  /\ \/ \E s \in Socket : RoomStep(s)
     \/ \E c \in Code : Alarm(c)
  /\ UNCHANGED <<mode, app, work, shown, peerVars, faults>>
RoomExpires ==
  /\ Fault /\ \E c \in Code : Expire(c)
  /\ UNCHANGED <<mode, app, work, shown, peerVars>>

Continues(a) ==
  Assigned(a) \/ Connected(a) \/ Created(a) \/ StartFails(a) \/ OfferMade(a) \/ Accepted(a)
  \/ Answered(a) \/ Hooked(a) \/ RecordMade(a) \/ RecordFails(a)

Next ==
  \/ \E p \in Player : Start(p) \/ Ready(p) \/ Leave(p)
  \/ Pair
  \/ \E a \in Attempt : \/ Continues(a) \/ Takes(a) \/ Listens(a)
                        \/ IceGathered(a) \/ Opens(a) \/ LinkCloses(a) \/ RelayCloses(a)
                        \/ SocketBreaks(a) \/ HelloRetried(a) \/ HandshakeTimesOut(a)
  \/ RoomActs \/ RoomExpires

Spec == Init /\ [][Next]_vars
-----------------------------------------------------------------------------
(***************************************************************************)
(* Properties.                                                             *)
(***************************************************************************)
\* No cross-talk: whatever an attempt still awaits when the player gives it up
\* (an offer, an answer, a join, a driver) never lands in a lobby or a match that
\* came later (the token and netGen checks), nor in the menu.
OwnAttemptOnly ==
  \A p \in Player : {app[p].net, app[p].neg, app[p].sig} \subseteq {app[p].at, None}

\* Two drivers that play with each other play the same match, whatever was said
\* twice on the way: one seed, dealt once, and the token of one room.
SamePairing ==
  \A a, b \in Attempt :
    (Mate(a) = b /\ Mate(b) = a /\ driver[a].state = "playing" /\ driver[b].state = "playing")
      => driver[a].seed = driver[b].seed /\ driver[a].token = driver[b].token

\* Trickle ICE loses nothing to the timing of offer and answer: while two friends
\* are in one lobby no candidate is dropped, unless its sender lost its signalling
\* socket, and none is still held back once there is a description to apply it to.
Paired(a, b) == InLobby(a) /\ InLobby(b) /\ app[a[1]].peer = b /\ app[b[1]].peer = a
NoCandidateLost ==
  \A a, b \in Attempt : Paired(a, b) =>
    /\ cand[a] = "dropped" => ~CanSignal(a)
    /\ link[b].remote => cand[a] \notin {"queued", "pending"}

\* The record under which a result will be reported is that of this match: a record
\* that was asked for in a lobby that is over is not taken into the next one, and
\* the guest has the record of the host it plays with.
SameRecord ==
  \A p \in Player : app[p].record # None =>
    app[p].record = IF p = Host THEN app[p].at ELSE Mate(app[p].at)

\* Both sides play, and will report, the same match.
SameMatch == SamePairing /\ SameRecord

\* A given-up attempt does not stay in its room: its socket is closed, or will be
\* when what it awaits has come, so that its friend is told.  A call that timed out
\* is the exception: cloudJoin() then forgets an open socket.
NoSocketForgotten ==
  \A a \in Attempt : faults = 0 /\ ~Current(a) /\ a \in In("live") => <<a, "join">> \in work

\* What happens without the players' doing: the server, the network, the browsers
\* and the page's own continuations and timers.  When nothing of it can happen any
\* more, both sides have heard all they will ever hear.
Progress ==
  \/ \E a \in Attempt : \/ Continues(a) \/ Takes(a) \/ Listens(a) \/ HandshakeTimesOut(a)
                        \/ Opens(a) \/ LinkCloses(a) \/ RelayCloses(a)
  \/ RoomActs
Settled == ~ENABLED Progress

\* Nobody waits for a player who is gone: while a player is in the lobby or the match
\* of a pairing that its opponent has left, something is still to come that tells it,
\* unless its own signalling socket is lost, which would.
Over(a) == ~Current(a) /\ <<a, "assigned">> \notin work
Opponent(a) ==
  IF mode = "ranked" THEN Mate(a) ELSE IF Hosting(a) THEN app[a[1]].peer ELSE sock[a].code
LobbyEnds ==
  \A a, b \in Attempt :
    Current(a) /\ a \in In("live") /\ b = Opponent(a) /\ Over(b) => ~Settled

\* Nobody kicks off alone: while one side has started and the other has not, something
\* is still to come that starts it, or ends the match.
StartTogether ==
  \A a \in Attempt :
    Current(a) /\ driver[a].started /\ ~driver[Mate(a)].started => ~Settled
=============================================================================
