---------------------------- MODULE LobbyProofs ----------------------------
(***************************************************************************)
(* Proofs about the lobby, for any number of attempts and of faults: what  *)
(* an attempt still awaits never lands in a later one, the socket of an    *)
(* attempt that is over is closed, and two players who play are in the     *)
(* same match under the same record.                                       *)
(***************************************************************************)
EXTENDS Lobby, WellFoundedInduction, TLAPS

PageField == {"screen", "at", "peer", "neg", "sdp", "token", "net", "sig", "record", "busy",
              "tries"}
DriverField == {"state", "token", "seed", "local", "mate", "started"}
Step == {"assigned", "connect", "create", "join", "offer", "accept", "answer", "hook", "record"}

\* What the steps of the proofs need to know of the shape of the variables.
Pages == DOMAIN app = Player /\ \A p \in Player : DOMAIN app[p] = PageField
Drivers == DOMAIN driver = Attempt /\ \A a \in Attempt : DOMAIN driver[a] = DriverField
Sockets == DOMAIN sock = Attempt /\ \A a \in Attempt : DOMAIN sock[a] = {"phase", "code"}
Shaped ==
  /\ Pages /\ Drivers /\ Sockets
  /\ work \subseteq Attempt \X Step
  /\ mode \in {"friend", "ranked"} /\ faults \in Nat

\* The transports and the signalling client of a page are those of its current attempt,
\* and the menu has no attempt.
Own ==
  \A p \in Player :
    /\ app[p].at \in Or(OfPlayer(p)) /\ app[p].tries \in Nat
    /\ app[p].net \in {app[p].at, None} /\ app[p].neg \in {app[p].at, None}
    /\ app[p].sig \in {app[p].at, None}
    /\ app[p].screen = "menu" => app[p].at = None

\* A driver that is not closed is the page's.
Driven == \A a \in Attempt : driver[a].state \in {"handshake", "playing"} => app[a[1]].net = a

\* A player who was paired stays in the menu until he learns of it.
PairedInMenu ==
  \A a \in Attempt : <<a, "assigned">> \in work =>
    mode = "ranked" /\ a[2] = app[a[1]].tries /\ app[a[1]].screen = "menu"

\* Nothing is known of the attempts still to come.
Tried ==
  \A a \in Attempt :
    (app[a[1]].at = a \/ sock[a].phase # "idle" \/ \E w \in work : w[1] = a) =>
      a[2] <= app[a[1]].tries

\* While an attempt awaits the signalling service it has nothing else yet.
Calling ==
  \A a \in Attempt : <<a, "connect">> \in work =>
    /\ mode = "friend" /\ sock[a].phase = "idle"
    /\ \A w \in work : w[1] = a => w[2] = "connect"
    /\ app[a[1]].sig # a /\ app[a[1]].net # a

\* Unless a call has failed, a friend's attempt has its signalling client, or awaits it.
Signalling ==
  faults = 0 /\ mode = "friend" => \A a \in Attempt : Current(a) =>
    app[a[1]].sig = a \/ (<<a, "connect">> \in work /\ Screen(a) = "lobby")

\* Unless a call has failed, a socket is its page's to hang up, or will be noticed when
\* the join that is awaited has come.
Watched ==
  faults = 0 => \A a \in Attempt : sock[a].phase \in {"opening", "live"} =>
    \/ <<a, "join">> \in work
    \/ Current(a) /\ IF mode = "friend" THEN app[a[1]].sig = a ELSE app[a[1]].net = a

LobbyInv ==
  Shaped /\ Own /\ Driven /\ PairedInMenu /\ Tried /\ Calling /\ Signalling /\ Watched

\* An attempt is a player and a number.
LEMMA Attempts ==
  /\ \A a \in Attempt : a[1] \in Player /\ a[2] \in Nat /\ a = <<a[1], a[2]>> /\ a # None
                        /\ a \in OfPlayer(a[1])
  /\ \A p \in Player, n \in Nat : <<p, n>>[1] = p /\ <<p, n>>[2] = n
  /\ Socket = Attempt
  /\ \A p \in Player : \A a \in OfPlayer(p) : a \in Attempt /\ a[1] = p
<1>1. None \notin Attempt /\ MaxAttempts \in Nat /\ Socket = Attempt
  BY LobbyAssumption
<1>2. \A a \in Attempt : a[1] \in Player /\ a[2] \in Nat /\ a = <<a[1], a[2]>>
  BY <1>1 DEF Attempt
<1> QED
  BY <1>1, <1>2 DEF OfPlayer

-----------------------------------------------------------------------------
(***************************************************************************)
(* What a step may do to a page that keeps its attempt.                    *)
(***************************************************************************)
\* Only the current attempt gets a transport or a signalling client, and a page with a
\* driver may go on to another screen.
StaysPut(p) ==
  /\ app'[p].at = app[p].at /\ app'[p].tries = app[p].tries
  /\ app'[p].net \in {app[p].net, app[p].at} /\ app'[p].neg \in {app[p].neg, app[p].at}
  /\ app'[p].sig \in {app[p].sig, app[p].at}
  /\ app'[p].screen = app[p].screen \/ (app[p].net # None /\ app'[p].screen # "menu")

\* What is new to await is no call of the start, and of an attempt that has been answered.
NewWork(w) ==
  /\ w[2] \notin {"connect", "assigned"} /\ <<w[1], "connect">> \notin work'
  /\ app[w[1][1]].at = w[1] \/ \E v \in work : v[1] = w[1]

\* A call of the start that is awaited no more has been answered, or has failed.
DoneWork(a) ==
  /\ <<a, "connect">> \in work \ work' =>
       faults' # 0 \/ ~Alive(a) \/ app'[a[1]].sig = a
  /\ <<a, "join">> \in work \ work' =>
       \/ faults' # 0 \/ sock'[a].phase \notin {"opening", "live"}
       \/ /\ Current(a)
          /\ mode = "friend" \/ app'[a[1]].net = a

\* A socket is opened by an attempt that awaits its opening.
SocketStays(a) ==
  /\ sock'[a].phase # "idle" =>
       sock[a].phase # "idle"
       \/ (<<a, "connect">> \notin work' /\ \E w \in work : w[1] = a)
  /\ sock'[a].phase \in {"opening", "live"} =>
       sock[a].phase \in {"opening", "live"} \/ <<a, "join">> \in work'

\* A step of pages that keep their attempts preserves the invariant.
LEMMA PageStays ==
  ASSUME LobbyInv, Shaped', mode' = mode, faults' # 0 \/ faults = 0,
         \A p \in Player : StaysPut(p),
         \A a \in Attempt : driver'[a].state \in {"handshake", "playing"} =>
           driver[a].state \in {"handshake", "playing"} \/ app'[a[1]].net = a,
         \A w \in work' \ work : NewWork(w),
         \A a \in Attempt : DoneWork(a) /\ SocketStays(a),
         \A a \in Attempt : <<a, "connect">> \in work' =>
           app'[a[1]].sig # a /\ app'[a[1]].net # a
  PROVE  LobbyInv'
<1>0. \A a \in Attempt : a[1] \in Player /\ a[2] \in Nat /\ a # None
  BY Attempts
<1>1. Own'
  <2>1. ASSUME NEW p \in Player
        PROVE  /\ app'[p].at \in Or(OfPlayer(p)) /\ app'[p].tries \in Nat
               /\ app'[p].net \in {app'[p].at, None} /\ app'[p].neg \in {app'[p].at, None}
               /\ app'[p].sig \in {app'[p].at, None}
               /\ app'[p].screen = "menu" => app'[p].at = None
    <3>1. StaysPut(p)
      OBVIOUS
    <3>2. /\ app[p].at \in Or(OfPlayer(p)) /\ app[p].tries \in Nat
          /\ app[p].net \in {app[p].at, None} /\ app[p].neg \in {app[p].at, None}
          /\ app[p].sig \in {app[p].at, None}
          /\ app[p].screen = "menu" => app[p].at = None
      BY DEF LobbyInv, Own
    <3> QED
      BY <3>1, <3>2 DEF StaysPut
  <2> QED
    BY <2>1 DEF Own
<1>2. Driven'
  <2>1. \A p \in Player : app[p].net # None => app'[p].net = app[p].net
    BY DEF LobbyInv, Own, StaysPut
  <2> QED
    BY <1>0, <2>1 DEF LobbyInv, Driven
<1>3. PairedInMenu'
  <2>1. ASSUME NEW a \in Attempt, <<a, "assigned">> \in work'
        PROVE  mode = "ranked" /\ a[2] = app'[a[1]].tries /\ app'[a[1]].screen = "menu"
    <3>1. <<a, "assigned">> \in work
      <4>1. NewWork(<<a, "assigned">>) => <<a, "assigned">>[2] # "assigned"
        BY DEF NewWork
      <4> QED
        BY <2>1, <4>1
    <3>2. mode = "ranked" /\ a[2] = app[a[1]].tries /\ app[a[1]].screen = "menu"
      BY <3>1 DEF LobbyInv, PairedInMenu
    <3>3. app[a[1]].net = None
      BY <1>0, <3>2 DEF LobbyInv, Own
    <3> QED
      BY <1>0, <3>2, <3>3 DEF StaysPut
  <2> QED
    BY <2>1 DEF PairedInMenu
<1>4. Tried'
  <2>1. ASSUME NEW a \in Attempt,
               app'[a[1]].at = a \/ sock'[a].phase # "idle" \/ \E w \in work' : w[1] = a
        PROVE  a[2] <= app'[a[1]].tries
    <3>1. app'[a[1]].at = app[a[1]].at /\ app'[a[1]].tries = app[a[1]].tries
      BY <1>0 DEF StaysPut
    <3>2. app[a[1]].at = a \/ sock[a].phase # "idle" \/ \E w \in work : w[1] = a
      <4>1. CASE app'[a[1]].at = a
        BY <3>1, <4>1
      <4>2. CASE sock'[a].phase # "idle"
        BY <4>2 DEF SocketStays
      <4>3. ASSUME NEW w \in work', w[1] = a
            PROVE  app[a[1]].at = a \/ \E v \in work : v[1] = a
        <5>1. w \in work \/ NewWork(w)
          BY <4>3
        <5> QED
          BY <4>3, <5>1 DEF NewWork
      <4> QED
        BY <2>1, <4>1, <4>2, <4>3
    <3> QED
      BY <3>1, <3>2 DEF LobbyInv, Tried
  <2> QED
    BY <2>1 DEF Tried
<1>5. Calling'
  <2>1. ASSUME NEW a \in Attempt, <<a, "connect">> \in work'
        PROVE  /\ mode = "friend" /\ sock'[a].phase = "idle"
               /\ \A w \in work' : w[1] = a => w[2] = "connect"
               /\ app'[a[1]].sig # a /\ app'[a[1]].net # a
    <3>1. <<a, "connect">> \in work
      BY <2>1 DEF NewWork
    <3>2. /\ mode = "friend" /\ sock[a].phase = "idle"
          /\ \A w \in work : w[1] = a => w[2] = "connect"
          /\ app[a[1]].sig # a /\ app[a[1]].net # a
      BY <3>1 DEF LobbyInv, Calling
    <3>3. sock'[a].phase = "idle"
      BY <2>1, <3>2 DEF SocketStays
    <3>4. \A w \in work' : w[1] = a => w \in work
      BY <2>1 DEF NewWork
    <3> QED
      BY <2>1, <3>2, <3>3, <3>4
  <2> QED
    BY <2>1 DEF Calling
<1>6. Signalling'
  <2>1. ASSUME faults' = 0, mode = "friend", NEW a \in Attempt, app'[a[1]].at = a,
               app'[a[1]].sig # a
        PROVE  <<a, "connect">> \in work' /\ app'[a[1]].screen = "lobby"
    <3>1. app[a[1]].at = a /\ app[a[1]].sig # a
      BY <1>0, <2>1 DEF StaysPut, LobbyInv, Own
    <3>2. <<a, "connect">> \in work /\ app[a[1]].screen = "lobby"
      BY <2>1, <3>1 DEF LobbyInv, Signalling, Current, Screen
    <3>3. app[a[1]].net # a
      BY <3>2 DEF LobbyInv, Calling
    <3>4. app'[a[1]].screen = app[a[1]].screen
      BY <1>0, <3>1, <3>3 DEF StaysPut, LobbyInv, Own
    <3>5. <<a, "connect">> \in work'
      BY <2>1, <3>1, <3>2 DEF DoneWork, Alive, Current, Screen
    <3> QED
      BY <3>2, <3>4, <3>5
  <2> QED
    BY <2>1 DEF Signalling, Current, Screen
<1>7. Watched'
  <2>1. ASSUME faults' = 0, NEW a \in Attempt, sock'[a].phase \in {"opening", "live"},
               <<a, "join">> \notin work'
        PROVE  app'[a[1]].at = a
               /\ IF mode = "friend" THEN app'[a[1]].sig = a ELSE app'[a[1]].net = a
    <3>1. sock[a].phase \in {"opening", "live"}
      BY <2>1 DEF SocketStays
    <3>2. CASE <<a, "join">> \in work
      <4>1. Current(a) /\ (mode = "friend" \/ app'[a[1]].net = a)
        BY <2>1, <3>2 DEF DoneWork
      <4>2. mode = "friend" => app[a[1]].sig = a
        <5>1. <<a, "connect">> \notin work
          BY <3>2 DEF LobbyInv, Calling
        <5> QED
          BY <2>1, <4>1, <5>1 DEF LobbyInv, Signalling
      <4> QED
        BY <1>0, <4>1, <4>2 DEF StaysPut, Current
    <3>3. CASE <<a, "join">> \notin work
      <4>1. /\ Current(a)
            /\ IF mode = "friend" THEN app[a[1]].sig = a ELSE app[a[1]].net = a
        BY <2>1, <3>1, <3>3 DEF LobbyInv, Watched
      <4> QED
        BY <1>0, <4>1 DEF StaysPut, Current
    <3> QED
      BY <3>2, <3>3
  <2> QED
    BY <2>1 DEF Watched, Current
<1> QED
  BY <1>1, <1>2, <1>3, <1>4, <1>5, <1>6, <1>7 DEF LobbyInv

-----------------------------------------------------------------------------
(***************************************************************************)
(* What a step may do that takes a page p back to the menu.                *)
(***************************************************************************)
\* Only what p awaited, or has failed, is awaited no more.
DoneByLeaving(p) ==
  \A w \in work \ work' :
    \/ faults' # 0
    \/ w[1][1] = p /\ (w[2] = "join" => sock'[w[1]].phase \notin {"opening", "live"})

\* The driver of p is closed, and its socket.
Closed(p) ==
  \A a \in Attempt :
    /\ driver'[a].state \in {"handshake", "playing"} =>
         driver[a].state \in {"handshake", "playing"} /\ app[p].net # a
    /\ sock'[a].phase # "idle" => sock[a].phase # "idle"
    /\ sock'[a].phase \in {"opening", "live"} =>
         /\ sock[a].phase \in {"opening", "live"}
         /\ faults' # 0 \/ (IF mode = "friend" THEN app[p].sig # a ELSE app[p].net # a)

\* A page in the menu has no attempt, and the other page is as it was.
MenuPage(p) ==
  /\ app'[p].screen = "menu" /\ app'[p].at = None /\ app'[p].tries = app[p].tries
  /\ app'[p].net = None /\ app'[p].neg = None /\ app'[p].sig = None
  /\ \A q \in Player \ {p} : app'[q] = app[q]

\* A step that takes a page back to the menu preserves the invariant.
LEMMA PageLeft ==
  ASSUME LobbyInv, Shaped', mode' = mode, faults' # 0 \/ faults = 0,
         NEW p \in Player, MenuPage(p), work' \subseteq work, DoneByLeaving(p), Closed(p)
  PROVE  LobbyInv'
<1>0. \A a \in Attempt : a[1] \in Player /\ a[2] \in Nat /\ a # None
  BY Attempts
<1>1. Own'
  <2>1. ASSUME NEW q \in Player
        PROVE  /\ app'[q].at \in Or(OfPlayer(q)) /\ app'[q].tries \in Nat
               /\ app'[q].net \in {app'[q].at, None} /\ app'[q].neg \in {app'[q].at, None}
               /\ app'[q].sig \in {app'[q].at, None}
               /\ app'[q].screen = "menu" => app'[q].at = None
    <3>1. /\ app[q].at \in Or(OfPlayer(q)) /\ app[q].tries \in Nat
          /\ app[q].net \in {app[q].at, None} /\ app[q].neg \in {app[q].at, None}
          /\ app[q].sig \in {app[q].at, None}
          /\ app[q].screen = "menu" => app[q].at = None
      BY DEF LobbyInv, Own
    <3> QED
      BY <3>1 DEF MenuPage, Or
  <2> QED
    BY <2>1 DEF Own
<1>2. Driven'
  <2>1. ASSUME NEW a \in Attempt, driver'[a].state \in {"handshake", "playing"}
        PROVE  app'[a[1]].net = a
    <3>1. app[a[1]].net = a /\ app[p].net # a
      BY <2>1 DEF Closed, LobbyInv, Driven
    <3> QED
      BY <1>0, <3>1 DEF MenuPage
  <2> QED
    BY <2>1 DEF Driven
<1>3. PairedInMenu'
  BY <1>0 DEF LobbyInv, PairedInMenu, MenuPage
<1>4. Tried'
  <2>1. ASSUME NEW a \in Attempt,
               app'[a[1]].at = a \/ sock'[a].phase # "idle" \/ \E w \in work' : w[1] = a
        PROVE  a[2] <= app'[a[1]].tries
    <3>1. app'[a[1]].tries = app[a[1]].tries /\ (app'[a[1]].at = a => app[a[1]].at = a)
      BY <1>0 DEF MenuPage
    <3>2. app[a[1]].at = a \/ sock[a].phase # "idle" \/ \E w \in work : w[1] = a
      BY <2>1, <3>1 DEF Closed
    <3> QED
      BY <3>1, <3>2 DEF LobbyInv, Tried
  <2> QED
    BY <2>1 DEF Tried
<1>5. Calling'
  <2>1. ASSUME NEW a \in Attempt, <<a, "connect">> \in work'
        PROVE  /\ mode = "friend" /\ sock'[a].phase = "idle"
               /\ \A w \in work' : w[1] = a => w[2] = "connect"
               /\ app'[a[1]].sig # a /\ app'[a[1]].net # a
    <3>1. /\ mode = "friend" /\ sock[a].phase = "idle"
          /\ \A w \in work : w[1] = a => w[2] = "connect"
          /\ app[a[1]].sig # a /\ app[a[1]].net # a
      BY <2>1 DEF LobbyInv, Calling
    <3>2. sock'[a].phase = "idle"
      BY <3>1 DEF Closed
    <3> QED
      BY <1>0, <3>1, <3>2 DEF MenuPage
  <2> QED
    BY <2>1 DEF Calling
<1>6. Signalling'
  <2>1. ASSUME faults' = 0, mode = "friend", NEW a \in Attempt, app'[a[1]].at = a,
               app'[a[1]].sig # a
        PROVE  <<a, "connect">> \in work' /\ app'[a[1]].screen = "lobby"
    <3>1. a[1] # p /\ app'[a[1]] = app[a[1]]
      BY <1>0, <2>1 DEF MenuPage
    <3>2. <<a, "connect">> \in work /\ app[a[1]].screen = "lobby"
      BY <2>1, <3>1 DEF LobbyInv, Signalling, Current, Screen
    <3>3. <<a, "connect">> \in work'
      <4>1. <<a, "connect">>[1] = a
        OBVIOUS
      <4> QED
        BY <2>1, <3>1, <3>2, <4>1 DEF DoneByLeaving
    <3> QED
      BY <3>1, <3>2, <3>3
  <2> QED
    BY <2>1 DEF Signalling, Current, Screen
<1>7. Watched'
  <2>1. ASSUME faults' = 0, NEW a \in Attempt, sock'[a].phase \in {"opening", "live"},
               <<a, "join">> \notin work'
        PROVE  app'[a[1]].at = a
               /\ IF mode = "friend" THEN app'[a[1]].sig = a ELSE app'[a[1]].net = a
    <3>1. /\ sock[a].phase \in {"opening", "live"}
          /\ IF mode = "friend" THEN app[p].sig # a ELSE app[p].net # a
      BY <2>1 DEF Closed
    <3>2. <<a, "join">> \notin work
      <4>1. <<a, "join">>[1] = a /\ <<a, "join">>[2] = "join"
        OBVIOUS
      <4> QED
        BY <2>1, <4>1 DEF DoneByLeaving
    <3>3. /\ app[a[1]].at = a
          /\ IF mode = "friend" THEN app[a[1]].sig = a ELSE app[a[1]].net = a
      BY <2>1, <3>1, <3>2 DEF LobbyInv, Watched, Current
    <3>4. a[1] # p
      BY <3>1, <3>3
    <3> QED
      BY <1>0, <3>3, <3>4 DEF MenuPage
  <2> QED
    BY <2>1 DEF Watched, Current
<1> QED
  BY <1>1, <1>2, <1>3, <1>4, <1>5, <1>6, <1>7 DEF LobbyInv

-----------------------------------------------------------------------------
(***************************************************************************)
(* What the updates of the pages, the drivers and the sockets do.          *)
(***************************************************************************)
\* HangUp() closes a socket that was open, and touches no other.
LEMMA HangsUp ==
  ASSUME Sockets, NEW s \in Attempt, NEW ms, HangUp(s, ms)
  PROVE  /\ Sockets'
         /\ \A a \in Attempt \ {s} : sock'[a] = sock[a]
         /\ sock'[s].phase \notin {"opening", "live"}
         /\ sock'[s].phase # "idle" => sock[s].phase # "idle"
<1> DEFINE after == CASE sock[s].phase = "opening" -> "aborted"
                      [] sock[s].phase = "live" -> "left"
                      [] OTHER -> sock[s].phase
<1>1. sock' = [sock EXCEPT ![s] = [sock[s] EXCEPT !.phase = after]]
  BY DEF HangUp, Sockets
<1>2. after \notin {"opening", "live"} /\ (after # "idle" => sock[s].phase # "idle")
  OBVIOUS
<1> HIDE DEF after
<1>3. DOMAIN sock' = Attempt
  BY <1>1 DEF Sockets
<1>4. sock'[s] = [sock[s] EXCEPT !.phase = after] /\ \A a \in Attempt \ {s} : sock'[a] = sock[a]
  BY <1>1 DEF Sockets
<1>5. DOMAIN sock'[s] = {"phase", "code"} /\ sock'[s].phase = after
  BY <1>4 DEF Sockets
<1> QED
  BY <1>2, <1>3, <1>4, <1>5 DEF Sockets

\* Menu() empties a page but for its number of attempts.
LEMMA MenuEmpties ==
  ASSUME Pages, NEW p \in Player, NEW busy, app' = Menu(p, busy)
  PROVE  Pages' /\ MenuPage(p)
<1> DEFINE page == [Idle EXCEPT !.busy = busy, !.tries = app[p].tries]
<1>1. app' = [app EXCEPT ![p] = page]
  BY DEF Menu
<1>2. /\ DOMAIN page = PageField /\ page.screen = "menu" /\ page.at = None /\ page.net = None
      /\ page.neg = None /\ page.sig = None /\ page.tries = app[p].tries
  BY DEF Idle, PageField
<1> HIDE DEF page
<1>3. DOMAIN app' = Player /\ app'[p] = page /\ \A q \in Player \ {p} : app'[q] = app[q]
  BY <1>1 DEF Pages
<1> QED
  BY <1>2, <1>3 DEF Pages, MenuPage

\* A driver may be replaced, or closed.
LEMMA DriverSet ==
  ASSUME Drivers, NEW a \in Attempt, NEW d, DOMAIN d = DriverField,
         driver' = [driver EXCEPT ![a] = d]
  PROVE  Drivers' /\ driver'[a] = d /\ \A b \in Attempt \ {a} : driver'[b] = driver[b]
BY DEF Drivers

\* Closing a driver changes no other.
LEMMA DriverCloses ==
  ASSUME Drivers, NEW a \in Attempt, driver' = [driver EXCEPT ![a].state = "closed"]
  PROVE  /\ Drivers' /\ driver'[a].state = "closed"
         /\ \A b \in Attempt \ {a} : driver'[b] = driver[b]
<1>1. driver' = [driver EXCEPT ![a] = [driver[a] EXCEPT !.state = "closed"]]
  BY DEF Drivers
<1>2. /\ DOMAIN [driver[a] EXCEPT !.state = "closed"] = DriverField
      /\ [driver[a] EXCEPT !.state = "closed"].state = "closed"
  BY DEF Drivers, DriverField
<1> QED
  BY <1>1, <1>2, DriverSet

\* Every way out of a lobby closes its driver and its socket.
LEMMA DownCloses ==
  ASSUME LobbyInv, NEW p \in Player, NEW words, Down(p, words)
  PROVE  Drivers' /\ Sockets' /\ Closed(p)
<1> DEFINE d == app[p].net
<1>0. /\ d \in Attempt \cup {None} /\ app[p].sig \in Attempt \cup {None}
      /\ mode \in {"friend", "ranked"}
  <2>1. app[p].at \in Or(OfPlayer(p)) /\ d \in {app[p].at, None}
        /\ app[p].sig \in {app[p].at, None}
    BY DEF LobbyInv, Own
  <2> QED
    BY <2>1, Attempts DEF Or, LobbyInv, Shaped
<1>1. driver' = IF d = None THEN driver ELSE [driver EXCEPT ![d].state = "closed"]
  BY DEF Down, CloseTransport
<1> HIDE DEF d
<1>2. /\ Drivers' /\ \A a \in Attempt : driver'[a] = driver[a] \/ driver'[a].state = "closed"
      /\ d # None => driver'[d].state = "closed"
  BY <1>0, <1>1, DriverCloses DEF LobbyInv, Shaped, Drivers
<1>3. /\ Sockets'
      /\ \A a \in Attempt :
           /\ sock'[a].phase # "idle" => sock[a].phase # "idle"
           /\ sock'[a].phase \in {"opening", "live"} =>
                /\ sock[a].phase \in {"opening", "live"}
                /\ IF mode = "friend" THEN app[p].sig # a ELSE app[p].net # a
  <2>0. Sockets /\ \A a \in Attempt : a # None
    BY Attempts DEF LobbyInv, Shaped
  <2>1. CASE mode = "friend" /\ app[p].sig # None
    <3>1. HangUp(app[p].sig, <<[t |-> "leave-room"]>>)
      BY <2>1 DEF Down, CloseSocket
    <3> QED
      BY <1>0, <2>0, <2>1, <3>1, HangsUp
  <2>2. CASE mode = "ranked" /\ app[p].net # None
    <3>1. HangUp(app[p].net, [i \in DOMAIN words |-> AsPacket(words[i])])
      BY <2>2 DEF Down, CloseSocket
    <3> QED
      BY <1>0, <2>0, <2>2, <3>1, HangsUp DEF d
  <2>3. CASE ~(mode = "friend" /\ app[p].sig # None) /\ ~(mode = "ranked" /\ app[p].net # None)
    <3>1. sock' = sock
      BY <2>3 DEF Down, CloseSocket
    <3> QED
      BY <1>0, <2>0, <2>3, <3>1 DEF Sockets
  <2> QED
    BY <2>1, <2>2, <2>3
<1>4. \A a \in Attempt : driver'[a].state \in {"handshake", "playing"} =>
        driver[a].state \in {"handshake", "playing"} /\ d # a
  BY <1>0, <1>2, Attempts
<1> QED
  BY <1>2, <1>3, <1>4 DEF Closed, d

\* A page that is left with its driver and its socket.
LEMMA Leaves ==
  ASSUME LobbyInv, NEW p \in Player, NEW busy, NEW words, app' = Menu(p, busy),
         Down(p, words), work' \subseteq work, DoneByLeaving(p), mode' = mode,
         faults' \in {faults, faults + 1}
  PROVE  LobbyInv'
<1>1. Pages' /\ MenuPage(p)
  BY MenuEmpties DEF LobbyInv, Shaped
<1>2. Drivers' /\ Sockets' /\ Closed(p)
  BY DownCloses
<1>3. Shaped' /\ (faults' # 0 \/ faults = 0)
  BY <1>1, <1>2 DEF LobbyInv, Shaped
<1> QED
  BY <1>1, <1>2, <1>3, PageLeft

-----------------------------------------------------------------------------
(***************************************************************************)
(* The steps of an attempt that is under way.                              *)
(***************************************************************************)
LaterStep == Step \ {"assigned", "connect", "join"}

UnderWay(a) ==
  \/ app[a[1]].net = a \/ app[a[1]].sig = a
  \/ \E w \in work : w[1] = a /\ w[2] # "connect"

\* Only a current attempt gets a driver.
PageGoesOn(a) ==
  /\ \A q \in Player \ {a[1]} : app'[q] = app[q]
  /\ app'[a[1]].at = app[a[1]].at /\ app'[a[1]].tries = app[a[1]].tries
  /\ app'[a[1]].sig = app[a[1]].sig /\ app'[a[1]].neg \in {app[a[1]].neg, app[a[1]].at}
  /\ app'[a[1]].net = app[a[1]].net \/ (Current(a) /\ app'[a[1]].net = a)
  /\ \/ app'[a[1]].screen = app[a[1]].screen
     \/ app[a[1]].net # None /\ app'[a[1]].screen # "menu"

\* An attempt that is under way has its signalling service.
LEMMA NotCalling ==
  ASSUME LobbyInv, NEW a \in Attempt, UnderWay(a)
  PROVE  /\ <<a, "connect">> \notin work
         /\ app[a[1]].at = a \/ \E v \in work : v[1] = a
<1>1. <<a, "connect">> \notin work
  BY DEF LobbyInv, Calling, UnderWay
<1>2. app[a[1]].net \in {app[a[1]].at, None} /\ app[a[1]].sig \in {app[a[1]].at, None} /\ a # None
  BY Attempts DEF LobbyInv, Own
<1> QED
  BY <1>1, <1>2 DEF UnderWay

\* A step that only goes on with an attempt preserves the invariant.
LEMMA GoesOn ==
  ASSUME LobbyInv, NEW a \in Attempt, UnderWay(a), Pages', PageGoesOn(a), Drivers',
         \A b \in Attempt : driver'[b].state \in {"handshake", "playing"} =>
           driver[b].state \in {"handshake", "playing"} \/ app'[b[1]].net = b,
         \A w \in work' \ work : w[1] = a /\ w \in Attempt \X LaterStep,
         \A w \in work \ work' : w[2] \in LaterStep,
         UNCHANGED <<sock, mode>>, faults' \in {faults, faults + 1}
  PROVE  LobbyInv'
<1>0. /\ \A b \in Attempt : b[1] \in Player /\ b # None
      /\ <<a, "connect">> \notin work
      /\ app[a[1]].at = a \/ \E v \in work : v[1] = a
  BY Attempts, NotCalling
<1>1. Shaped' /\ (faults' # 0 \/ faults = 0)
  BY DEF LobbyInv, Shaped, Sockets, LaterStep
<1>2. \A q \in Player : StaysPut(q)
  BY <1>0 DEF PageGoesOn, StaysPut, Current
<1>3. \A b \in Attempt : <<b, "connect">> \in work' => <<b, "connect">> \in work
  BY DEF LaterStep
<1>4. \A w \in work' \ work : NewWork(w)
  BY <1>0, <1>3 DEF NewWork, LaterStep
<1>5. \A b \in Attempt : DoneWork(b) /\ SocketStays(b)
  <2>1. \A b \in Attempt :
          <<b, "connect">> \notin work \ work' /\ <<b, "join">> \notin work \ work'
    BY DEF LaterStep
  <2> QED
    BY <2>1 DEF DoneWork, SocketStays
<1>6. \A b \in Attempt : <<b, "connect">> \in work' => app'[b[1]].sig # b /\ app'[b[1]].net # b
  <2>1. ASSUME NEW b \in Attempt, <<b, "connect">> \in work'
        PROVE  app'[b[1]].sig # b /\ app'[b[1]].net # b
    <3>1. app[b[1]].sig # b /\ app[b[1]].net # b /\ b # a
      BY <1>0, <1>3, <2>1 DEF LobbyInv, Calling
    <3> QED
      BY <1>0, <3>1 DEF PageGoesOn
  <2> QED
    BY <2>1
<1> QED
  BY <1>1, <1>2, <1>4, <1>5, <1>6, PageStays

\* A step of the rooms, or of the way to them: sockets only go on in their life.
LEMMA SocketsOnly ==
  ASSUME LobbyInv, Sockets', UNCHANGED <<app, work, mode>>, Drivers',
         \A b \in Attempt : driver'[b].state = driver[b].state,
         \A b \in Attempt :
           /\ sock'[b].phase # "idle" => sock[b].phase # "idle"
           /\ sock'[b].phase \in {"opening", "live"} => sock[b].phase \in {"opening", "live"},
         faults' \in {faults, faults + 1}
  PROVE  LobbyInv'
<1>1. Shaped' /\ (faults' # 0 \/ faults = 0)
  BY DEF LobbyInv, Shaped, Pages
<1>2. \A q \in Player : StaysPut(q)
  BY DEF StaysPut
<1>3. \A b \in Attempt : DoneWork(b) /\ SocketStays(b)
  BY DEF DoneWork, SocketStays
<1>4. \A b \in Attempt : <<b, "connect">> \in work' => app'[b[1]].sig # b /\ app'[b[1]].net # b
  BY DEF LobbyInv, Calling
<1> QED
  BY <1>1, <1>2, <1>3, <1>4, PageStays

\* What a page may be set to.
LEMMA PageSet ==
  ASSUME Pages, NEW a \in Attempt, NEW r, DOMAIN r = PageField,
         app' = [app EXCEPT ![a[1]] = r],
         r.at = app[a[1]].at, r.tries = app[a[1]].tries, r.sig = app[a[1]].sig,
         r.neg \in {app[a[1]].neg, app[a[1]].at},
         r.net = app[a[1]].net \/ (Current(a) /\ r.net = a),
         r.screen = app[a[1]].screen \/ (app[a[1]].net # None /\ r.screen # "menu")
  PROVE  Pages' /\ PageGoesOn(a)
<1>1. a[1] \in Player
  BY Attempts
<1>2. DOMAIN app' = Player /\ app'[a[1]] = r /\ \A q \in Player \ {a[1]} : app'[q] = app[q]
  BY <1>1 DEF Pages
<1> QED
  BY <1>1, <1>2 DEF Pages, PageGoesOn

\* A page that is as it was.
LEMMA PageSame ==
  ASSUME Pages, NEW a \in Attempt, app' = app
  PROVE  Pages' /\ PageGoesOn(a)
BY DEF Pages, PageGoesOn

\* A field of a page that says nothing of its transports.
LEMMA FieldSet ==
  ASSUME Pages, NEW a \in Attempt, NEW f \in {"peer", "token", "sdp", "record", "busy"}, NEW v,
         app' = Set(a, f, v)
  PROVE  Pages' /\ PageGoesOn(a)
<1> DEFINE r == [app[a[1]] EXCEPT ![f] = v]
<1>0. a[1] \in Player
  BY Attempts
<1>1. app' = [app EXCEPT ![a[1]] = r]
  BY <1>0 DEF Set, Pages
<1>2. /\ DOMAIN r = PageField /\ r.at = app[a[1]].at /\ r.tries = app[a[1]].tries
      /\ r.sig = app[a[1]].sig /\ r.neg = app[a[1]].neg /\ r.net = app[a[1]].net
      /\ r.screen = app[a[1]].screen
  BY <1>0 DEF Pages, PageField
<1> HIDE DEF r
<1> QED
  BY <1>1, <1>2, PageSet

\* The page of a driver goes on to a screen, or stays.
LEMMA ScreenSet ==
  ASSUME Pages, NEW a \in Attempt, app[a[1]].net # None, NEW screen,
         screen # "menu" \/ screen = app[a[1]].screen, app' = Page(a, screen)
  PROVE  Pages' /\ PageGoesOn(a)
<1> DEFINE b == app[a[1]].busy \/ Asks(a)
           r == [app[a[1]] EXCEPT !.screen = screen, !.busy = b]
<1>0. a[1] \in Player
  BY Attempts
<1>1. app' = [app EXCEPT ![a[1]] = r]
  BY <1>0 DEF Page, Pages
<1> HIDE DEF b
<1>2. /\ DOMAIN r = PageField /\ r.at = app[a[1]].at /\ r.tries = app[a[1]].tries
      /\ r.sig = app[a[1]].sig /\ r.neg = app[a[1]].neg /\ r.net = app[a[1]].net
      /\ r.screen = screen
  BY <1>0 DEF Pages, PageField
<1> HIDE DEF r
<1> QED
  BY <1>1, <1>2, PageSet

\* A driver of the page's transport is set.
LEMMA DriverGoesOn ==
  ASSUME Drivers, NEW a \in Attempt, NEW d, DOMAIN d = DriverField,
         driver' = [driver EXCEPT ![a] = d],
         d.state \in {"handshake", "playing"} =>
           driver[a].state \in {"handshake", "playing"} \/ app'[a[1]].net = a
  PROVE  /\ Drivers'
         /\ \A b \in Attempt : driver'[b].state \in {"handshake", "playing"} =>
              driver[b].state \in {"handshake", "playing"} \/ app'[b[1]].net = b
BY DriverSet

\* The session begins.
LEMMA BegunGoesOn ==
  ASSUME Drivers, NEW a \in Attempt, driver[a].state = "handshake", NEW seed,
         driver' = Begun(a, seed)
  PROVE  /\ Drivers'
         /\ \A b \in Attempt : driver'[b].state \in {"handshake", "playing"} =>
              driver[b].state \in {"handshake", "playing"} \/ app'[b[1]].net = b
<1> DEFINE d == [driver[a] EXCEPT !.state = "playing", !.seed = seed]
<1>1. driver' = [driver EXCEPT ![a] = d]
  BY DEF Begun, Drivers
<1>2. DOMAIN d = DriverField
  BY DEF Drivers, DriverField
<1> HIDE DEF d
<1> QED
  BY <1>1, <1>2, DriverGoesOn

\* The ready gate leaves the driver at its stage.
LEMMA GatedGoesOn ==
  ASSUME Drivers, NEW a \in Attempt, NEW d, DOMAIN d = DriverField,
         d.state = driver[a].state, driver' = Gated(a, d)
  PROVE  /\ Drivers'
         /\ \A b \in Attempt : driver'[b].state \in {"handshake", "playing"} =>
              driver[b].state \in {"handshake", "playing"} \/ app'[b[1]].net = b
<1> DEFINE e == d.started \/ Starts(a, d)
           g == [d EXCEPT !.started = e]
<1>1. driver' = [driver EXCEPT ![a] = g]
  BY DEF Gated, Drivers, DriverField
<1> HIDE DEF e
<1>2. DOMAIN g = DriverField /\ g.state = d.state
  BY DEF DriverField
<1> HIDE DEF g
<1> QED
  BY <1>1, <1>2, DriverGoesOn

\* The driver of a page that is not closed is that of its transport.
LEMMA HearsAsPage ==
  ASSUME LobbyInv, NEW a \in Attempt, driver[a].state \in {"handshake", "playing"}
  PROVE  /\ app[a[1]].net = a /\ UnderWay(a) /\ app[a[1]].net # None /\ a[1] \in Player
         /\ Pages /\ Drivers /\ {<<a, "record">>} \subseteq Attempt \X LaterStep
         /\ <<a, "record">>[1] = a
BY Attempts DEF LobbyInv, Driven, UnderWay, Shaped, LaterStep, Step

-----------------------------------------------------------------------------
(***************************************************************************)
(* What a driver hears.                                                    *)
(***************************************************************************)
\* The page is left with the attempt that its driver is of.
LEMMA ClosesNet ==
  ASSUME LobbyInv, NEW p \in Player, CloseNet(p), work' = work, mode' = mode,
         faults' \in {faults, faults + 1}
  PROVE  LobbyInv'
<1>1. app' = Menu(p, app[p].busy) /\ Down(p, Quit)
  BY DEF CloseNet
<1>2. DoneByLeaving(p)
  BY DEF DoneByLeaving
<1> QED
  BY <1>1, <1>2, Leaves

\* HelloComes preserves the invariant.
LEMMA HelloStep ==
  ASSUME LobbyInv, NEW a \in Attempt, HelloComes(a)
  PROVE  LobbyInv'
<1>0. /\ driver[a].state = "handshake" /\ app[a[1]].net # None /\ UnderWay(a)
      /\ a[1] \in Player /\ Pages /\ Drivers
      /\ {<<a, "record">>} \subseteq Attempt \X LaterStep /\ <<a, "record">>[1] = a
  BY HearsAsPage DEF HelloComes, Hears
<1>1. CASE Mismatch(a)
  BY <1>0, <1>1, ClosesNet DEF HelloComes
<1>2. CASE ~Mismatch(a)
  <2>1. /\ driver' = Begun(a, <<a, Mate(a)>>) /\ app' = Page(a, "netready")
        /\ work' = work \cup Asked(a) /\ UNCHANGED <<sock, mode, faults>>
    BY <1>2 DEF HelloComes
  <2>2. Pages' /\ PageGoesOn(a)
    BY <1>0, <2>1, ScreenSet
  <2>3. /\ Drivers'
        /\ \A b \in Attempt : driver'[b].state \in {"handshake", "playing"} =>
             driver[b].state \in {"handshake", "playing"} \/ app'[b[1]].net = b
    BY <1>0, <2>1, BegunGoesOn
  <2> QED
    BY <1>0, <2>1, <2>2, <2>3, GoesOn DEF Asked
<1> QED
  BY <1>1, <1>2

\* WelcomeComes preserves the invariant.
LEMMA WelcomeStep ==
  ASSUME LobbyInv, NEW a \in Attempt, WelcomeComes(a)
  PROVE  LobbyInv'
<1>0. /\ driver[a].state = "handshake" /\ app[a[1]].net # None /\ UnderWay(a)
      /\ a[1] \in Player /\ Pages /\ Drivers
  BY HearsAsPage DEF WelcomeComes, Hears
<1>1. CASE Mismatch(a)
  BY <1>0, <1>1, ClosesNet DEF WelcomeComes
<1>2. CASE ~Mismatch(a)
  <2>1. /\ driver' = Begun(a, Foremost(a).seed) /\ app' = Page(a, "netready")
        /\ UNCHANGED <<work, sock, mode, faults>>
    BY <1>2 DEF WelcomeComes
  <2>2. Pages' /\ PageGoesOn(a)
    BY <1>0, <2>1, ScreenSet
  <2>3. /\ Drivers'
        /\ \A b \in Attempt : driver'[b].state \in {"handshake", "playing"} =>
             driver[b].state \in {"handshake", "playing"} \/ app'[b[1]].net = b
    BY <1>0, <2>1, BegunGoesOn
  <2> QED
    BY <1>0, <2>1, <2>2, <2>3, GoesOn
<1> QED
  BY <1>1, <1>2

\* ReadyComes preserves the invariant.
LEMMA ReadyStep ==
  ASSUME LobbyInv, NEW a \in Attempt, ReadyComes(a)
  PROVE  LobbyInv'
<1> DEFINE d == [driver[a] EXCEPT !.mate = TRUE]
<1>0. /\ driver[a].state = "playing" /\ app[a[1]].net # None /\ UnderWay(a)
      /\ a[1] \in Player /\ Pages /\ Drivers
      /\ {<<a, "record">>} \subseteq Attempt \X LaterStep /\ <<a, "record">>[1] = a
  BY HearsAsPage DEF ReadyComes, Hears
<1>1. /\ driver' = Gated(a, d) /\ app' = IF Starts(a, d) THEN Page(a, "match") ELSE app
      /\ work' = IF Starts(a, d) THEN work \cup Asked(a) ELSE work
      /\ UNCHANGED <<sock, mode, faults>>
  BY DEF ReadyComes
<1>2. DOMAIN d = DriverField /\ d.state = driver[a].state
  BY <1>0 DEF Drivers, DriverField
<1> HIDE DEF d
<1>3. Pages' /\ PageGoesOn(a)
  BY <1>0, <1>1, ScreenSet, PageSame
<1>4. /\ Drivers'
      /\ \A b \in Attempt : driver'[b].state \in {"handshake", "playing"} =>
           driver[b].state \in {"handshake", "playing"} \/ app'[b[1]].net = b
  BY <1>0, <1>1, <1>2, GatedGoesOn
<1> QED
  BY <1>0, <1>1, <1>3, <1>4, GoesOn DEF Asked

\* ProfileComes preserves the invariant.
LEMMA ProfileStep ==
  ASSUME LobbyInv, NEW a \in Attempt, ProfileComes(a)
  PROVE  LobbyInv'
<1>0. /\ driver[a].state = "playing" /\ app[a[1]].net # None /\ UnderWay(a)
      /\ a[1] \in Player /\ Pages /\ Drivers
      /\ {<<a, "record">>} \subseteq Attempt \X LaterStep /\ <<a, "record">>[1] = a
  BY HearsAsPage DEF ProfileComes, Hears
<1>1. /\ app' = Page(a, app[a[1]].screen) /\ work' = work \cup Asked(a)
      /\ UNCHANGED <<sock, mode, driver, faults>>
  BY DEF ProfileComes, Screen
<1>2. Pages' /\ PageGoesOn(a)
  BY <1>0, <1>1, ScreenSet
<1> QED
  BY <1>0, <1>1, <1>2, GoesOn DEF Asked, Drivers

\* RecordComes preserves the invariant.
LEMMA RecordStep ==
  ASSUME LobbyInv, NEW a \in Attempt, RecordComes(a)
  PROVE  LobbyInv'
<1>0. UnderWay(a) /\ Pages /\ Drivers
  BY HearsAsPage DEF RecordComes, Hears
<1>1. /\ \/ app' = app
         \/ app' = Set(a, "record", Foremost(a).record)
      /\ UNCHANGED <<work, sock, mode, driver, faults>>
  BY DEF RecordComes
<1>2. Pages' /\ PageGoesOn(a)
  BY <1>0, <1>1, FieldSet, PageSame
<1> QED
  BY <1>0, <1>1, <1>2, GoesOn DEF Drivers

\* Ready preserves the invariant.
LEMMA PlayerReady ==
  ASSUME LobbyInv, NEW p \in Player, Ready(p)
  PROVE  LobbyInv'
<1> DEFINE a == app[p].net
           d == [driver[a] EXCEPT !.local = TRUE]
<1>0. /\ a \in Attempt /\ a[1] = p /\ UnderWay(a)
      /\ Pages /\ Drivers
      /\ {<<a, "record">>} \subseteq Attempt \X LaterStep /\ <<a, "record">>[1] = a
  <2>1. app[p].at \in Or(OfPlayer(p)) /\ a \in {app[p].at, None} /\ a # None
    BY DEF LobbyInv, Own, Ready
  <2>2. a \in OfPlayer(p)
    BY <2>1 DEF Or
  <2> QED
    BY <2>2, Attempts DEF UnderWay, LobbyInv, Shaped, LaterStep, Step
<1>1. /\ driver' = Gated(a, d) /\ app' = IF Starts(a, d) THEN Page(a, "match") ELSE app
      /\ work' = IF Starts(a, d) THEN work \cup Asked(a) ELSE work
      /\ UNCHANGED <<sock, mode, faults>> /\ app[p].net # None
  BY DEF Ready
<1>2. DOMAIN d = DriverField /\ d.state = driver[a].state
  BY <1>0 DEF Drivers, DriverField
<1> HIDE DEF d
<1>3. app[a[1]].net # None
  BY <1>0, <1>1
<1> HIDE DEF a
<1>4. Pages' /\ PageGoesOn(a)
  BY <1>0, <1>1, <1>3, ScreenSet, PageSame
<1>5. /\ Drivers'
      /\ \A b \in Attempt : driver'[b].state \in {"handshake", "playing"} =>
           driver[b].state \in {"handshake", "playing"} \/ app'[b[1]].net = b
  BY <1>0, <1>1, <1>2, GatedGoesOn
<1> QED
  BY <1>0, <1>1, <1>4, <1>5, GoesOn DEF Asked

\* A step that leaves the pages, the drivers and the sockets alone.
LEMMA Quiet ==
  ASSUME LobbyInv, UNCHANGED <<app, work, driver, sock, mode>>,
         faults' \in {faults, faults + 1}
  PROVE  LobbyInv'
<1>1. Sockets' /\ Drivers'
  BY DEF LobbyInv, Shaped, Sockets, Drivers
<1> QED
  BY <1>1, SocketsOnly

\* Whatever a driver hears, the invariant is preserved.
LEMMA ListensStep ==
  ASSUME LobbyInv, NEW a \in Attempt, Listens(a)
  PROVE  LobbyInv'
<1>0. a[1] \in Player
  BY Attempts
<1>1. CASE HelloAgain(a) \/ Unheard(a)
  BY <1>1, Quiet DEF HelloAgain, Unheard
<1>2. CASE QuitComes(a)
  BY <1>0, <1>2, ClosesNet DEF QuitComes
<1> QED
  BY <1>1, <1>2, HelloStep, WelcomeStep, ReadyStep, ProfileStep, RecordStep DEF Listens

-----------------------------------------------------------------------------
(***************************************************************************)
(* The network, and time.                                                  *)
(***************************************************************************)
\* A link that closes takes its page to the menu, or nothing.
LEMMA LinkStep ==
  ASSUME LobbyInv, NEW a \in Attempt, LinkCloses(a) \/ RelayCloses(a)
  PROVE  LobbyInv'
<1>0. /\ a[1] \in Player /\ UNCHANGED <<mode, work>> /\ faults' \in {faults, faults + 1}
      /\ \/ CloseNetOnDrop(a[1])
         \/ UNCHANGED <<app, driver, sock>>
  BY Attempts DEF LinkCloses, RelayCloses, roomVars, Fault
<1>1. CASE CloseNetOnDrop(a[1])
  <2>1. app' = Menu(a[1], app[a[1]].busy) /\ Down(a[1], <<>>) /\ DoneByLeaving(a[1])
    BY <1>0, <1>1 DEF CloseNetOnDrop, DoneByLeaving
  <2> QED
    BY <1>0, <2>1, Leaves
<1>2. CASE UNCHANGED <<app, driver, sock>>
  BY <1>0, <1>2, Quiet
<1> QED
  BY <1>0, <1>1, <1>2

\* A broken connection is a fault, and of a ranked player the end of the attempt.
LEMMA BreakStep ==
  ASSUME LobbyInv, NEW a \in Attempt, SocketBreaks(a)
  PROVE  LobbyInv'
<1>0. /\ a[1] \in Player /\ UNCHANGED <<mode, work>> /\ faults' = faults + 1 /\ faults \in Nat
      /\ Sockets /\ Drivers /\ Pages
  BY Attempts DEF SocketBreaks, Fault, LobbyInv, Shaped
<1>1. /\ Sockets'
      /\ \A b \in Attempt :
           /\ sock'[b].phase # "idle" => sock[b].phase # "idle"
           /\ sock'[b].phase \in {"opening", "live"} => sock[b].phase \in {"opening", "live"}
  <2>1. sock[a].phase = "live" /\ sock' = [sock EXCEPT ![a] = [sock[a] EXCEPT !.phase = "left"]]
    BY <1>0 DEF SocketBreaks, Break, Sockets
  <2>2. /\ DOMAIN sock' = Attempt /\ sock'[a] = [sock[a] EXCEPT !.phase = "left"]
        /\ \A b \in Attempt \ {a} : sock'[b] = sock[b]
    BY <1>0, <2>1 DEF Sockets
  <2>3. DOMAIN sock'[a] = {"phase", "code"} /\ sock'[a].phase = "left"
    BY <1>0, <2>2 DEF Sockets
  <2> QED
    BY <1>0, <2>1, <2>2, <2>3 DEF Sockets
<1>2. CASE mode = "ranked" /\ app[a[1]].net = a
  <2>1. /\ app' = Menu(a[1], app[a[1]].busy)
        /\ driver' = [driver EXCEPT ![a].state = "closed"]
    BY <1>2 DEF SocketBreaks
  <2>2. Pages' /\ MenuPage(a[1])
    BY <1>0, <2>1, MenuEmpties
  <2>3. /\ Drivers' /\ driver'[a].state = "closed"
        /\ \A b \in Attempt \ {a} : driver'[b] = driver[b]
    BY <1>0, <2>1, DriverCloses
  <2>4. Closed(a[1])
    BY <1>0, <1>1, <1>2, <2>3 DEF Closed
  <2>5. DoneByLeaving(a[1]) /\ Shaped'
    BY <1>0, <1>1, <2>2, <2>3 DEF DoneByLeaving, LobbyInv, Shaped
  <2> QED
    BY <1>0, <2>2, <2>4, <2>5, PageLeft
<1>3. CASE ~(mode = "ranked" /\ app[a[1]].net = a)
  <2>1. UNCHANGED <<app, driver>>
    BY <1>3 DEF SocketBreaks
  <2> QED
    BY <1>0, <1>1, <2>1, SocketsOnly DEF Drivers
<1> QED
  BY <1>2, <1>3

\* What the sockets t are after a step of the rooms.
GoneOn(t) ==
  /\ DOMAIN t = Attempt /\ \A a \in Attempt : DOMAIN t[a] = {"phase", "code"}
  /\ \A a \in Attempt :
       /\ t[a].phase = "idle" <=> sock[a].phase = "idle"
       /\ t[a].phase \in {"opening", "live"} => sock[a].phase \in {"opening", "live"}
       /\ t[a].phase = "opening" => sock[a].phase = "opening"
       /\ t[a].code = sock[a].code

\* Closing() only shuts sockets that were open.
LEMMA ClosingGoesOn ==
  ASSUME Sockets, NEW ss
  PROVE  GoneOn(Closing(ss)) /\ GoneOn(sock)
<1>1. GoneOn(sock)
  BY DEF GoneOn, Sockets
<1>2. DOMAIN Closing(ss) = Attempt
  BY Attempts DEF Closing
<1>3. ASSUME NEW a \in Attempt
      PROVE  /\ DOMAIN Closing(ss)[a] = {"phase", "code"}
             /\ Closing(ss)[a].phase = "idle" <=> sock[a].phase = "idle"
             /\ Closing(ss)[a].phase \in {"opening", "live"} =>
                  sock[a].phase \in {"opening", "live"}
             /\ Closing(ss)[a].phase = "opening" => sock[a].phase = "opening"
             /\ Closing(ss)[a].code = sock[a].code
  <2>1. Closing(ss)[a] = IF a \in ss /\ sock[a].phase = "live"
                         THEN [sock[a] EXCEPT !.phase = "shut"] ELSE sock[a]
    BY Attempts DEF Closing
  <2>2. DOMAIN [sock[a] EXCEPT !.phase = "shut"] = {"phase", "code"}
        /\ [sock[a] EXCEPT !.phase = "shut"].phase = "shut"
        /\ [sock[a] EXCEPT !.phase = "shut"].code = sock[a].code
    BY DEF Sockets
  <2> QED
    BY <2>1, <2>2 DEF Sockets
<1> QED
  BY <1>1, <1>2, <1>3 DEF GoneOn

\* One more socket goes on.
LEMMA OneGoesOn ==
  ASSUME NEW t, GoneOn(t), NEW a \in Attempt, NEW x,
         x = "idle" <=> sock[a].phase = "idle",
         x \in {"opening", "live"} => sock[a].phase \in {"opening", "live"}, x # "opening"
  PROVE  GoneOn([t EXCEPT ![a].phase = x])
<1> DEFINE r == [t[a] EXCEPT !.phase = x]
           u == [t EXCEPT ![a].phase = x]
<1>1. u = [t EXCEPT ![a] = r]
  BY DEF GoneOn
<1>2. DOMAIN r = {"phase", "code"} /\ r.phase = x /\ r.code = t[a].code
  BY DEF GoneOn
<1> HIDE DEF r, u
<1>3. DOMAIN u = Attempt /\ u[a] = r /\ \A b \in Attempt \ {a} : u[b] = t[b]
  BY <1>1 DEF GoneOn
<1>4. GoneOn(u)
  BY <1>2, <1>3 DEF GoneOn
<1> QED
  BY <1>4 DEF u

\* The Room object never opens a socket that was not on its way.
LEMMA RoomStepGoesOn ==
  ASSUME Sockets, NEW s \in Attempt, RoomStep(s)
  PROVE  GoneOn(sock')
<1>1. CASE Refuse(s)
  <2>1. /\ sock[s].phase \in {"opening", "aborted"}
        /\ \/ sock' = [Closing(SocketsOf(sock[s].code)) EXCEPT ![s].phase =
                         IF sock[s].phase = "aborted" THEN "done" ELSE "shut"]
           \/ sock' = [sock EXCEPT ![s].phase =
                         IF sock[s].phase = "aborted" THEN "done" ELSE "shut"]
    BY <1>1 DEF Refuse
  <2> DEFINE x == IF sock[s].phase = "aborted" THEN "done" ELSE "shut"
  <2>2. x \notin {"opening", "live"} /\ sock[s].phase # "idle" /\ x # "idle"
    BY <2>1
  <2> HIDE DEF x
  <2>3. GoneOn(Closing(SocketsOf(sock[s].code))) /\ GoneOn(sock)
    BY ClosingGoesOn
  <2>4. GoneOn([Closing(SocketsOf(sock[s].code)) EXCEPT ![s].phase = x])
        /\ GoneOn([sock EXCEPT ![s].phase = x])
    BY <2>2, <2>3, OneGoesOn
  <2> QED
    BY <2>1, <2>4 DEF x
<1>2. CASE Admit(s)
  <2> DEFINE x == IF sock[s].phase = "aborted" THEN "left" ELSE "live"
  <2>1. sock[s].phase \in {"opening", "aborted"} /\ sock' = [sock EXCEPT ![s].phase = x]
    BY <1>2 DEF Admit
  <2>2. /\ sock[s].phase # "idle" /\ x \notin {"idle", "opening"}
        /\ x \in {"opening", "live"} => sock[s].phase \in {"opening", "live"}
    BY <2>1
  <2> HIDE DEF x
  <2>3. GoneOn([sock EXCEPT ![s].phase = x])
    BY <2>2, ClosingGoesOn, OneGoesOn
  <2> QED
    BY <2>1, <2>3
<1>3. CASE Serve(s)
  <2>1. sock' = sock \/ \E ss : sock' = Closing(ss)
    BY <1>3 DEF Serve, ServeClosed, ClosedByLeaving, Relay, Packet
  <2> QED
    BY <2>1, ClosingGoesOn
<1>4. CASE Close(s)
  <2>1. /\ sock[s].phase # "idle"
        /\ \/ sock' = [sock EXCEPT ![s].phase = "done"]
           \/ \E ss : sock' = [Closing(ss) EXCEPT ![s].phase = "done"]
    BY <1>4 DEF Close, ClosedByLeaving
  <2>2. \A ss : GoneOn(Closing(ss)) /\ GoneOn(sock)
    BY ClosingGoesOn
  <2>3. ASSUME NEW ss
        PROVE  GoneOn([Closing(ss) EXCEPT ![s].phase = "done"])
    BY <2>1, <2>2, OneGoesOn
  <2>4. GoneOn([sock EXCEPT ![s].phase = "done"])
    BY <2>1, <2>2, OneGoesOn
  <2> QED
    BY <2>1, <2>3, <2>4
<1> QED
  BY <1>1, <1>2, <1>3, <1>4 DEF RoomStep

\* The rooms and their time preserve the invariant.
LEMMA RoomsStep ==
  ASSUME LobbyInv, RoomActs \/ RoomExpires
  PROVE  LobbyInv'
<1>0. /\ UNCHANGED <<app, work, driver, mode>> /\ faults' \in {faults, faults + 1}
      /\ Sockets /\ Drivers
  BY DEF RoomActs, RoomExpires, Fault, peerVars, LobbyInv, Shaped
<1>1. GoneOn(sock')
  <2>1. CASE RoomExpires
    BY <1>0, <2>1, ClosingGoesOn DEF RoomExpires, Expire
  <2>2. ASSUME NEW s \in Socket, RoomStep(s)
        PROVE  GoneOn(sock')
    BY <1>0, <2>2, RoomStepGoesOn, Attempts
  <2>3. ASSUME NEW c \in Code, Alarm(c)
        PROVE  GoneOn(sock')
    BY <1>0, <2>3, ClosingGoesOn DEF Alarm
  <2> QED
    BY <2>1, <2>2, <2>3 DEF RoomActs
<1>2. Sockets' /\ Drivers'
  BY <1>0, <1>1 DEF GoneOn, Sockets, Drivers
<1> QED
  BY <1>0, <1>1, <1>2, SocketsOnly DEF GoneOn

-----------------------------------------------------------------------------
(***************************************************************************)
(* The negotiation and the record.                                         *)
(***************************************************************************)
\* An attempt that awaits one of the later steps is under way.
LEMMA DoneGoesOn ==
  ASSUME LobbyInv, NEW a \in Attempt, NEW step \in LaterStep, Done(a, step)
  PROVE  /\ UnderWay(a) /\ a[1] \in Player /\ a # None /\ Pages /\ Drivers
         /\ \A w \in work' \ work : w[1] = a /\ w \in Attempt \X LaterStep
         /\ \A w \in work \ work' : w[2] \in LaterStep
         /\ work' \subseteq work /\ DoneByLeaving(a[1])
<1>1. <<a, step>>[1] = a /\ <<a, step>>[2] = step /\ step \in LaterStep
      /\ step \notin {"connect", "join"}
  BY DEF LaterStep
<1>2. work' = work \ {<<a, step>>} /\ <<a, step>> \in work
  BY DEF Done
<1>3. DoneByLeaving(a[1])
  BY <1>1, <1>2 DEF DoneByLeaving
<1>4. a[1] \in Player /\ a # None
  BY Attempts
<1> QED
  BY <1>1, <1>2, <1>3, <1>4 DEF UnderWay, LobbyInv, Shaped

\* OfferMade preserves the invariant.
LEMMA OfferStep ==
  ASSUME LobbyInv, NEW a \in Attempt, OfferMade(a)
  PROVE  LobbyInv'
<1>0. /\ UnderWay(a) /\ a[1] \in Player /\ a # None /\ Pages /\ Drivers
      /\ \A w \in work' \ work : w[1] = a /\ w \in Attempt \X LaterStep
      /\ \A w \in work \ work' : w[2] \in LaterStep
      /\ work' \subseteq work /\ DoneByLeaving(a[1]) /\ UNCHANGED <<mode, faults>>
  <2>1. "offer" \in LaterStep /\ Done(a, "offer") /\ UNCHANGED <<mode, faults>>
    BY DEF OfferMade, LaterStep, Step
  <2> QED
    BY <2>1, DoneGoesOn
<1>1. CASE ~Alive(a)
  <2>1. UNCHANGED <<app, driver, sock>>
    BY <1>1 DEF OfferMade, roomVars, peerVars
  <2> QED
    BY <1>0, <2>1, PageSame, GoesOn DEF Drivers
<1>2. CASE Alive(a) /\ ~CanSignal(a)
  <2>1. app' = Menu(a[1], app[a[1]].busy) /\ Down(a[1], Quit)
    BY <1>2 DEF OfferMade, CloseNet
  <2> QED
    BY <1>0, <2>1, Leaves
<1>3. CASE Alive(a) /\ CanSignal(a)
  <2> DEFINE r == [app[a[1]] EXCEPT !["neg"] = a]
  <2>1. app' = [app EXCEPT ![a[1]] = r] /\ UNCHANGED <<sock, driver>>
    BY <1>0, <1>3 DEF OfferMade, Set, Pages
  <2>2. /\ DOMAIN r = PageField /\ r.at = app[a[1]].at /\ r.tries = app[a[1]].tries
        /\ r.sig = app[a[1]].sig /\ r.neg = a /\ r.net = app[a[1]].net
        /\ r.screen = app[a[1]].screen
    BY <1>0 DEF Pages, PageField
  <2> HIDE DEF r
  <2>3. Pages' /\ PageGoesOn(a)
    BY <1>0, <1>3, <2>1, <2>2, PageSet DEF Alive, Current
  <2> QED
    BY <1>0, <2>1, <2>3, GoesOn DEF Drivers
<1> QED
  BY <1>1, <1>2, <1>3

\* hookDriver() preserves what the steps need of the drivers.
LEMMA HookGoesOn ==
  ASSUME Drivers, NEW a \in Attempt, driver' = Hook(a), app'[a[1]].net = a
  PROVE  /\ Drivers'
         /\ \A b \in Attempt : driver'[b].state \in {"handshake", "playing"} =>
              driver[b].state \in {"handshake", "playing"} \/ app'[b[1]].net = b
<1> DEFINE d == [NoDriver EXCEPT !.state = "handshake", !.token = app[a[1]].token]
<1>1. driver' = [driver EXCEPT ![a] = d]
  BY DEF Hook
<1>2. DOMAIN d = DriverField
  BY DEF NoDriver, DriverField
<1> HIDE DEF d
<1> QED
  BY <1>1, <1>2, DriverGoesOn

\* Accepted preserves the invariant.
LEMMA AcceptStep ==
  ASSUME LobbyInv, NEW a \in Attempt, Accepted(a)
  PROVE  LobbyInv'
<1>0. /\ UnderWay(a) /\ a[1] \in Player /\ a # None /\ Pages /\ Drivers
      /\ \A w \in work' \ work : w[1] = a /\ w \in Attempt \X LaterStep
      /\ \A w \in work \ work' : w[2] \in LaterStep
      /\ work' \subseteq work /\ DoneByLeaving(a[1]) /\ UNCHANGED <<mode, faults>>
  <2>1. "accept" \in LaterStep /\ Done(a, "accept") /\ UNCHANGED <<mode, faults>>
    BY DEF Accepted, LaterStep, Step
  <2> QED
    BY <2>1, DoneGoesOn
<1>1. CASE ~Alive(a)
  <2>1. UNCHANGED <<app, driver, sock>>
    BY <1>1 DEF Accepted, roomVars, peerVars
  <2> QED
    BY <1>0, <2>1, PageSame, GoesOn DEF Drivers
<1>2. CASE Alive(a) /\ ~CanSignal(a)
  <2>1. app' = Menu(a[1], app[a[1]].busy) /\ Down(a[1], Quit)
    BY <1>2 DEF Accepted, CloseNet
  <2> QED
    BY <1>0, <2>1, Leaves
<1>3. CASE Alive(a) /\ CanSignal(a)
  <2> DEFINE r == [app[a[1]] EXCEPT !.neg = a, !.net = a]
  <2>1. app' = [app EXCEPT ![a[1]] = r] /\ driver' = Hook(a) /\ UNCHANGED sock
    BY <1>0, <1>3 DEF Accepted, Pages
  <2>2. /\ DOMAIN r = PageField /\ r.at = app[a[1]].at /\ r.tries = app[a[1]].tries
        /\ r.sig = app[a[1]].sig /\ r.neg = a /\ r.net = a
        /\ r.screen = app[a[1]].screen
    BY <1>0 DEF Pages, PageField
  <2> HIDE DEF r
  <2>3. Pages' /\ PageGoesOn(a)
    BY <1>0, <1>3, <2>1, <2>2, PageSet DEF Alive, Current
  <2>4. app'[a[1]].net = a
    BY <1>0, <2>1, <2>2 DEF Pages
  <2>5. /\ Drivers'
        /\ \A b \in Attempt : driver'[b].state \in {"handshake", "playing"} =>
             driver[b].state \in {"handshake", "playing"} \/ app'[b[1]].net = b
    BY <1>0, <2>1, <2>4, HookGoesOn
  <2> QED
    BY <1>0, <2>1, <2>3, <2>5, GoesOn
<1> QED
  BY <1>1, <1>2, <1>3

\* Answered preserves the invariant.
LEMMA AnswerStep ==
  ASSUME LobbyInv, NEW a \in Attempt, Answered(a)
  PROVE  LobbyInv'
<1>1. /\ <<a, "answer">> \in work /\ work' = (work \ {<<a, "answer">>}) \cup {<<a, "hook">>}
      /\ UNCHANGED <<app, driver, sock, mode, faults>>
  BY DEF Answered, roomVars
<1>2. /\ <<a, "answer">>[1] = a /\ <<a, "answer">>[2] = "answer" /\ "answer" \in LaterStep
      /\ <<a, "hook">>[1] = a /\ <<a, "hook">> \in Attempt \X LaterStep
  BY DEF LaterStep, Step
<1>3. UnderWay(a) /\ Pages /\ Drivers
  BY <1>1, <1>2 DEF UnderWay, LobbyInv, Shaped
<1>4. Drivers' /\ \A b \in Attempt : driver'[b].state = driver[b].state
  BY <1>1, <1>3 DEF Drivers
<1>5. Pages' /\ PageGoesOn(a)
  BY <1>1, <1>3, PageSame
<1>6. \A w \in work' \ work : w[1] = a /\ w \in Attempt \X LaterStep
  BY <1>1, <1>2
<1>7. \A w \in work \ work' : w[2] \in LaterStep
  BY <1>1, <1>2
<1> QED
  BY <1>1, <1>3, <1>4, <1>5, <1>6, <1>7, GoesOn

\* Hooked preserves the invariant.
LEMMA HookStep ==
  ASSUME LobbyInv, NEW a \in Attempt, Hooked(a)
  PROVE  LobbyInv'
<1>0. /\ UnderWay(a) /\ a[1] \in Player /\ a # None /\ Pages /\ Drivers
      /\ \A w \in work' \ work : w[1] = a /\ w \in Attempt \X LaterStep
      /\ \A w \in work \ work' : w[2] \in LaterStep
      /\ UNCHANGED <<sock, mode, faults>>
  <2>1. "hook" \in LaterStep /\ Done(a, "hook") /\ UNCHANGED <<sock, mode, faults>>
    BY DEF Hooked, LaterStep, Step, roomVars
  <2> QED
    BY <2>1, DoneGoesOn
<1>1. CASE ~Alive(a)
  <2>1. UNCHANGED <<app, driver>>
    BY <1>1 DEF Hooked
  <2> QED
    BY <1>0, <2>1, PageSame, GoesOn DEF Drivers
<1>2. CASE Alive(a)
  <2> DEFINE r == [app[a[1]] EXCEPT !["net"] = a]
  <2>1. app' = [app EXCEPT ![a[1]] = r] /\ driver' = Hook(a)
    BY <1>0, <1>2 DEF Hooked, Set, Pages
  <2>2. /\ DOMAIN r = PageField /\ r.at = app[a[1]].at /\ r.tries = app[a[1]].tries
        /\ r.sig = app[a[1]].sig /\ r.neg = app[a[1]].neg /\ r.net = a
        /\ r.screen = app[a[1]].screen
    BY <1>0 DEF Pages, PageField
  <2> HIDE DEF r
  <2>3. Pages' /\ PageGoesOn(a)
    BY <1>0, <1>2, <2>1, <2>2, PageSet DEF Alive
  <2>4. app'[a[1]].net = a
    BY <1>0, <2>1, <2>2 DEF Pages
  <2>5. /\ Drivers'
        /\ \A b \in Attempt : driver'[b].state \in {"handshake", "playing"} =>
             driver[b].state \in {"handshake", "playing"} \/ app'[b[1]].net = b
    BY <1>0, <2>1, <2>4, HookGoesOn
  <2> QED
    BY <1>0, <2>3, <2>5, GoesOn
<1> QED
  BY <1>1, <1>2

\* The answer of the league preserves the invariant.
LEMMA RecordAnswered ==
  ASSUME LobbyInv, NEW a \in Attempt, RecordMade(a) \/ RecordFails(a)
  PROVE  LobbyInv'
<1>0. /\ UnderWay(a) /\ a[1] \in Player /\ a # None /\ Pages /\ Drivers
      /\ \A w \in work' \ work : w[1] = a /\ w \in Attempt \X LaterStep
      /\ \A w \in work \ work' : w[2] \in LaterStep
      /\ work' \subseteq work /\ DoneByLeaving(a[1])
      /\ UNCHANGED mode /\ faults' \in {faults, faults + 1}
  <2>1. /\ "record" \in LaterStep /\ Done(a, "record") /\ UNCHANGED mode
        /\ faults' \in {faults, faults + 1}
    BY DEF RecordMade, RecordFails, Fault, LaterStep, Step
  <2> QED
    BY <2>1, DoneGoesOn
<1>1. CASE app' = Set(a, "busy", FALSE) /\ UNCHANGED <<driver, sock>>
  BY <1>0, <1>1, FieldSet, GoesOn DEF Drivers
<1>2. CASE RecordMade(a) /\ app[a[1]].net = a
  <2> DEFINE r == [app[a[1]] EXCEPT !.busy = FALSE, !.record = a]
  <2>1. app' = [app EXCEPT ![a[1]] = r] /\ UNCHANGED <<driver, sock>>
    BY <1>0, <1>2 DEF RecordMade, Pages
  <2>2. /\ DOMAIN r = PageField /\ r.at = app[a[1]].at /\ r.tries = app[a[1]].tries
        /\ r.sig = app[a[1]].sig /\ r.neg = app[a[1]].neg /\ r.net = app[a[1]].net
        /\ r.screen = app[a[1]].screen
    BY <1>0 DEF Pages, PageField
  <2> HIDE DEF r
  <2>3. Pages' /\ PageGoesOn(a)
    BY <1>0, <2>1, <2>2, PageSet
  <2> QED
    BY <1>0, <2>1, <2>3, GoesOn DEF Drivers
<1>3. CASE app' = Menu(a[1], FALSE) /\ Down(a[1], Quit)
  BY <1>0, <1>3, Leaves
<1>4. \/ app' = Set(a, "busy", FALSE) /\ UNCHANGED <<driver, sock>>
      \/ RecordMade(a) /\ app[a[1]].net = a
      \/ app' = Menu(a[1], FALSE) /\ Down(a[1], Quit)
  BY DEF RecordMade, RecordFails, roomVars, peerVars
<1> QED
  BY <1>1, <1>2, <1>3, <1>4

-----------------------------------------------------------------------------
(***************************************************************************)
(* What comes on a socket.                                                 *)
(***************************************************************************)
\* A page may get the transport and the signalling client of its current attempt.
LEMMA PagePut ==
  ASSUME Pages, NEW a \in Attempt, NEW r, DOMAIN r = PageField,
         app' = [app EXCEPT ![a[1]] = r],
         r.at = app[a[1]].at, r.tries = app[a[1]].tries, r.screen = app[a[1]].screen,
         r.neg \in {app[a[1]].neg, app[a[1]].at}, r.net \in {app[a[1]].net, app[a[1]].at},
         r.sig \in {app[a[1]].sig, app[a[1]].at}
  PROVE  /\ Pages' /\ app'[a[1]] = r /\ \A q \in Player \ {a[1]} : app'[q] = app[q]
         /\ \A q \in Player : StaysPut(q)
<1>1. a[1] \in Player
  BY Attempts
<1>2. DOMAIN app' = Player /\ app'[a[1]] = r /\ \A q \in Player \ {a[1]} : app'[q] = app[q]
  BY <1>1 DEF Pages
<1> QED
  BY <1>1, <1>2 DEF Pages, StaysPut

\* A step of an attempt that awaits one call less, and is current if it goes on.
LEMMA JoinStep ==
  ASSUME LobbyInv, NEW a \in Attempt, <<a, "join">> \in work, work' = work \ {<<a, "join">>},
         UNCHANGED <<mode, faults>>, Pages', Drivers', Sockets',
         \A q \in Player : StaysPut(q), \A q \in Player \ {a[1]} : app'[q] = app[q],
         app'[a[1]].sig = app[a[1]].sig, app'[a[1]].net \in {app[a[1]].net, a},
         \A b \in Attempt : driver'[b].state \in {"handshake", "playing"} =>
           driver[b].state \in {"handshake", "playing"} \/ app'[b[1]].net = b,
         \A b \in Attempt \ {a} : sock'[b] = sock[b],
         sock'[a].phase # "idle" => sock[a].phase # "idle",
         sock'[a].phase \in {"opening", "live"} =>
           /\ sock[a].phase \in {"opening", "live"} /\ Current(a)
           /\ mode = "friend" \/ app'[a[1]].net = a
  PROVE  LobbyInv'
<1>0. \A b \in Attempt : b[1] \in Player
  BY Attempts
<1>1. Shaped' /\ (faults' # 0 \/ faults = 0)
  BY DEF LobbyInv, Shaped
<1>2. \A b \in Attempt : <<b, "connect">> \notin work \ work'
  OBVIOUS
<1>3. \A b \in Attempt \ {a} : <<b, "join">> \notin work \ work'
  OBVIOUS
<1>4. \A b \in Attempt : DoneWork(b) /\ SocketStays(b)
  BY <1>2, <1>3 DEF DoneWork, SocketStays
<1>5. ASSUME NEW b \in Attempt, <<b, "connect">> \in work'
      PROVE  app'[b[1]].sig # b /\ app'[b[1]].net # b
  <2>1. <<b, "connect">> \in work
    BY <1>5
  <2>2. b # a
    <3>1. <<a, "join">>[1] = a /\ <<a, "join">>[2] = "join"
      OBVIOUS
    <3> QED
      BY <2>1, <3>1 DEF LobbyInv, Calling
  <2>3. app[b[1]].sig # b /\ app[b[1]].net # b
    BY <2>1 DEF LobbyInv, Calling
  <2> QED
    BY <1>0, <2>2, <2>3
<1> QED
  BY <1>1, <1>4, <1>5, PageStays

\* Joined preserves the invariant.
LEMMA JoinedStep ==
  ASSUME LobbyInv, NEW a \in Attempt, Joined(a)
  PROVE  LobbyInv'
<1>0. /\ <<a, "join">> \in work /\ work' = work \ {<<a, "join">>} /\ mode = "friend"
      /\ UNCHANGED <<mode, faults, driver>> /\ a[1] \in Player /\ Pages /\ Drivers /\ Sockets
  BY Attempts DEF Joined, peerVars, LobbyInv, Shaped
<1>1. CASE Alive(a)
  <2> DEFINE r == [app[a[1]] EXCEPT !["token"] = sock[a].code]
  <2>1. app' = [app EXCEPT ![a[1]] = r] /\ UNCHANGED sock
    BY <1>0, <1>1 DEF Joined, Set, Pages
  <2>2. /\ DOMAIN r = PageField /\ r.at = app[a[1]].at /\ r.tries = app[a[1]].tries
        /\ r.sig = app[a[1]].sig /\ r.neg = app[a[1]].neg /\ r.net = app[a[1]].net
        /\ r.screen = app[a[1]].screen
    BY <1>0 DEF Pages, PageField
  <2> HIDE DEF r
  <2>3. /\ Pages' /\ app'[a[1]] = r /\ \A q \in Player \ {a[1]} : app'[q] = app[q]
        /\ \A q \in Player : StaysPut(q)
    BY <1>0, <2>1, <2>2, PagePut
  <2>4. Drivers' /\ Sockets'
    BY <1>0, <2>1 DEF Drivers, Sockets
  <2> QED
    BY <1>0, <1>1, <2>1, <2>2, <2>3, <2>4, JoinStep DEF Alive
<1>2. CASE ~Alive(a)
  <2>1. UNCHANGED app /\ HangUp(a, <<[t |-> "leave-room"]>>)
    BY <1>2 DEF Joined
  <2>2. /\ Sockets' /\ \A b \in Attempt \ {a} : sock'[b] = sock[b]
        /\ sock'[a].phase \notin {"opening", "live"}
        /\ sock'[a].phase # "idle" => sock[a].phase # "idle"
    BY <1>0, <2>1, HangsUp
  <2>3. Pages' /\ Drivers' /\ \A q \in Player : StaysPut(q)
    BY <1>0, <2>1 DEF Pages, Drivers, StaysPut
  <2> QED
    BY <1>0, <2>1, <2>2, <2>3, JoinStep
<1> QED
  BY <1>1, <1>2

\* RelayOpens preserves the invariant.
LEMMA RelayStep ==
  ASSUME LobbyInv, NEW a \in Attempt, RelayOpens(a)
  PROVE  LobbyInv'
<1>0. /\ <<a, "join">> \in work /\ work' = work \ {<<a, "join">>}
      /\ UNCHANGED <<mode, faults>> /\ a[1] \in Player /\ Pages /\ Drivers /\ Sockets
  BY Attempts DEF RelayOpens, LobbyInv, Shaped
<1>1. CASE Alive(a)
  <2> DEFINE r == [app[a[1]] EXCEPT !.token = sock[a].code, !.net = a]
             d == [NoDriver EXCEPT !.state = "handshake", !.token = sock[a].code]
  <2>1. /\ app' = [app EXCEPT ![a[1]] = r] /\ UNCHANGED sock
        /\ driver' = [driver EXCEPT ![a] = d]
    BY <1>0, <1>1 DEF RelayOpens, Pages
  <2>2. /\ DOMAIN r = PageField /\ r.at = app[a[1]].at /\ r.tries = app[a[1]].tries
        /\ r.sig = app[a[1]].sig /\ r.neg = app[a[1]].neg /\ r.net = a
        /\ r.screen = app[a[1]].screen /\ DOMAIN d = DriverField
    BY <1>0 DEF Pages, PageField, NoDriver, DriverField
  <2> HIDE DEF r, d
  <2>3. /\ Pages' /\ app'[a[1]] = r /\ \A q \in Player \ {a[1]} : app'[q] = app[q]
        /\ \A q \in Player : StaysPut(q)
    BY <1>0, <1>1, <2>1, <2>2, PagePut DEF Alive, Current
  <2>4. Sockets'
    BY <1>0, <2>1 DEF Sockets
  <2>5. /\ Drivers'
        /\ \A b \in Attempt : driver'[b].state \in {"handshake", "playing"} =>
             driver[b].state \in {"handshake", "playing"} \/ app'[b[1]].net = b
    BY <1>0, <2>1, <2>2, <2>3, DriverGoesOn
  <2> QED
    BY <1>0, <1>1, <2>1, <2>2, <2>3, <2>4, <2>5, JoinStep DEF Alive
<1>2. CASE ~Alive(a)
  <2>1. UNCHANGED <<app, driver>> /\ HangUp(a, <<>>)
    BY <1>2 DEF RelayOpens
  <2>2. /\ Sockets' /\ \A b \in Attempt \ {a} : sock'[b] = sock[b]
        /\ sock'[a].phase \notin {"opening", "live"}
        /\ sock'[a].phase # "idle" => sock[a].phase # "idle"
    BY <1>0, <2>1, HangsUp
  <2>3. Pages' /\ Drivers' /\ \A q \in Player : StaysPut(q)
    BY <1>0, <2>1 DEF Pages, Drivers, StaysPut
  <2> QED
    BY <1>0, <2>1, <2>2, <2>3, JoinStep
<1> QED
  BY <1>1, <1>2

\* What a signalling client hears of its room preserves the invariant.
LEMMA SignalStep ==
  ASSUME LobbyInv, NEW a \in Attempt, PeerJoined(a) \/ OfferComes(a) \/ AnswerComes(a)
  PROVE  LobbyInv'
<1>0. /\ UnderWay(a) /\ Pages /\ Drivers /\ UNCHANGED <<driver, sock, mode, faults>>
      /\ a[1] \in Player
  BY Attempts DEF PeerJoined, OfferComes, AnswerComes, WantsPeer, WantsOffer, WantsAnswer,
     Attached, UnderWay, LobbyInv, Shaped, peerVars
<1>1. \E step \in LaterStep : work' = work \cup {<<a, step>>}
  BY DEF PeerJoined, OfferComes, AnswerComes, LaterStep, Step
<1>2. Pages' /\ PageGoesOn(a)
  <2>1. CASE PeerJoined(a) \/ AnswerComes(a)
    <3>1. \E f \in {"peer", "sdp"} : \E v : app' = Set(a, f, v)
      BY <2>1 DEF PeerJoined, AnswerComes
    <3>2. PICK f \in {"peer", "sdp"} : \E v : app' = Set(a, f, v)
      BY <3>1
    <3>3. PICK v : app' = Set(a, f, v)
      BY <3>2
    <3> QED
      BY <1>0, <3>3, FieldSet
  <2>2. CASE OfferComes(a)
    <3> DEFINE r == [app[a[1]] EXCEPT !.sdp = TRUE, !.peer = Sender(a)]
    <3>1. app' = [app EXCEPT ![a[1]] = r]
      BY <1>0, <2>2 DEF OfferComes, Pages
    <3>2. /\ DOMAIN r = PageField /\ r.at = app[a[1]].at /\ r.tries = app[a[1]].tries
          /\ r.sig = app[a[1]].sig /\ r.neg = app[a[1]].neg /\ r.net = app[a[1]].net
          /\ r.screen = app[a[1]].screen
      BY <1>0 DEF Pages, PageField
    <3> HIDE DEF r
    <3> QED
      BY <1>0, <3>1, <3>2, PageSet
  <2> QED
    BY <2>1, <2>2
<1>3. \A w \in work' \ work : w[1] = a /\ w \in Attempt \X LaterStep
  BY <1>1
<1>4. work \subseteq work'
  BY <1>1
<1> QED
  BY <1>0, <1>2, <1>3, <1>4, GoesOn DEF Drivers

\* Whatever comes on a socket, the invariant is preserved.
LEMMA TakesStep ==
  ASSUME LobbyInv, NEW a \in Attempt, Takes(a)
  PROVE  LobbyInv'
<1>1. CASE PeerLeft(a)
  <2>1. a[1] \in Player /\ CloseNet(a[1]) /\ UNCHANGED <<mode, work, faults>>
    BY <1>1, Attempts DEF PeerLeft
  <2> QED
    BY <2>1, ClosesNet
<1>2. CASE IceComes(a) \/ Ignored(a)
  BY <1>2, Quiet DEF IceComes, Ignored
<1> QED
  BY <1>1, <1>2, JoinedStep, RelayStep, SignalStep DEF Takes

-----------------------------------------------------------------------------
(***************************************************************************)
(* The calls of a start.                                                   *)
(***************************************************************************)
\* A socket is opened for a code.
LEMMA SocketOpens ==
  ASSUME Sockets, NEW a \in Attempt, NEW c,
         sock' = [sock EXCEPT ![a] = [phase |-> "opening", code |-> c]]
  PROVE  Sockets' /\ sock'[a].phase = "opening" /\ \A b \in Attempt \ {a} : sock'[b] = sock[b]
BY DEF Sockets

\* An attempt that awaits another call than the first has its signalling service.
LEMMA OneCall ==
  ASSUME LobbyInv, NEW a \in Attempt, NEW step, <<a, step>> \in work, step # "connect"
  PROVE  <<a, "connect">> \notin work
<1>1. <<a, step>>[1] = a /\ <<a, step>>[2] = step
  OBVIOUS
<1> QED
  BY <1>1 DEF LobbyInv, Calling

\* Created preserves the invariant.
LEMMA CreateStep ==
  ASSUME LobbyInv, NEW a \in Attempt, Created(a)
  PROVE  LobbyInv'
<1>0. /\ <<a, "create">> \in work
      /\ work' = (work \ {<<a, "create">>}) \cup {<<a, "join">>}
      /\ sock' = [sock EXCEPT ![a] = [phase |-> "opening", code |-> a]]
      /\ UNCHANGED <<mode, app, driver, faults>>
      /\ Pages /\ Drivers /\ Sockets
  BY DEF Created, peerVars, LobbyInv, Shaped
<1>1. <<a, "connect">> \notin work
  BY <1>0, OneCall
<1>2. Sockets' /\ sock'[a].phase = "opening" /\ \A b \in Attempt \ {a} : sock'[b] = sock[b]
  BY <1>0, SocketOpens
<1>3. Shaped' /\ (faults' # 0 \/ faults = 0)
  BY <1>0, <1>2 DEF LobbyInv, Shaped, Pages, Drivers, Step
<1>4. \A q \in Player : StaysPut(q)
  BY <1>0 DEF StaysPut
<1>5. /\ <<a, "create">>[1] = a /\ <<a, "join">>[1] = a /\ <<a, "join">>[2] = "join"
      /\ \A b \in Attempt : <<b, "connect">> \in work' <=> <<b, "connect">> \in work
      /\ \A b \in Attempt : <<b, "join">> \notin work \ work'
      /\ <<a, "join">> \in work'
  BY <1>0
<1>6. \A w \in work' \ work : NewWork(w)
  BY <1>0, <1>1, <1>5 DEF NewWork
<1>7. \A b \in Attempt : DoneWork(b)
  BY <1>5 DEF DoneWork
<1>8. SocketStays(a) /\ \A b \in Attempt \ {a} : SocketStays(b)
  BY <1>0, <1>1, <1>2, <1>5 DEF SocketStays
<1>9. \A b \in Attempt : <<b, "connect">> \in work' => app'[b[1]].sig # b /\ app'[b[1]].net # b
  BY <1>0, <1>5 DEF LobbyInv, Calling
<1> QED
  BY <1>0, <1>3, <1>4, <1>6, <1>7, <1>8, <1>9, PageStays

\* Connected preserves the invariant.
LEMMA ConnectStep ==
  ASSUME LobbyInv, NEW a \in Attempt, Connected(a)
  PROVE  LobbyInv'
<1>0. /\ <<a, "connect">> \in work /\ UNCHANGED <<mode, driver, faults>>
      /\ a[1] \in Player /\ Pages /\ Drivers /\ Sockets /\ Drivers'
      /\ \A b \in Attempt : b[1] \in Player
  BY Attempts DEF Connected, Connecting, peerVars, LobbyInv, Shaped, Drivers
<1>1. CASE ~Alive(a)
  <2>1. work' = work \ {<<a, "connect">>} /\ UNCHANGED <<app, sock>>
    BY <1>1 DEF Connected, Connecting, roomVars
  <2>2. Shaped' /\ (faults' # 0 \/ faults = 0)
    BY <1>0, <2>1 DEF LobbyInv, Shaped, Pages, Sockets
  <2>3. \A q \in Player : StaysPut(q)
    BY <2>1 DEF StaysPut
  <2>4. \A b \in Attempt : DoneWork(b) /\ SocketStays(b)
    <3>1. \A b \in Attempt : <<b, "join">> \notin work \ work'
      BY <2>1
    <3>2. \A b \in Attempt \ {a} : <<b, "connect">> \notin work \ work'
      BY <2>1
    <3>3. \A b \in Attempt : SocketStays(b)
      BY <2>1 DEF SocketStays
    <3> QED
      BY <1>1, <3>1, <3>2, <3>3 DEF DoneWork
  <2>5. \A b \in Attempt : <<b, "connect">> \in work' => app'[b[1]].sig # b /\ app'[b[1]].net # b
    BY <2>1 DEF LobbyInv, Calling
  <2> QED
    BY <1>0, <2>1, <2>2, <2>3, <2>4, <2>5, PageStays
<1>2. CASE Alive(a)
  <2> DEFINE r == [app[a[1]] EXCEPT !["sig"] = a]
  <2>1. app' = [app EXCEPT ![a[1]] = r]
    BY <1>0, <1>2 DEF Connected, Connecting, Set, Pages
  <2>2. /\ DOMAIN r = PageField /\ r.at = app[a[1]].at /\ r.tries = app[a[1]].tries
        /\ r.sig = a /\ r.neg = app[a[1]].neg /\ r.net = app[a[1]].net
        /\ r.screen = app[a[1]].screen
    BY <1>0 DEF Pages, PageField
  <2> HIDE DEF r
  <2>3. /\ Pages' /\ app'[a[1]] = r /\ \A q \in Player \ {a[1]} : app'[q] = app[q]
        /\ \A q \in Player : StaysPut(q)
    BY <1>0, <1>2, <2>1, <2>2, PagePut DEF Alive, Current
  <2>4. PICK step \in {"create", "join"} :
          work' = (work \ {<<a, "connect">>}) \cup {<<a, step>>}
    BY <1>2 DEF Connected, Connecting
  <2>5. /\ Sockets' /\ \A b \in Attempt \ {a} : sock'[b] = sock[b]
        /\ sock' = sock \/ (sock'[a].phase = "opening" /\ <<a, "join">> \in work')
    <3>1. CASE Hosting(a)
      <4>1. UNCHANGED sock
        BY <1>2, <3>1 DEF Connected, Connecting, roomVars
      <4> QED
        BY <1>0, <4>1 DEF Sockets
    <3>2. CASE ~Hosting(a)
      <4>1. PICK c \in shown : OpenSocket(a, c)
        BY <1>2, <3>2 DEF Connected, Connecting
      <4>2. <<a, "join">> \in work'
        BY <1>2, <3>2 DEF Connected, Connecting
      <4>3. sock' = [sock EXCEPT ![a] = [phase |-> "opening", code |-> c]]
        BY <4>1 DEF OpenSocket
      <4> QED
        BY <1>0, <4>2, <4>3, SocketOpens
    <3> QED
      BY <3>1, <3>2
  <2>6. /\ <<a, "connect">>[1] = a /\ <<a, step>>[1] = a /\ <<a, step>>[2] = step
        /\ \A b \in Attempt : <<b, "connect">> \in work' <=> b # a /\ <<b, "connect">> \in work
        /\ \A b \in Attempt : <<b, "join">> \notin work \ work'
        /\ \A b \in Attempt \ {a} : <<b, "connect">> \notin work \ work'
    BY <2>4
  <2>7. Shaped' /\ (faults' # 0 \/ faults = 0)
    BY <1>0, <2>3, <2>4, <2>5 DEF LobbyInv, Shaped, Step
  <2>8. \A w \in work' \ work : NewWork(w)
    BY <1>2, <2>4, <2>6 DEF NewWork, Alive, Current
  <2>9. \A b \in Attempt : DoneWork(b)
    BY <2>2, <2>3, <2>6 DEF DoneWork
  <2>10. SocketStays(a) /\ \A b \in Attempt \ {a} : SocketStays(b)
    BY <1>0, <2>5, <2>6 DEF SocketStays
  <2>11. ASSUME NEW b \in Attempt, <<b, "connect">> \in work'
         PROVE  app'[b[1]].sig # b /\ app'[b[1]].net # b
    <3>1. b # a /\ app[b[1]].sig # b /\ app[b[1]].net # b
      BY <2>6, <2>11 DEF LobbyInv, Calling
    <3> QED
      BY <1>0, <2>2, <2>3, <3>1
  <2> QED
    BY <1>0, <2>3, <2>7, <2>8, <2>9, <2>10, <2>11, PageStays
<1> QED
  BY <1>1, <1>2

\* StartFails preserves the invariant.
LEMMA FailStep ==
  ASSUME LobbyInv, NEW a \in Attempt, StartFails(a)
  PROVE  LobbyInv'
<1>0. PICK step \in {"connect", "create", "join"} :
        /\ <<a, step>> \in work /\ work' = work \ {<<a, step>>}
        /\ IF step = "join" /\ JoinRefused(a) THEN UNCHANGED faults ELSE Fault
  BY DEF StartFails
<1>1. /\ a[1] \in Player /\ Pages /\ Drivers /\ Sockets /\ UNCHANGED mode
      /\ faults' \in {faults, faults + 1} /\ faults \in Nat
      /\ faults' # 0 \/ (step = "join" /\ sock[a].phase \notin {"opening", "live"})
  BY <1>0, Attempts DEF LobbyInv, Shaped, StartFails, Fault, JoinRefused
<1>2. <<a, step>>[1] = a /\ <<a, step>>[2] = step
  OBVIOUS
<1>3. CASE Alive(a)
  <2>1. app' = Menu(a[1], app[a[1]].busy) /\ Down(a[1], Quit)
    BY <1>3 DEF StartFails, CloseNet
  <2>2. Closed(a[1])
    BY <1>1, <2>1, DownCloses
  <2>3. DoneByLeaving(a[1])
    BY <1>0, <1>1, <1>2, <2>2 DEF DoneByLeaving, Closed
  <2>4. work' \subseteq work
    BY <1>0
  <2> QED
    BY <1>1, <2>1, <2>3, <2>4, Leaves
<1>4. CASE ~Alive(a)
  <2>1. UNCHANGED <<app, driver>>
    BY <1>4 DEF StartFails, peerVars
  <2>2. /\ Sockets' /\ \A b \in Attempt \ {a} : sock'[b] = sock[b]
        /\ sock'[a].phase \in {"opening", "live"} => sock[a].phase \in {"opening", "live"}
        /\ sock'[a].phase # "idle" => sock[a].phase # "idle"
    <3>1. HangUp(a, <<>>) \/ UNCHANGED sock
      BY <1>4 DEF StartFails
    <3> QED
      BY <1>1, <3>1, HangsUp DEF Sockets
  <2>3. Shaped' /\ (faults' # 0 \/ faults = 0)
    BY <1>0, <1>1, <2>1, <2>2 DEF LobbyInv, Shaped, Pages, Drivers
  <2>4. \A q \in Player : StaysPut(q)
    BY <2>1 DEF StaysPut
  <2>5. \A b \in Attempt \ {a} :
          <<b, "join">> \notin work \ work' /\ <<b, "connect">> \notin work \ work'
    BY <1>0
  <2>6. /\ <<a, "connect">> \in work \ work' => step = "connect"
        /\ <<a, "join">> \in work \ work' => step = "join"
    BY <1>0
  <2>7. DoneWork(a) /\ \A b \in Attempt \ {a} : DoneWork(b)
    BY <1>1, <2>2, <2>5, <2>6 DEF DoneWork
  <2>8. SocketStays(a) /\ \A b \in Attempt \ {a} : SocketStays(b)
    BY <2>2 DEF SocketStays
  <2>9. \A b \in Attempt : <<b, "connect">> \in work' => app'[b[1]].sig # b /\ app'[b[1]].net # b
    BY <1>0, <2>1 DEF LobbyInv, Calling
  <2>10. work' \subseteq work
    BY <1>0
  <2> QED
    BY <1>1, <2>1, <2>3, <2>4, <2>7, <2>8, <2>9, <2>10, PageStays
<1> QED
  BY <1>3, <1>4

-----------------------------------------------------------------------------
(***************************************************************************)
(* New attempts.                                                           *)
(***************************************************************************)
\* A page in the menu has nothing, and of its next attempt nothing is known.
LEMMA MenuIsEmpty ==
  ASSUME LobbyInv, NEW p \in Player, app[p].screen = "menu"
  PROVE  /\ app[p].at = None /\ app[p].net = None /\ app[p].neg = None /\ app[p].sig = None
         /\ \A a \in Attempt : a[1] = p /\ a[2] > app[p].tries =>
              sock[a].phase = "idle" /\ \A w \in work : w[1] # a
<1>1. /\ app[p].at = None /\ app[p].net = None /\ app[p].neg = None /\ app[p].sig = None
      /\ app[p].tries \in Nat
  BY DEF LobbyInv, Own
<1>2. \A a \in Attempt : a[2] \in Nat
  BY Attempts
<1> QED
  BY <1>1, <1>2 DEF LobbyInv, Tried

\* Start preserves the invariant.
LEMMA StartStep ==
  ASSUME LobbyInv, NEW p \in Player, Start(p)
  PROVE  LobbyInv'
<1> DEFINE a == <<p, app[p].tries + 1>>
           r == [app[p] EXCEPT !.screen = "lobby", !.at = a, !.tries = a[2]]
<1>0. /\ mode = "friend" /\ app[p].screen = "menu" /\ a \in Attempt
      /\ app' = [app EXCEPT ![p] = r] /\ work' = work \cup {<<a, "connect">>}
      /\ UNCHANGED <<sock, driver, mode, faults>> /\ Pages /\ Drivers /\ Sockets
  BY DEF Start, Begin, LobbyInv, Shaped, Pages, peerVars, roomVars
<1>1. /\ DOMAIN r = PageField /\ r.screen = "lobby" /\ r.at = a /\ r.tries = app[p].tries + 1
      /\ r.net = app[p].net /\ r.neg = app[p].neg /\ r.sig = app[p].sig
  BY <1>0 DEF Pages, PageField
<1>2. a[1] = p /\ a[2] = app[p].tries + 1 /\ app[p].tries \in Nat
  BY DEF LobbyInv, Own
<1>3. /\ app[p].at = None /\ app[p].net = None /\ app[p].neg = None /\ app[p].sig = None
      /\ sock[a].phase = "idle" /\ \A w \in work : w[1] # a
  BY <1>0, <1>2, MenuIsEmpty
<1>4. /\ \A b \in Attempt : b[1] \in Player /\ b[2] \in Nat /\ b # None
      /\ \A q \in Player : \A b \in Or(OfPlayer(q)) : b # None => b[1] = q
  BY Attempts DEF Or
<1>5. a \in OfPlayer(p)
  BY <1>0, <1>2 DEF OfPlayer
<1> HIDE DEF r, a
<1>6. DOMAIN app' = Player /\ app'[p] = r /\ \A q \in Player \ {p} : app'[q] = app[q]
  BY <1>0 DEF Pages
<1>7. /\ <<a, "connect">>[1] = a /\ <<a, "connect">>[2] = "connect"
      /\ \A b \in Attempt : <<b, "connect">> \in work' <=> b = a \/ <<b, "connect">> \in work
  BY <1>0
<1>8. Shaped'
  BY <1>0, <1>1, <1>6 DEF LobbyInv, Shaped, Pages, Drivers, Sockets, Step
<1>9. Own'
  <2>1. ASSUME NEW q \in Player
        PROVE  /\ app'[q].at \in Or(OfPlayer(q)) /\ app'[q].tries \in Nat
               /\ app'[q].net \in {app'[q].at, None} /\ app'[q].neg \in {app'[q].at, None}
               /\ app'[q].sig \in {app'[q].at, None}
               /\ app'[q].screen = "menu" => app'[q].at = None
    <3>1. CASE q = p
      BY <1>1, <1>2, <1>3, <1>5, <1>6, <3>1 DEF Or
    <3>2. CASE q # p
      BY <1>6, <3>2 DEF LobbyInv, Own
    <3> QED
      BY <3>1, <3>2
  <2> QED
    BY <2>1 DEF Own
<1>10. \A q \in Player :
         app'[q].net = app[q].net /\ app'[q].sig = app[q].sig /\ app'[q].tries >= app[q].tries
  <2>1. \A q \in Player : app[q].tries \in Nat
    BY DEF LobbyInv, Own
  <2> QED
    BY <1>1, <1>6, <2>1
<1>11. Driven'
  BY <1>0, <1>4, <1>10 DEF LobbyInv, Driven
<1>12. PairedInMenu'
  <2>1. \A b \in Attempt : <<b, "assigned">> \notin work'
    BY <1>0 DEF LobbyInv, PairedInMenu
  <2> QED
    BY <2>1 DEF PairedInMenu
<1>13. Tried'
  <2>1. ASSUME NEW b \in Attempt,
               app'[b[1]].at = b \/ sock'[b].phase # "idle" \/ \E w \in work' : w[1] = b
        PROVE  b[2] <= app'[b[1]].tries
    <3>1. CASE b = a
      BY <1>1, <1>2, <1>6, <3>1
    <3>2. CASE b # a
      <4>1. app[b[1]].at = b \/ sock[b].phase # "idle" \/ \E w \in work : w[1] = b
        BY <1>0, <1>1, <1>4, <1>6, <1>7, <2>1, <3>2
      <4>2. b[2] <= app[b[1]].tries /\ app[b[1]].tries \in Nat /\ app'[b[1]].tries \in Nat
        BY <1>4, <1>9, <4>1 DEF LobbyInv, Tried, Own
      <4> QED
        BY <1>4, <1>10, <4>2
    <3> QED
      BY <3>1, <3>2
  <2> QED
    BY <2>1 DEF Tried
<1>14. Calling'
  <2>1. ASSUME NEW b \in Attempt, <<b, "connect">> \in work'
        PROVE  /\ mode' = "friend" /\ sock'[b].phase = "idle"
               /\ \A w \in work' : w[1] = b => w[2] = "connect"
               /\ app'[b[1]].sig # b /\ app'[b[1]].net # b
    <3>1. CASE b = a
      BY <1>0, <1>1, <1>2, <1>3, <1>4, <1>6, <1>7, <3>1
    <3>2. CASE b # a
      <4>1. /\ sock[b].phase = "idle" /\ \A w \in work : w[1] = b => w[2] = "connect"
            /\ app[b[1]].sig # b /\ app[b[1]].net # b
        BY <1>7, <2>1, <3>2 DEF LobbyInv, Calling
      <4> QED
        BY <1>0, <1>4, <1>7, <1>10, <3>2, <4>1
    <3> QED
      BY <3>1, <3>2
  <2> QED
    BY <2>1 DEF Calling
<1>15. Signalling'
  <2>1. ASSUME faults' = 0, NEW b \in Attempt, app'[b[1]].at = b, app'[b[1]].sig # b
        PROVE  <<b, "connect">> \in work' /\ app'[b[1]].screen = "lobby"
    <3>1. CASE b[1] = p
      BY <1>1, <1>6, <1>7, <2>1, <3>1
    <3>2. CASE b[1] # p
      BY <1>0, <1>4, <1>6, <1>7, <2>1, <3>2 DEF LobbyInv, Signalling, Current, Screen
    <3> QED
      BY <3>1, <3>2
  <2> QED
    BY <2>1 DEF Signalling, Current, Screen
<1>16. Watched'
  <2>1. ASSUME faults' = 0, NEW b \in Attempt, sock'[b].phase \in {"opening", "live"},
               <<b, "join">> \notin work'
        PROVE  app'[b[1]].at = b
               /\ IF mode' = "friend" THEN app'[b[1]].sig = b ELSE app'[b[1]].net = b
    <3>1. app[b[1]].at = b /\ app[b[1]].sig = b
      BY <1>0, <2>1 DEF LobbyInv, Watched, Current
    <3>2. b[1] # p
      BY <1>3, <1>4, <3>1
    <3> QED
      BY <1>0, <1>4, <1>6, <3>1, <3>2
  <2> QED
    BY <2>1 DEF Watched, Current
<1> QED
  BY <1>8, <1>9, <1>11, <1>12, <1>13, <1>14, <1>15, <1>16 DEF LobbyInv

\* Pair preserves the invariant.
LEMMA PairStep ==
  ASSUME LobbyInv, Pair
  PROVE  LobbyInv'
<1> DEFINE h == <<Host, app[Host].tries + 1>>
           g == <<Guest, app[Guest].tries + 1>>
           New == {<<h, "assigned">>, <<g, "assigned">>}
<1>0. /\ mode = "ranked" /\ h \in Attempt /\ g \in Attempt
      /\ \A p \in Player :
           app[p].screen = "menu" /\ <<<<p, app[p].tries>>, "assigned">> \notin work
      /\ app' = [p \in Player |-> [app[p] EXCEPT !.tries = app[p].tries + 1]]
      /\ work' = work \cup New
      /\ UNCHANGED <<sock, driver, mode, faults>> /\ Pages /\ Drivers /\ Sockets
  BY DEF Pair, CreateRoom, LobbyInv, Shaped
<1>1. \A p \in Player :
        /\ DOMAIN app'[p] = PageField /\ app'[p].tries = app[p].tries + 1
        /\ app'[p].screen = "menu" /\ app'[p].at = app[p].at
        /\ app'[p].net = app[p].net /\ app'[p].neg = app[p].neg /\ app'[p].sig = app[p].sig
  BY <1>0 DEF Pages, PageField
<1>2. /\ h[1] = Host /\ h[2] = app[Host].tries + 1 /\ Host \in Player
      /\ g[1] = Guest /\ g[2] = app[Guest].tries + 1 /\ Guest \in Player
      /\ \A w \in New : w[1] \in {h, g} /\ w[2] = "assigned"
  BY DEF Player
<1>3. \A a \in Attempt : a[1] \in Player /\ a[2] \in Nat /\ a = <<a[1], a[2]>>
  BY Attempts
<1>4. \A p \in Player : app[p].tries \in Nat
  BY DEF LobbyInv, Own
<1>5. New \subseteq Attempt \X Step
  BY <1>0 DEF Step
<1>6. \A a \in Attempt : <<a, "assigned">> \in New => a \in {h, g}
  OBVIOUS
<1> HIDE DEF h, g, New
<1>7. Shaped'
  <2>1. DOMAIN app' = Player
    BY <1>0
  <2> QED
    BY <1>0, <1>1, <1>5, <2>1 DEF LobbyInv, Shaped, Pages, Drivers, Sockets
<1>8. Own'
  <2>1. ASSUME NEW q \in Player
        PROVE  /\ app'[q].at \in Or(OfPlayer(q)) /\ app'[q].tries \in Nat
               /\ app'[q].net \in {app'[q].at, None} /\ app'[q].neg \in {app'[q].at, None}
               /\ app'[q].sig \in {app'[q].at, None}
               /\ app'[q].screen = "menu" => app'[q].at = None
    <3>1. /\ app[q].at \in Or(OfPlayer(q)) /\ app[q].tries \in Nat
          /\ app[q].net \in {app[q].at, None} /\ app[q].neg \in {app[q].at, None}
          /\ app[q].sig \in {app[q].at, None}
          /\ app[q].screen = "menu" => app[q].at = None
      BY DEF LobbyInv, Own
    <3>2. app[q].screen = "menu" /\ app[q].tries + 1 \in Nat
      <4>1. app[q].screen = "menu"
        BY DEF Pair
      <4> QED
        BY <1>4, <4>1
    <3>3. /\ app'[q].tries = app[q].tries + 1 /\ app'[q].screen = app[q].screen
          /\ app'[q].at = app[q].at /\ app'[q].net = app[q].net
          /\ app'[q].neg = app[q].neg /\ app'[q].sig = app[q].sig
      BY <1>1, <3>2
    <3> QED
      BY <3>1, <3>2, <3>3
  <2> QED
    BY <2>1 DEF Own
<1>9. Driven'
  BY <1>0, <1>1, <1>3 DEF LobbyInv, Driven
<1>10. PairedInMenu'
  <2>1. ASSUME NEW a \in Attempt, <<a, "assigned">> \in work'
        PROVE  a[2] = app'[a[1]].tries
    <3>1. <<a, "assigned">> \notin work
      <4>1. ASSUME <<a, "assigned">> \in work
            PROVE  FALSE
        <5>1. a[2] = app[a[1]].tries
          BY <4>1 DEF LobbyInv, PairedInMenu
        <5>2. a = <<a[1], app[a[1]].tries>>
          BY <1>3, <5>1
        <5> QED
          BY <1>0, <1>3, <4>1, <5>2
      <4> QED
        BY <4>1
    <3>2. a \in {h, g}
      BY <1>0, <1>6, <2>1, <3>1
    <3> QED
      BY <1>1, <1>2, <3>2
  <2> QED
    BY <1>0, <1>1, <1>3, <2>1 DEF PairedInMenu
<1>11. Tried'
  <2>1. ASSUME NEW a \in Attempt,
               app'[a[1]].at = a \/ sock'[a].phase # "idle" \/ \E w \in work' : w[1] = a
        PROVE  a[2] <= app'[a[1]].tries
    <3>1. a \in {h, g} \/ app[a[1]].at = a \/ sock[a].phase # "idle" \/ \E w \in work : w[1] = a
      BY <1>0, <1>1, <1>2, <1>3, <2>1
    <3>2. CASE a \in {h, g}
      BY <1>1, <1>2, <1>4, <3>2
    <3>3. CASE app[a[1]].at = a \/ sock[a].phase # "idle" \/ \E w \in work : w[1] = a
      <4>1. a[2] <= app[a[1]].tries
        BY <3>3 DEF LobbyInv, Tried
      <4> QED
        BY <1>1, <1>3, <1>4, <4>1
    <3> QED
      BY <3>1, <3>2, <3>3
  <2> QED
    BY <2>1 DEF Tried
<1>12. Calling'
  <2>1. \A a \in Attempt : <<a, "connect">> \notin work
    BY <1>0 DEF LobbyInv, Calling
  <2>2. \A a \in Attempt : <<a, "connect">> \notin work'
    BY <1>0, <1>2, <2>1
  <2> QED
    BY <2>2 DEF Calling
<1>13. Signalling'
  BY <1>0 DEF Signalling
<1>14. Watched'
  BY <1>0, <1>1, <1>3 DEF LobbyInv, Watched, Current
<1> QED
  BY <1>7, <1>8, <1>9, <1>10, <1>11, <1>12, <1>13, <1>14 DEF LobbyInv

\* Assigned preserves the invariant.
LEMMA AssignStep ==
  ASSUME LobbyInv, NEW a \in Attempt, Assigned(a)
  PROVE  LobbyInv'
<1> DEFINE p == a[1]
           r == [app[p] EXCEPT !.screen = "lobby", !.at = a]
<1>0. /\ <<a, "assigned">> \in work /\ UNCHANGED <<driver, mode, faults>>
      /\ Pages /\ Drivers /\ Sockets
  BY DEF Assigned, peerVars, LobbyInv, Shaped
<1>1. /\ mode = "ranked" /\ a[2] = app[p].tries /\ app[p].screen = "menu"
  BY <1>0 DEF LobbyInv, PairedInMenu
<1>2. /\ app[p].at = None /\ app[p].net = None /\ app[p].neg = None /\ app[p].sig = None
  BY <1>1, Attempts, MenuIsEmpty
<1>3. /\ \A b \in Attempt : b[1] \in Player /\ b[2] \in Nat /\ b = <<b[1], b[2]>> /\ b # None
      /\ a \in OfPlayer(p) /\ p \in Player /\ app[p].tries \in Nat
  BY Attempts DEF LobbyInv, Own
<1>4. \A b \in Attempt : <<b, "connect">> \notin work
  BY <1>1 DEF LobbyInv, Calling
<1>5. CASE work' = work \ {<<a, "assigned">>} /\ UNCHANGED <<app, sock>>
  <2>1. Shaped' /\ (faults' # 0 \/ faults = 0)
    BY <1>0, <1>5 DEF LobbyInv, Shaped, Pages, Drivers, Sockets
  <2>2. \A q \in Player : StaysPut(q)
    BY <1>5 DEF StaysPut
  <2>3. \A b \in Attempt :
          <<b, "join">> \notin work \ work' /\ <<b, "connect">> \notin work \ work'
    BY <1>5
  <2>4. \A b \in Attempt : DoneWork(b) /\ SocketStays(b)
    BY <1>5, <2>3 DEF DoneWork, SocketStays
  <2>5. work' \subseteq work /\ \A b \in Attempt : <<b, "connect">> \notin work'
    BY <1>4, <1>5
  <2> QED
    BY <1>0, <2>1, <2>2, <2>4, <2>5, PageStays
<1>6. CASE /\ app' = [app EXCEPT ![p] = r]
           /\ work' = (work \ {<<a, "assigned">>}) \cup {<<a, "join">>}
           /\ OpenSocket(a, RoomOf(a))
  <2>1. DOMAIN r = PageField /\ r.screen = "lobby" /\ r.at = a /\ r.tries = app[p].tries
        /\ r.net = app[p].net /\ r.neg = app[p].neg /\ r.sig = app[p].sig
    BY <1>0, <1>3 DEF Pages, PageField
  <2> HIDE DEF r
  <2>2. DOMAIN app' = Player /\ app'[p] = r /\ \A q \in Player \ {p} : app'[q] = app[q]
    BY <1>0, <1>3, <1>6 DEF Pages
  <2>3. /\ Sockets' /\ sock'[a].phase = "opening" /\ \A b \in Attempt \ {a} : sock'[b] = sock[b]
        /\ sock[a].phase = "idle"
    BY <1>0, <1>6, SocketOpens DEF OpenSocket
  <2>4. /\ <<a, "assigned">>[1] = a /\ <<a, "join">>[1] = a /\ <<a, "join">> \in work'
        /\ \A b \in Attempt : <<b, "connect">> \notin work'
        /\ \A b \in Attempt : <<b, "assigned">> \in work' => b # a /\ <<b, "assigned">> \in work
        /\ \A b \in Attempt : <<b, "join">> \in work => <<b, "join">> \in work'
    BY <1>4, <1>6
  <2> HIDE DEF p
  <2>5. Shaped'
    BY <1>0, <1>6, <2>1, <2>2, <2>3 DEF LobbyInv, Shaped, Pages, Drivers, Step
  <2>6. Own'
    <3>1. ASSUME NEW q \in Player
          PROVE  /\ app'[q].at \in Or(OfPlayer(q)) /\ app'[q].tries \in Nat
                 /\ app'[q].net \in {app'[q].at, None} /\ app'[q].neg \in {app'[q].at, None}
                 /\ app'[q].sig \in {app'[q].at, None}
                 /\ app'[q].screen = "menu" => app'[q].at = None
      <4>1. CASE q = p
        BY <1>2, <1>3, <2>1, <2>2, <4>1 DEF Or
      <4>2. CASE q # p
        BY <2>2, <4>2 DEF LobbyInv, Own
      <4> QED
        BY <4>1, <4>2
    <3> QED
      BY <3>1 DEF Own
  <2>7. \A q \in Player : app'[q].net = app[q].net /\ app'[q].tries = app[q].tries
    BY <2>1, <2>2
  <2>8. Driven'
    BY <1>0, <1>3, <2>7 DEF LobbyInv, Driven
  <2>9. PairedInMenu'
    <3>1. ASSUME NEW b \in Attempt, <<b, "assigned">> \in work'
          PROVE  mode' = "ranked" /\ b[2] = app'[b[1]].tries /\ app'[b[1]].screen = "menu"
      <4>1. b # a /\ b[2] = app[b[1]].tries /\ app[b[1]].screen = "menu"
        BY <2>4, <3>1 DEF LobbyInv, PairedInMenu
      <4>2. b[1] # p
        BY <1>1, <1>3, <4>1 DEF p
      <4> QED
        BY <1>0, <1>1, <1>3, <2>2, <4>1, <4>2
    <3> QED
      BY <3>1 DEF PairedInMenu
  <2>10. Tried'
    <3>1. ASSUME NEW b \in Attempt,
                 app'[b[1]].at = b \/ sock'[b].phase # "idle" \/ \E w \in work' : w[1] = b
          PROVE  b[2] <= app'[b[1]].tries
      <4>1. CASE b = a
        BY <1>1, <1>3, <2>7, <4>1 DEF p
      <4>2. CASE b # a
        <5>1. app[b[1]].at = b \/ sock[b].phase # "idle" \/ \E w \in work : w[1] = b
          BY <1>3, <1>6, <2>1, <2>2, <2>3, <2>4, <3>1, <4>2
        <5> QED
          BY <1>3, <2>7, <5>1 DEF LobbyInv, Tried
      <4> QED
        BY <4>1, <4>2
    <3> QED
      BY <3>1 DEF Tried
  <2>11. Calling'
    BY <2>4 DEF Calling
  <2>12. Signalling'
    BY <1>0, <1>1 DEF Signalling
  <2>13. Watched'
    <3>1. ASSUME faults' = 0, NEW b \in Attempt, sock'[b].phase \in {"opening", "live"},
                 <<b, "join">> \notin work'
          PROVE  app'[b[1]].at = b /\ app'[b[1]].net = b
      <4>1. b # a /\ <<b, "join">> \notin work
        BY <2>4, <3>1
      <4>2. app[b[1]].at = b /\ app[b[1]].net = b
        BY <1>0, <1>1, <2>3, <3>1, <4>1 DEF LobbyInv, Watched, Current
      <4>3. b[1] # p
        BY <1>2, <1>3, <4>2
      <4> QED
        BY <1>3, <2>2, <4>2, <4>3
    <3> QED
      BY <1>0, <1>1, <3>1 DEF Watched, Current
  <2> QED
    BY <2>5, <2>6, <2>8, <2>9, <2>10, <2>11, <2>12, <2>13 DEF LobbyInv
<1> QED
  BY <1>5, <1>6 DEF Assigned, roomVars

-----------------------------------------------------------------------------
\* The initial state satisfies the invariant.
LEMMA LobbyInit == Init => LobbyInv
<1> SUFFICES ASSUME Init
             PROVE  LobbyInv
  OBVIOUS
<1>1. /\ app = [p \in Player |-> Idle] /\ work = {} /\ faults = 0
      /\ driver = [a \in Attempt |-> NoDriver] /\ mode \in {"friend", "ranked"}
      /\ sock = [a \in Attempt |-> [phase |-> "idle", code |-> None]]
  BY LobbyAssumption DEF Init, RoomInit
<1>2. \A a \in Attempt : a[1] \in Player /\ a # None
  BY Attempts
<1>3. Shaped
  BY <1>1 DEF Shaped, Pages, Drivers, Sockets, Idle, NoDriver, PageField, DriverField
<1>4. Own
  BY <1>1 DEF Own, Idle, Or
<1>5. Driven /\ PairedInMenu /\ Tried /\ Calling /\ Signalling /\ Watched
  BY <1>1, <1>2 DEF Driven, PairedInMenu, Tried, Calling, Signalling, Watched, Current, Idle,
     NoDriver
<1> QED
  BY <1>3, <1>4, <1>5 DEF LobbyInv

\* Every step preserves the invariant.
LEMMA LobbyNext == LobbyInv /\ [Next]_vars => LobbyInv'
<1> SUFFICES ASSUME LobbyInv, [Next]_vars
             PROVE  LobbyInv'
  OBVIOUS
<1>1. ASSUME NEW p \in Player, Leave(p)
      PROVE  LobbyInv'
  BY <1>1, ClosesNet DEF Leave
<1>2. ASSUME NEW a \in Attempt, Continues(a)
      PROVE  LobbyInv'
  BY <1>2, AssignStep, ConnectStep, CreateStep, FailStep, OfferStep, AcceptStep, AnswerStep,
     HookStep, RecordAnswered DEF Continues
<1>3. ASSUME NEW a \in Attempt, IceGathered(a) \/ Opens(a) \/ HelloRetried(a)
      PROVE  LobbyInv'
  <2>1. UNCHANGED <<app, work, driver, sock, mode>> /\ faults' \in {faults, faults + 1}
    BY <1>3 DEF IceGathered, Opens, HelloRetried, roomVars, Fault
  <2> QED
    BY <2>1, Quiet
<1>4. ASSUME NEW a \in Attempt, HandshakeTimesOut(a)
      PROVE  LobbyInv'
  BY <1>4, Attempts, ClosesNet DEF HandshakeTimesOut
<1>5. CASE UNCHANGED vars
  BY <1>5, Quiet DEF vars, roomVars, peerVars
<1> QED
  BY <1>1, <1>2, <1>3, <1>4, <1>5, StartStep, PlayerReady, PairStep, TakesStep, ListensStep,
     LinkStep, BreakStep, RoomsStep DEF Next

\* The invariant holds in every state of every behaviour.
LEMMA LobbyInvariant == Spec => []LobbyInv
BY LobbyInit, LobbyNext, PTL DEF Spec

\* No cross-talk, however often the players try and whatever fails: what an attempt
\* awaits when it is given up never lands in a later one (the token and netGen checks of
\* main.ts).
THEOREM OwnAttemptOnlyHolds == Spec => []OwnAttemptOnly
<1>1. LobbyInv => OwnAttemptOnly
  BY DEF LobbyInv, Own, OwnAttemptOnly
<1> QED
  BY <1>1, LobbyInvariant, PTL

\* Unless a call has failed, the socket of an attempt that is given up is closed, or will
\* be when the join it awaits has come, so that the friend is told.
THEOREM NoSocketForgottenHolds == Spec => []NoSocketForgotten
<1>1. LobbyInv => NoSocketForgotten
  BY Attempts DEF LobbyInv, Watched, NoSocketForgotten, In
<1> QED
  BY <1>1, LobbyInvariant, PTL

-----------------------------------------------------------------------------
(***************************************************************************)
(* SameMatch.  Both sides are told of the match in several ways: by the    *)
(* room, by offer and answer, by welcome, by the record; on the way are    *)
(* signals, packets and controls.  The invariant says of each what it can  *)
(* be relied on for.                                                       *)
(***************************************************************************)
Guests == Attempt \ HostAttempt
Hooks == {"accept", "answer", "hook"}
LinkField == {"state", "mate", "remote"}
RoomField == {"status", "members", "roster", "sessions"}

Links == DOMAIN link = Attempt /\ \A a \in Attempt : DOMAIN link[a] = LinkField
Rooms == DOMAIN room = Code /\ \A c \in Code : DOMAIN room[c] = RoomField
Queues == DOMAIN up = Attempt /\ DOMAIN down = Attempt /\ DOMAIN inbox = Attempt

\* Nothing has come of an attempt yet.
Fresh(a) ==
  /\ driver[a].state = "none" /\ Mate(a) = None
  /\ \A s \in Hooks : <<a, s>> \notin work

\* Who awaits what.
Kind(w) ==
  /\ w[2] \in {"offer", "answer", "hook", "record", "create"} => Hosting(w[1])
  /\ w[2] = "accept" => ~Hosting(w[1])
  /\ w[2] \in Hooks \cup {"offer", "create"} => mode = "friend"
Kinds == \A w \in work : Kind(w)

\* An attempt gets its mate once, and its driver once.
OnceOf(a) ==
  /\ a[2] > app[a[1]].tries => Fresh(a)
  /\ mode = "friend" /\ Current(a) /\ ~app[a[1]].sdp => Fresh(a)
  /\ \A s \in Hooks : <<a, s>> \in work => driver[a].state = "none"
  /\ <<a, "accept">> \in work \/ <<a, "answer">> \in work => Mate(a) = None
  /\ <<a, "answer">> \in work => <<a, "hook">> \notin work
  /\ mode = "ranked" /\ (<<a, "assigned">> \in work \/ <<a, "join">> \in work) =>
       driver[a].state = "none" /\ Mate(a) # None
  /\ mode = "ranked" /\ driver[a].state # "none" => Mate(a) # None
  /\ app[a[1]].net = a => driver[a].state # "none"
  /\ driver[a].state \in {"none", "handshake"} => driver[a].seed = None
  /\ driver[a].state = "playing" => driver[a].seed # None
  /\ link[a].remote \/ link[a].state = "open" => Mate(a) # None
Once == \A a \in Attempt : OnceOf(a)

\* The mate of a host has the host for its mate.
Mates ==
  /\ \A h \in HostAttempt : Mate(h) # None => Mate(h) \in Guests /\ Mate(Mate(h)) = h
  /\ \A g \in Guests : Mate(g) # None =>
       Mate(g) \in HostAttempt /\ (mode = "ranked" => Mate(Mate(g)) = g)

\* An answer that is awaited is that of a guest which has accepted; the link of an
\* attempt that was given up meanwhile is closed.
NegotiatedOf(a) ==
  /\ <<a, "answer">> \in work =>
       IF Current(a)
       THEN /\ app[a[1]].neg = a /\ app[a[1]].peer \in Guests /\ Mate(app[a[1]].peer) = a
       ELSE link[a].state = "closed"
  /\ <<a, "accept">> \in work /\ Current(a) => app[a[1]].peer \in HostAttempt
Negotiated == \A a \in Attempt : NegotiatedOf(a)

\* In a reserved room are the two attempts it was reserved for.
SocketsIn(c) ==
  {s \in Attempt : mode = "ranked" => sock[s].code = c /\ sock[s].phase # "idle"}
InRoom ==
  /\ \A c \in Code : room[c].sessions \in Seq(SocketsIn(c))
  /\ \A s \in Attempt : sock[s].phase # "idle" =>
       /\ sock[s].code \in Code
       /\ mode = "ranked" => Mate(s) # None /\ sock[s].code = RoomOf(s)

\* Each session plays the seed its host dealt it, under one token.
Dealt(h, g) == Mate(h) = g /\ driver[h].seed = <<h, g>>
Seeds ==
  /\ \A h \in HostAttempt : driver[h].seed # None =>
       Mate(h) # None /\ driver[h].seed = <<h, Mate(h)>>
  /\ \A g \in Guests : driver[g].seed # None =>
       \E h \in HostAttempt : /\ Dealt(h, g) /\ driver[g].seed = <<h, g>>
                              /\ driver[h].token = driver[g].token

\* What may be said to the driver of b.
Fair(b, m) ==
  /\ m.t = "welcome" =>
       \E h \in HostAttempt : Dealt(h, b) /\ m.seed = <<h, b>> /\ driver[h].token = m.token
  /\ m.t = "city-match" => m.record \in HostAttempt /\ m.record = RoomOf(b)

\* What s may have said to its room, and what its room may have said to it.
TrueSaid(s, m) ==
  /\ m.t = "signal" =>
       /\ m.body = "answer" => s \in Guests /\ m.to \in HostAttempt /\ m.to = Mate(s)
       /\ m.body = "offer" => s \in HostAttempt
  /\ m.t = "packet" => mode = "ranked" /\ Mate(s) \in Attempt /\ Fair(Mate(s), m.body)
TrueHeard(s, m) ==
  /\ m.t = "signaled" =>
       /\ m.body = "answer" => m.from \in Guests /\ Mate(m.from) = s
       /\ m.body = "offer" => m.from \in HostAttempt
  /\ m.t = "packet" => Fair(s, m.body)

\* What is under way is true.
Words ==
  \A a \in Attempt :
    /\ \E S : inbox[a] \in Seq(S) /\ \A m \in S : Fair(a, m)
    /\ \E S : up[a] \in Seq(S) /\ \A m \in S : TrueSaid(a, m)
    /\ \E S : down[a] \in Seq(S) /\ \A m \in S : TrueHeard(a, m)

\* The record a page keeps is that of its match.
Recorded ==
  \A p \in Player : app[p].record # None =>
    app[p].at # None /\ app[p].record = RoomOf(app[p].at)

SameInv ==
  /\ Links /\ Rooms /\ Queues /\ Kinds /\ Once /\ Mates /\ Negotiated
  /\ InRoom /\ Seeds /\ Words /\ Recorded

\* What the invariant is for.
LEMMA SameMatchFollows == LobbyInv /\ SameInv => SameMatch
<1> SUFFICES ASSUME LobbyInv, SameInv
             PROVE  SameMatch
  OBVIOUS
<1>0. /\ \A a \in Attempt : a[1] \in Player /\ a # None /\ (Hosting(a) <=> a \in HostAttempt)
      /\ \A h \in HostAttempt, b, c \in Attempt : <<h, b>> = <<h, c>> => b = c
  BY Attempts DEF Hosting, HostAttempt
<1>1. ASSUME NEW h \in HostAttempt, NEW g \in Attempt, Mate(h) = g, Mate(g) = h,
             driver[h].state = "playing", driver[g].state = "playing"
      PROVE  driver[h].seed = driver[g].seed /\ driver[h].token = driver[g].token
  <2>1. g \in Guests /\ h \in Attempt
    BY <1>0, <1>1 DEF SameInv, Mates, HostAttempt
  <2>2. driver[h].seed = <<h, g>> /\ driver[g].seed # None
    BY <1>1, <2>1 DEF SameInv, Once, OnceOf, Seeds
  <2>3. PICK k \in HostAttempt : /\ Mate(k) = g /\ driver[k].seed = <<k, g>>
                                 /\ driver[g].seed = <<k, g>>
                                 /\ driver[k].token = driver[g].token
    BY <2>1, <2>2 DEF SameInv, Seeds, Dealt
  <2>4. k = h
    BY <1>0, <1>1, <2>3 DEF SameInv, Mates
  <2> QED
    BY <2>2, <2>3, <2>4
<1>2. ASSUME NEW a \in Attempt, NEW b \in Attempt, Mate(a) = b, Mate(b) = a
      PROVE  a \in HostAttempt \/ b \in HostAttempt
  BY <1>0, <1>2 DEF SameInv, Mates, Guests
<1>3. SamePairing
  BY <1>1, <1>2 DEF SamePairing
<1>4. SameRecord
  <2>1. ASSUME NEW p \in Player, app[p].record # None
        PROVE  app[p].record = IF p = Host THEN app[p].at ELSE Mate(app[p].at)
    <3>1. app[p].at # None /\ app[p].record = RoomOf(app[p].at)
      BY <2>1 DEF SameInv, Recorded
    <3>2. app[p].at \in OfPlayer(p)
      BY <3>1 DEF LobbyInv, Own, Or
    <3>3. app[p].at[1] = p
      BY <3>2 DEF OfPlayer
    <3> QED
      BY <3>1, <3>3 DEF RoomOf, Hosting
  <2> QED
    BY <2>1 DEF SameRecord
<1> QED
  BY <1>3, <1>4 DEF SameMatch

-----------------------------------------------------------------------------
(***************************************************************************)
(* Sequences.                                                              *)
(***************************************************************************)
\* A sequence over S is one over every larger set.
LEMMA WiderSeq ==
  ASSUME NEW S, NEW T, S \subseteq T, NEW q \in Seq(S)
  PROVE  q \in Seq(T)
OBVIOUS

\* Of a set of positions there is a first one.
LEMMA FirstPosition ==
  ASSUME NEW I, I \subseteq Nat, I # {}
  PROVE  Min(I) \in I
<1>1. \E x \in I : \A y \in I : <<y, x>> \notin OpToRel(<, Nat)
  BY WFMin, NatLessThanWellFounded
<1>2. \A x, y \in Nat : y < x => <<y, x>> \in OpToRel(<, Nat)
  BY DEF OpToRel
<1>3. \E x \in I : \A y \in I : x =< y
  <2>1. PICK x \in I : \A y \in I : <<y, x>> \notin OpToRel(<, Nat)
    BY <1>1
  <2>2. \A y \in I : ~(y < x)
    BY <1>2, <2>1
  <2>3. \A y \in I : x =< y
    BY <2>2
  <2> QED
    BY <2>3
<1> QED
  BY <1>3 DEF Min

\* RemoveFirst() leaves a sequence over the same set.
LEMMA RemoveFirstSeq ==
  ASSUME NEW S, NEW q \in Seq(S), NEW e
  PROVE  RemoveFirst(q, e) \in Seq(S)
<1> DEFINE I == {i \in 1 .. Len(q) : q[i] = e}
<1>1. CASE I = {}
  BY <1>1 DEF RemoveFirst
<1>2. CASE I # {}
  <2>1. Min(I) \in I
    <3>1. I \subseteq Nat
      OBVIOUS
    <3> HIDE DEF I
    <3> QED
      BY <1>2, <3>1, FirstPosition
  <2>2. SelectInSeq(q, LAMBDA v : v = e) = Min(I)
    BY <1>2 DEF SelectInSeq
  <2>3. RemoveFirst(q, e) = RemoveAt(q, Min(I))
    BY <1>2, <2>2 DEF RemoveFirst
  <2> HIDE DEF I
  <2>4. Min(I) \in 1 .. Len(q)
    BY <2>1 DEF I
  <2>5. RemoveAt(q, Min(I)) \in Seq(S)
    BY <2>4 DEF RemoveAt
  <2> QED
    BY <2>3, <2>5
<1> QED
  BY <1>1, <1>2

\* socketFor() finds a socket of the peer if there is one.
LEMMA SocketForPeer ==
  ASSUME NEW c \in Code, NEW p, room[c].sessions \in Seq(Socket),
         \E o \in Sessions(c) : Holder[o] = p
  PROVE  SocketFor(c, p) \in Socket /\ Holder[SocketFor(c, p)] = p
<1> DEFINE q == room[c].sessions
           I == {i \in 1 .. Len(q) : Holder[q[i]] = p}
<1>1. I # {}
  BY DEF Sessions, ToSet
<1>2. Min(I) \in I
  <2>1. I \subseteq Nat
    OBVIOUS
  <2> HIDE DEF I
  <2> QED
    BY <1>1, <2>1, FirstPosition
<1>3. SelectInSeq(q, LAMBDA s : Holder[s] = p) = Min(I)
  BY <1>1 DEF SelectInSeq
<1>4. SocketFor(c, p) = q[Min(I)]
  BY <1>3 DEF SocketFor
<1> HIDE DEF I
<1>5. Min(I) \in 1 .. Len(q) /\ Holder[q[Min(I)]] = p
  BY <1>2 DEF I
<1> QED
  BY <1>4, <1>5

-----------------------------------------------------------------------------
(***************************************************************************)
(* What is true stays true.                                                *)
(***************************************************************************)
\* The mates, seeds and tokens that are known stay.
Kept ==
  /\ mode' = mode
  /\ \A a \in Attempt : link[a].mate # None => link'[a].mate = link[a].mate
  /\ \A a \in Attempt : driver[a].seed # None =>
       driver'[a].seed = driver[a].seed /\ driver'[a].token = driver[a].token

\* What q may have become: what is new in q2 is of R.
Grows(q2, q, R) == \A S : q \in Seq(S) => q2 \in Seq(S \cup R)

\* Which attempts there are.
HostFacts ==
  /\ HostAttempt \subseteq Attempt /\ Guests \subseteq Attempt
  /\ None \notin Attempt /\ \A a, b \in Attempt : <<a, b>> # None
  /\ \A a \in Attempt : a \in HostAttempt <=> a[1] = Host
  /\ \A a \in Attempt : a \in Guests <=> a[1] # Host

\* Hosts and guests are attempts, and an attempt is one or the other.
LEMMA Hosts == HostFacts
BY Attempts, LobbyAssumption DEF HostFacts, HostAttempt, Guests

\* What a player was told, and was right, stays right.
LEMMA FairKept ==
  ASSUME Kept, NEW b \in Attempt, NEW m, Fair(b, m)
  PROVE  Fair(b, m)'
<1>0. HostFacts
  BY Hosts
<1>1. ASSUME NEW h \in HostAttempt, Dealt(h, b)
      PROVE  Dealt(h, b)' /\ driver'[h].token = driver[h].token
  BY <1>0, <1>1 DEF Dealt, Kept, Mate, HostFacts
<1> QED
  BY <1>0, <1>1 DEF Fair, Kept, Mate, HostFacts, RoomOf, Hosting

\* So does what was said to a room, or by it.
LEMMA SaidKept ==
  ASSUME Kept, NEW s \in Attempt, NEW m
  PROVE  /\ TrueSaid(s, m) => TrueSaid(s, m)'
         /\ TrueHeard(s, m) => TrueHeard(s, m)'
<1>0. HostFacts
  BY Hosts
<1>1. Fair(s, m.body) => Fair(s, m.body)'
  BY FairKept
<1>2. Mate(s) \in Attempt => Mate(s)' = Mate(s)
  BY <1>0 DEF Kept, Mate, HostFacts
<1>3. Mate(s) \in Attempt /\ Fair(Mate(s), m.body) => Fair(Mate(s), m.body)'
  <2>1. ASSUME NEW b \in Attempt, Fair(b, m.body)
        PROVE  Fair(b, m.body)'
    BY <2>1, FairKept
  <2>2. ASSUME NEW b \in Attempt, b = Mate(s), Fair(Mate(s), m.body)
        PROVE  Fair(Mate(s), m.body)'
    <3>1. Fair(b, m.body)'
      BY <2>1, <2>2
    <3>2. Mate(s)' = b
      BY <1>2, <2>2
    <3> QED
      BY <3>1, <3>2
  <2> QED
    BY <2>2
<1>4. TrueSaid(s, m) => TrueSaid(s, m)'
  BY <1>0, <1>2, <1>3 DEF TrueSaid, Kept, HostFacts
<1>5. m.from \in Guests /\ Mate(m.from) = s => Mate(m.from)' = s
  BY <1>0 DEF Kept, Mate, HostFacts
<1>6. TrueHeard(s, m) => TrueHeard(s, m)'
  BY <1>0, <1>1, <1>5 DEF TrueHeard, Kept, HostFacts
<1> QED
  BY <1>4, <1>6

\* What comes into the queues is true.
InboxTrue ==
  \A a \in Attempt : \E R : Grows(inbox'[a], inbox[a], R) /\ \A m \in R : Fair(a, m)'
UpTrue ==
  \A a \in Attempt : \E R : Grows(up'[a], up[a], R) /\ \A m \in R : TrueSaid(a, m)'
DownTrue ==
  \A a \in Attempt : \E R : Grows(down'[a], down[a], R) /\ \A m \in R : TrueHeard(a, m)'

\* What is under way stays true.
LEMMA WordsStep ==
  ASSUME Words, Kept, InboxTrue, UpTrue, DownTrue
  PROVE  Words'
<1>1. ASSUME NEW a \in Attempt
      PROVE  \E S : inbox'[a] \in Seq(S) /\ \A m \in S : Fair(a, m)'
  <2>1. PICK S : inbox[a] \in Seq(S) /\ \A m \in S : Fair(a, m)
    BY DEF Words
  <2>2. PICK R : Grows(inbox'[a], inbox[a], R) /\ \A m \in R : Fair(a, m)'
    BY DEF InboxTrue
  <2>3. inbox'[a] \in Seq(S \cup R)
    BY <2>1, <2>2 DEF Grows
  <2>4. \A m \in S \cup R : Fair(a, m)'
    BY <2>1, <2>2, FairKept
  <2> QED
    BY <2>3, <2>4
<1>2. ASSUME NEW a \in Attempt
      PROVE  \E S : up'[a] \in Seq(S) /\ \A m \in S : TrueSaid(a, m)'
  <2>1. PICK S : up[a] \in Seq(S) /\ \A m \in S : TrueSaid(a, m)
    BY DEF Words
  <2>2. PICK R : Grows(up'[a], up[a], R) /\ \A m \in R : TrueSaid(a, m)'
    BY DEF UpTrue
  <2>3. up'[a] \in Seq(S \cup R)
    BY <2>1, <2>2 DEF Grows
  <2>4. \A m \in S \cup R : TrueSaid(a, m)'
    BY <2>1, <2>2, SaidKept
  <2> QED
    BY <2>3, <2>4
<1>3. ASSUME NEW a \in Attempt
      PROVE  \E S : down'[a] \in Seq(S) /\ \A m \in S : TrueHeard(a, m)'
  <2>1. PICK S : down[a] \in Seq(S) /\ \A m \in S : TrueHeard(a, m)
    BY DEF Words
  <2>2. PICK R : Grows(down'[a], down[a], R) /\ \A m \in R : TrueHeard(a, m)'
    BY DEF DownTrue
  <2>3. down'[a] \in Seq(S \cup R)
    BY <2>1, <2>2 DEF Grows
  <2>4. \A m \in S \cup R : TrueHeard(a, m)'
    BY <2>1, <2>2, SaidKept
  <2> QED
    BY <2>3, <2>4
<1> QED
  BY <1>1, <1>2, <1>3 DEF Words

\* How a queue may grow.
LEMMA Growing ==
  ASSUME NEW q
  PROVE  /\ \A R : Grows(q, q, R) /\ Grows(<<>>, q, R)
         /\ \A R : q # <<>> => Grows(Tail(q), q, R)
         /\ \A R : \A m \in R : Grows(Append(q, m), q, R)
         /\ \A R : \A ms \in Seq(R) : Grows(q \o ms, q, R)
<1>1. ASSUME NEW S, q \in Seq(S), NEW R
      PROVE  q \in Seq(S \cup R)
  BY <1>1, WiderSeq
<1>2. ASSUME NEW S, NEW R, NEW ms \in Seq(R)
      PROVE  ms \in Seq(S \cup R)
  BY WiderSeq
<1>3. ASSUME NEW R, q # <<>>
      PROVE  Grows(Tail(q), q, R)
  BY <1>1, <1>3 DEF Grows
<1>4. ASSUME NEW R, NEW m \in R
      PROVE  Grows(Append(q, m), q, R)
  BY <1>1 DEF Grows
<1>5. ASSUME NEW R, NEW ms \in Seq(R)
      PROVE  Grows(q \o ms, q, R)
  BY <1>1, <1>2 DEF Grows
<1> QED
  BY <1>1, <1>3, <1>4, <1>5 DEF Grows

\* The head of a queue is one of what is under way.
LEMMA HeadTrue ==
  ASSUME Words, NEW a \in Attempt
  PROVE  /\ inbox[a] # <<>> => Fair(a, Head(inbox[a]))
         /\ up[a] # <<>> => TrueSaid(a, Head(up[a]))
         /\ down[a] # <<>> => TrueHeard(a, Head(down[a]))
<1>1. ASSUME NEW q, NEW S, q \in Seq(S), q # <<>>
      PROVE  Head(q) \in S
  BY <1>1
<1> QED
  BY <1>1 DEF Words

-----------------------------------------------------------------------------
(***************************************************************************)
(* What most steps do to pages, links, drivers and what is awaited.        *)
(***************************************************************************)
\* A page goes on with its attempt,
Goes(p) ==
  /\ app'[p].at = app[p].at /\ app'[p].tries >= app[p].tries
  /\ app[p].sdp => app'[p].sdp
  /\ app'[p].peer = app[p].peer \/ app[p].peer = None
  /\ app'[p].neg \in {app[p].neg, app[p].at}
  /\ app'[p].net = app[p].net \/ driver'[app'[p].net].state # "none"
  /\ \/ app'[p].record = app[p].record
     \/ app[p].at # None /\ app'[p].record = RoomOf(app[p].at)

\* or leaves it, and closes its transport,
Quits(p) ==
  /\ app'[p].at = None /\ app'[p].net = None /\ app'[p].record = None
  /\ app'[p].tries = app[p].tries
  /\ mode = "friend" /\ app[p].neg # None => link'[app[p].neg].state = "closed"

\* or begins one, which of a friend is a new one.
Begins(p) ==
  /\ app[p].at = None /\ app'[p].at # None
  /\ mode = "ranked" \/ app'[p].at[2] > app[p].tries
  /\ app'[p].tries >= app[p].tries
  /\ app'[p].net = app[p].net /\ app'[p].record = app[p].record

LinkSteady(a) ==
  /\ link'[a].mate = link[a].mate
  /\ link'[a].remote \/ link'[a].state = "open" =>
       link[a].remote \/ link[a].state = "open" \/ Mate(a) # None
  /\ link[a].state = "closed" /\ ~Current(a) => link'[a].state = "closed"

DriverSteady(a) ==
  /\ driver'[a].seed = driver[a].seed
  /\ driver[a].seed # None => driver'[a].token = driver[a].token
  /\ \/ driver'[a].state = driver[a].state
     \/ driver[a].state # "none" /\ driver'[a].state = "closed"

\* Nothing of the negotiation is awaited anew, and no room that was not reserved.
WorkSteady(a) ==
  /\ \A s \in Hooks : <<a, s>> \in work' => <<a, s>> \in work
  /\ mode = "ranked" /\ (<<a, "assigned">> \in work' \/ <<a, "join">> \in work') =>
       <<a, "assigned">> \in work \/ <<a, "join">> \in work

\* A driver stays at its stage, or begins its session, or is closed.
DriverMoves(a) ==
  \/ driver'[a].state = driver[a].state /\ driver'[a].seed = driver[a].seed
  \/ driver[a].state # "none" /\ driver'[a].state = "closed"
  \/ driver[a].state = "handshake" /\ driver'[a].state = "playing" /\ driver'[a].seed # None

\* What the page does leaves the attempt its one mate and its one driver.
PageOnce(a) ==
  /\ app'[a[1]].tries >= app[a[1]].tries
  /\ mode = "friend" /\ app'[a[1]].at = a /\ ~app'[a[1]].sdp =>
       a[2] > app[a[1]].tries \/ (app[a[1]].at = a /\ ~app[a[1]].sdp)
  /\ app'[a[1]].net = a => app[a[1]].net = a \/ driver'[a].state # "none"

\* An attempt for which a step does nothing new gets nothing twice.
LEMMA OnceKept ==
  ASSUME LobbyInv, LobbyInv', Once, NEW a \in Attempt, mode' = mode, LinkSteady(a),
         DriverMoves(a), WorkSteady(a), PageOnce(a)
  PROVE  OnceOf(a)'
<1>0. /\ a[1] \in Player /\ a[2] \in Nat /\ app[a[1]].tries \in Nat /\ app'[a[1]].tries \in Nat
      /\ OnceOf(a)
  BY Attempts DEF LobbyInv, Own, Once
<1>1. Fresh(a) => Fresh(a)'
  BY DEF Fresh, DriverMoves, WorkSteady, LinkSteady, Mate
<1>2. a[2] > app'[a[1]].tries => a[2] > app[a[1]].tries
  BY <1>0 DEF PageOnce
<1>3. /\ a[2] > app'[a[1]].tries => Fresh(a)'
      /\ mode' = "friend" /\ Current(a)' /\ ~app'[a[1]].sdp => Fresh(a)'
  BY <1>0, <1>1, <1>2 DEF PageOnce, OnceOf, Current
<1>4. driver[a].state = "none" => driver'[a].state = "none"
  BY DEF DriverMoves
<1>5. /\ \A s \in Hooks : <<a, s>> \in work' => driver'[a].state = "none"
      /\ <<a, "accept">> \in work' \/ <<a, "answer">> \in work' => Mate(a)' = None
      /\ <<a, "answer">> \in work' => <<a, "hook">> \notin work'
  BY <1>0, <1>4 DEF OnceOf, WorkSteady, LinkSteady, Mate, Hooks
<1>6. /\ mode' = "ranked" /\ (<<a, "assigned">> \in work' \/ <<a, "join">> \in work') =>
           driver'[a].state = "none" /\ Mate(a)' # None
      /\ mode' = "ranked" /\ driver'[a].state # "none" => Mate(a)' # None
  BY <1>0, <1>4 DEF OnceOf, WorkSteady, LinkSteady, Mate, DriverMoves
<1>7. app'[a[1]].net = a => driver'[a].state # "none"
  BY <1>0 DEF OnceOf, PageOnce, DriverMoves
<1>8. /\ driver'[a].state \in {"none", "handshake"} => driver'[a].seed = None
      /\ driver'[a].state = "playing" => driver'[a].seed # None
  BY <1>0 DEF OnceOf, DriverMoves
<1>9. link'[a].remote \/ link'[a].state = "open" => Mate(a)' # None
  BY <1>0 DEF OnceOf, LinkSteady, Mate
<1> QED
  BY <1>3, <1>5, <1>6, <1>7, <1>8, <1>9 DEF OnceOf

\* Every way on of the pages leaves every attempt its one mate and driver.
LEMMA PagesOnce ==
  ASSUME LobbyInv, LobbyInv', Once, \A p \in Player : Goes(p) \/ Quits(p) \/ Begins(p),
         NEW a \in Attempt
  PROVE  PageOnce(a)
<1> DEFINE p == a[1]
<1>0. /\ p \in Player /\ a # None /\ app[p].tries \in Nat /\ app'[p].tries \in Nat
      /\ app[p].at = None => app[p].net = None
  BY Attempts DEF LobbyInv, Own
<1>1. CASE Goes(p)
  BY <1>0, <1>1 DEF Goes, PageOnce
<1>2. CASE Quits(p)
  BY <1>0, <1>2 DEF Quits, PageOnce
<1>3. CASE Begins(p)
  BY <1>0, <1>3 DEF Begins, PageOnce
<1> QED
  BY <1>0, <1>1, <1>2, <1>3

\* Mates that stay are mates.
LEMMA MatesKept ==
  ASSUME Mates, mode' = mode, \A a \in Attempt : link'[a].mate = link[a].mate
  PROVE  Mates'
<1>1. HostFacts
  BY Hosts
<1>2. \A h \in HostAttempt : Mate(h) # None => Mate(h) \in Attempt
  BY <1>1 DEF Mates, HostFacts
<1>3. \A g \in Guests : Mate(g) # None => Mate(g) \in Attempt
  BY <1>1 DEF Mates, HostFacts
<1> QED
  BY <1>1, <1>2, <1>3 DEF Mates, Mate, HostFacts

\* A negotiation goes on, or is closed.
LEMMA NegotiatedKept ==
  ASSUME LobbyInv, SameInv, LobbyInv', mode' = mode,
         \A p \in Player : Goes(p) \/ Quits(p) \/ Begins(p),
         NEW a \in Attempt, WorkSteady(a),
         link[a].state = "closed" /\ ~Current(a) => link'[a].state = "closed",
         \A b \in Attempt : link[b].mate # None => link'[b].mate = link[b].mate
  PROVE  NegotiatedOf(a)'
<1> DEFINE p == a[1]
<1>0. /\ p \in Player /\ a # None /\ a[2] \in Nat /\ app[p].tries \in Nat /\ HostFacts
      /\ OnceOf(a) /\ NegotiatedOf(a)
  BY Attempts, Hosts DEF LobbyInv, Own, SameInv, Once, Negotiated
<1>1. ASSUME <<a, "answer">> \in work' \/ <<a, "accept">> \in work'
      PROVE  mode = "friend" /\ ~Fresh(a)
  <2>1. <<a, "answer">> \in work \/ <<a, "accept">> \in work
    BY <1>1 DEF WorkSteady, Hooks
  <2>2. <<a, "answer">>[2] = "answer" /\ <<a, "accept">>[2] = "accept"
    OBVIOUS
  <2> QED
    BY <2>1, <2>2 DEF Fresh, Hooks, SameInv, Kinds, Kind
<1>2. ASSUME <<a, "answer">> \in work' \/ <<a, "accept">> \in work', app'[p].at = a
      PROVE  app[p].at = a /\ Goes(p)
  <2>1. a[2] <= app[p].tries
    BY <1>0, <1>1, <1>2 DEF OnceOf
  <2> QED
    BY <1>0, <1>1, <1>2, <2>1 DEF Goes, Quits, Begins
<1>3. ASSUME <<a, "accept">> \in work', app'[p].at = a
      PROVE  app'[p].peer \in HostAttempt
  <2>1. <<a, "accept">> \in work
    BY <1>3 DEF WorkSteady, Hooks
  <2> QED
    BY <1>0, <1>2, <1>3, <2>1 DEF NegotiatedOf, Current, Goes, HostFacts
<1>4. ASSUME <<a, "answer">> \in work', app'[p].at = a
      PROVE  /\ app'[p].neg = a /\ app'[p].peer \in Guests
             /\ link'[app'[p].peer].mate = a
  <2>1. <<a, "answer">> \in work
    BY <1>4 DEF WorkSteady, Hooks
  <2>2. /\ app[p].at = a /\ Goes(p) /\ app[p].neg = a /\ app[p].peer \in Guests
        /\ Mate(app[p].peer) = a
    BY <1>2, <1>4, <2>1, <1>0 DEF NegotiatedOf, Current
  <2>3. app'[p].neg = a /\ app'[p].peer = app[p].peer
    BY <1>0, <2>2 DEF Goes, HostFacts
  <2> QED
    BY <1>0, <2>2, <2>3 DEF HostFacts, Mate
<1>5. ASSUME <<a, "answer">> \in work', app'[p].at # a
      PROVE  link'[a].state = "closed"
  <2>1. <<a, "answer">> \in work
    BY <1>5 DEF WorkSteady, Hooks
  <2>2. CASE app[p].at = a
    <3>1. app[p].neg = a /\ Quits(p)
      BY <1>0, <1>5, <2>1, <2>2 DEF NegotiatedOf, Current, Goes, Begins
    <3> QED
      BY <1>0, <1>1, <1>5, <3>1 DEF Quits
  <2>3. CASE app[p].at # a
    BY <1>0, <2>1, <2>3 DEF NegotiatedOf, Current
  <2> QED
    BY <2>2, <2>3
<1> QED
  BY <1>3, <1>4, <1>5 DEF NegotiatedOf, Current, Mate

\* Seeds that stay are those that were dealt.
LEMMA SeedsKept ==
  ASSUME Seeds, Kept, \A a \in Attempt : driver'[a].seed = driver[a].seed
  PROVE  Seeds'
<1>0. HostFacts
  BY Hosts
<1>1. ASSUME NEW h \in HostAttempt, driver'[h].seed # None
      PROVE  Mate(h)' # None /\ driver'[h].seed = <<h, Mate(h)'>>
  BY <1>0, <1>1 DEF Seeds, Kept, Mate, HostFacts
<1>2. ASSUME NEW g \in Guests, driver'[g].seed # None
      PROVE  \E h \in HostAttempt : /\ Dealt(h, g)' /\ driver'[g].seed = <<h, g>>
                                    /\ driver'[h].token = driver'[g].token
  <2>1. driver[g].seed # None /\ g \in Attempt
    BY <1>0, <1>2 DEF HostFacts
  <2>2. PICK h \in HostAttempt : /\ Dealt(h, g) /\ driver[g].seed = <<h, g>>
                                 /\ driver[h].token = driver[g].token
    BY <2>1 DEF Seeds
  <2>3. h \in Attempt /\ driver[h].seed # None /\ link[h].mate # None
    BY <1>0, <2>1, <2>2 DEF HostFacts, Dealt, Mate
  <2> QED
    BY <2>1, <2>2, <2>3 DEF Kept, Dealt, Mate
<1> QED
  BY <1>1, <1>2 DEF Seeds

\* The records of pages that go on are those of their matches.
LEMMA RecordedKept ==
  ASSUME LobbyInv, Recorded, Kept, \A p \in Player : Goes(p) \/ Quits(p) \/ Begins(p)
  PROVE  Recorded'
<1>1. ASSUME NEW p \in Player, app'[p].record # None
      PROVE  (app[p].at # None /\ app[p].record = RoomOf(app[p].at))'
  <2>1. app[p].at \in Attempt \cup {None}
    BY Attempts DEF LobbyInv, Own, Or
  <2>2. /\ app'[p].at = app[p].at /\ app[p].at # None
        /\ app'[p].record = RoomOf(app[p].at)
    BY <1>1 DEF Goes, Quits, Begins, Recorded
  <2>3. app[p].at \in Attempt
    BY <2>1, <2>2
  <2> QED
    BY <1>1, <2>2, <2>3 DEF RoomOf, Hosting, Mate, Kept
<1> QED
  BY <1>1 DEF Recorded

-----------------------------------------------------------------------------
(***************************************************************************)
(* What is said.                                                           *)
(***************************************************************************)
\* Steady links and drivers keep what is known.
LEMMA SteadyKept ==
  ASSUME mode' = mode, \A a \in Attempt : LinkSteady(a) /\ DriverSteady(a)
  PROVE  Kept
BY DEF Kept, LinkSteady, DriverSteady

\* What may be said to b, in the state after a step.
FairTo(b, R) == \A m \in R : Fair(b, m)'

\* Words that say nothing of the match may always be said.
LEMMA PlainWords ==
  /\ \A b : FairTo(b, {Control(t) : t \in {"quit", "profile", "ready"}})
  /\ \A b, a : FairTo(b, {Hello(a)})
  /\ \A s : TrueSaid(s, [t |-> "leave-room"])'
  /\ \A b, R, Q : FairTo(b, R) /\ Q \subseteq R => FairTo(b, Q)
<1>1. \A t : Control(t).t = t
  BY DEF Control
<1>2. \A a : Hello(a).t = "hello"
  BY DEF Hello, Control
<1> QED
  BY <1>1, <1>2 DEF FairTo, Fair, TrueSaid

\* The words ms as packets.
LEMMA Packets ==
  ASSUME NEW R, NEW ms \in Seq(R)
  PROVE  [i \in DOMAIN ms |-> AsPacket(ms[i])] \in Seq({AsPacket(m) : m \in R})
<1> DEFINE P == {AsPacket(m) : m \in R}
<1>1. DOMAIN ms = 1 .. Len(ms) /\ Len(ms) \in Nat /\ \A i \in DOMAIN ms : AsPacket(ms[i]) \in P
  OBVIOUS
<1> HIDE DEF P
<1> QED
  BY <1>1 DEF P

\* What a player says through the room to its opponent.
LEMMA PacketsTrue ==
  ASSUME NEW a \in Attempt, NEW b \in Attempt, NEW R, mode' = "ranked", link'[a].mate = b,
         FairTo(b, R)
  PROVE  \A m \in {AsPacket(w) : w \in R} : TrueSaid(a, m)'
<1>1. ASSUME NEW w \in R
      PROVE  TrueSaid(a, AsPacket(w))'
  <2>1. AsPacket(w).t = "packet" /\ AsPacket(w).body = w
    BY DEF AsPacket
  <2>2. Fair(b, w)'
    BY DEF FairTo
  <2>3. Fair(Mate(a), w)'
    BY <2>2 DEF Mate, Fair, Dealt, RoomOf, Hosting
  <2> QED
    BY <2>1, <2>3 DEF TrueSaid, Mate
<1> QED
  BY <1>1

\* Queues that are as they were.
LEMMA SameQueues ==
  /\ inbox' = inbox => InboxTrue
  /\ up' = up => UpTrue
  /\ down' = down => DownTrue
<1>1. \A q : Grows(q, q, {})
  BY Growing
<1> QED
  BY <1>1 DEF InboxTrue, UpTrue, DownTrue

\* What is said on a socket.
LEMMA SaysTrue ==
  ASSUME DOMAIN up = Attempt, NEW a \in Attempt, NEW R, NEW ms \in Seq(R),
         \A m \in R : TrueSaid(a, m)', up' = Says(a, ms)
  PROVE  UpTrue /\ DOMAIN up' = Attempt
<1>1. DOMAIN up' = Attempt /\ \A b \in Attempt \ {a} : up'[b] = up[b]
  BY DEF Says
<1>2. up'[a] = up[a] \/ up'[a] = up[a] \o ms
  BY DEF Says
<1>3. Grows(up'[a], up[a], R)
  BY <1>2, Growing
<1>4. \A b \in Attempt \ {a} : Grows(up'[b], up[b], {})
  BY <1>1, Growing
<1> QED
  BY <1>1, <1>3, <1>4 DEF UpTrue

\* What is taken from a socket.
LEMMA HeardTrue ==
  ASSUME DOMAIN down = Attempt, NEW a \in Attempt, down[a] # <<>>, down' = Heard(a)
  PROVE  DownTrue /\ DOMAIN down' = Attempt
<1>1. DOMAIN down' = Attempt /\ \A b \in Attempt \ {a} : down'[b] = down[b]
  BY DEF Heard
<1>2. down'[a] = Tail(down[a])
  BY DEF Heard
<1>3. \A b \in Attempt : Grows(down'[b], down[b], {})
  BY <1>1, <1>2, Growing
<1> QED
  BY <1>1, <1>3 DEF DownTrue

\* Sockets keep their rooms.
SocketsKeep(t) ==
  \A a \in Attempt : t[a].code = sock[a].code /\ (t[a].phase = "idle" <=> sock[a].phase = "idle")

\* What is said when a socket is closed.
LEMMA HangUpTrue ==
  ASSUME Sockets, DOMAIN up = Attempt, DOMAIN down = Attempt, NEW a \in Attempt, NEW R,
         NEW ms \in Seq(R), \A m \in R : TrueSaid(a, m)', HangUp(a, ms)
  PROVE  /\ UpTrue /\ DOMAIN up' = Attempt /\ DownTrue /\ DOMAIN down' = Attempt
         /\ SocketsKeep(sock')
<1>1. UpTrue /\ DOMAIN up' = Attempt
  <2>1. up' = Says(a, ms)
    BY DEF HangUp, Says
  <2> QED
    BY <2>1, SaysTrue
<1>2. DownTrue /\ DOMAIN down' = Attempt
  <2>1. DOMAIN down' = Attempt /\ \A b \in Attempt : down'[b] = down[b] \/ down'[b] = <<>>
    BY DEF HangUp
  <2>2. \A b \in Attempt : Grows(down'[b], down[b], {})
    BY <2>1, Growing
  <2> QED
    BY <2>1, <2>2 DEF DownTrue
<1>3. SocketsKeep(sock')
  <2> DEFINE after == CASE sock[a].phase = "opening" -> "aborted"
                        [] sock[a].phase = "live" -> "left"
                        [] OTHER -> sock[a].phase
  <2>1. sock' = [sock EXCEPT ![a] = [sock[a] EXCEPT !.phase = after]]
    BY DEF HangUp, Sockets
  <2>2. after = "idle" <=> sock[a].phase = "idle"
    OBVIOUS
  <2> HIDE DEF after
  <2>3. sock'[a].phase = after /\ sock'[a].code = sock[a].code
    BY <2>1 DEF Sockets
  <2>4. \A b \in Attempt \ {a} : sock'[b] = sock[b]
    BY <2>1 DEF Sockets
  <2> QED
    BY <2>2, <2>3, <2>4 DEF SocketsKeep
<1> QED
  BY <1>1, <1>2, <1>3

\* What is sent to the opponent.
LEMMA SentTrue ==
  ASSUME Queues, NEW a \in Attempt, NEW R, NEW ms \in Seq(R), Sent(a, ms),
         \A b \in Attempt : b = Mate(a) => FairTo(b, R),
         mode' = mode, link'[a].mate = link[a].mate, mode \in {"friend", "ranked"},
         mode = "ranked" => Mate(a) \in Attempt
  PROVE  InboxTrue /\ UpTrue /\ DOMAIN inbox' = Attempt /\ DOMAIN up' = Attempt
<1>1. CASE mode = "friend"
  <2>1. /\ DOMAIN inbox' = Attempt
        /\ \A b \in Attempt : inbox'[b] = inbox[b] \/ (b = Mate(a) /\ inbox'[b] = inbox[b] \o ms)
    BY <1>1 DEF Sent, Queues
  <2>2. ASSUME NEW b \in Attempt
        PROVE  \E Q : Grows(inbox'[b], inbox[b], Q) /\ \A m \in Q : Fair(b, m)'
    <3>1. CASE inbox'[b] = inbox[b]
      <4>1. Grows(inbox'[b], inbox[b], {})
        BY <3>1, Growing
      <4> QED
        BY <4>1
    <3>2. CASE b = Mate(a) /\ inbox'[b] = inbox[b] \o ms
      <4>1. Grows(inbox'[b], inbox[b], R)
        BY <3>2, Growing
      <4> QED
        BY <3>2, <4>1 DEF FairTo
    <3> QED
      BY <2>1, <3>1, <3>2
  <2> QED
    BY <1>1, <2>1, <2>2, SameQueues DEF InboxTrue, Sent, Queues
<1>2. CASE mode = "ranked"
  <2>1. up' = Says(a, [i \in DOMAIN ms |-> AsPacket(ms[i])]) /\ inbox' = inbox
    BY <1>2 DEF Sent
  <2>2. \A m \in {AsPacket(w) : w \in R} : TrueSaid(a, m)'
    BY <1>2, PacketsTrue DEF Mate
  <2>3. [i \in DOMAIN ms |-> AsPacket(ms[i])] \in Seq({AsPacket(m) : m \in R})
    BY Packets
  <2> QED
    BY <2>1, <2>2, <2>3, SaysTrue, SameQueues DEF Queues
<1> QED
  BY <1>1, <1>2

\* What is answered when a message is taken.
LEMMA ExchangeTrue ==
  ASSUME Queues, NEW a \in Attempt, NEW R, NEW ms \in Seq(R), Arriving(a), Exchange(a, ms),
         \A b \in Attempt : b = Mate(a) => FairTo(b, R),
         mode' = mode, link'[a].mate = link[a].mate, mode \in {"friend", "ranked"},
         mode = "ranked" => Mate(a) \in Attempt \/ R = {}
  PROVE  InboxTrue /\ UpTrue /\ DownTrue /\ Queues'
<1>1. CASE mode = "friend"
  <2>0. inbox[a] # <<>>
    BY <1>1 DEF Arriving
  <2>1. /\ DOMAIN inbox' = Attempt /\ UNCHANGED <<up, down>>
        /\ \A b \in Attempt : \/ inbox'[b] = inbox[b]
                              \/ b = a /\ inbox'[b] = Tail(inbox[b])
                              \/ b = Mate(a) /\ inbox'[b] = inbox[b] \o ms
    BY <1>1 DEF Exchange
  <2>2. ASSUME NEW b \in Attempt
        PROVE  \E Q : Grows(inbox'[b], inbox[b], Q) /\ \A m \in Q : Fair(b, m)'
    <3>1. CASE inbox'[b] = inbox[b] \/ (b = a /\ inbox'[b] = Tail(inbox[b]))
      <4>1. Grows(inbox'[b], inbox[b], {})
        BY <2>0, <3>1, Growing
      <4> QED
        BY <4>1
    <3>2. CASE b = Mate(a) /\ inbox'[b] = inbox[b] \o ms
      <4>1. Grows(inbox'[b], inbox[b], R)
        BY <3>2, Growing
      <4> QED
        BY <3>2, <4>1 DEF FairTo
    <3> QED
      BY <2>1, <3>1, <3>2
  <2> QED
    BY <2>1, <2>2, SameQueues DEF InboxTrue, Queues
<1>2. CASE mode = "ranked"
  <2>1. /\ up' = Says(a, [i \in DOMAIN ms |-> AsPacket(ms[i])]) /\ inbox' = inbox
        /\ down' = Heard(a) /\ down[a] # <<>>
    BY <1>2 DEF Exchange, Arriving, Coming
  <2>2. \A m \in {AsPacket(w) : w \in R} : TrueSaid(a, m)'
    <3>1. CASE R = {}
      BY <3>1
    <3>2. CASE R # {}
      BY <1>2, <3>2, PacketsTrue DEF Mate
    <3> QED
      BY <3>1, <3>2
  <2>3. [i \in DOMAIN ms |-> AsPacket(ms[i])] \in Seq({AsPacket(m) : m \in R})
    BY Packets
  <2>4. UpTrue /\ DOMAIN up' = Attempt
    BY <2>1, <2>2, <2>3, SaysTrue DEF Queues
  <2>5. DownTrue /\ DOMAIN down' = Attempt
    BY <2>1, HeardTrue DEF Queues
  <2> QED
    BY <2>1, <2>4, <2>5, SameQueues DEF Queues
<1> QED
  BY <1>1, <1>2

-----------------------------------------------------------------------------
(***************************************************************************)
(* The steps that only go on, and the ways out.                            *)
(***************************************************************************)
\* Sockets stay in their rooms, and one that opens is for a room it may enter.
SocketsGoOn ==
  /\ \A s \in Attempt : sock'[s].phase # "idle" =>
       \/ sock[s].phase # "idle" /\ sock'[s].code = sock[s].code
       \/ /\ sock'[s].code \in Code
          /\ mode = "ranked" => Mate(s) # None /\ sock'[s].code = RoomOf(s)
  /\ mode = "ranked" => \A s \in Attempt : sock[s].phase # "idle" =>
       sock'[s].phase # "idle" /\ sock'[s].code = sock[s].code

\* Who is in which room stays.
LEMMA InRoomKept ==
  ASSUME InRoom, mode' = mode, mode \in {"friend", "ranked"}, SocketsGoOn,
         mode = "ranked" => \A a \in Attempt : link'[a].mate = link[a].mate,
         \A c \in Code : \E R : /\ Grows(room'[c].sessions, room[c].sessions, R)
                                /\ R \subseteq SocketsIn(c)
  PROVE  InRoom'
<1>1. \A c \in Code : SocketsIn(c) \subseteq SocketsIn(c)'
  BY DEF SocketsIn, SocketsGoOn
<1>2. ASSUME NEW c \in Code
      PROVE  room'[c].sessions \in Seq(SocketsIn(c)')
  <2>1. PICK R : /\ Grows(room'[c].sessions, room[c].sessions, R)
                 /\ R \subseteq SocketsIn(c)
    OBVIOUS
  <2>2. room'[c].sessions \in Seq(SocketsIn(c) \cup R)
    BY <2>1 DEF Grows, InRoom
  <2>3. SocketsIn(c) \cup R \subseteq SocketsIn(c)'
    BY <1>1, <2>1
  <2> QED
    BY <2>2, <2>3, WiderSeq
<1>3. ASSUME NEW s \in Attempt, sock'[s].phase # "idle"
      PROVE  /\ sock'[s].code \in Code
             /\ mode = "ranked" => Mate(s)' # None /\ sock'[s].code = RoomOf(s)'
  BY <1>3 DEF InRoom, SocketsGoOn, Mate, RoomOf, Hosting
<1> QED
  BY <1>2, <1>3 DEF InRoom

\* Rooms that are as they were.
LEMMA SameRooms ==
  ASSUME InRoom, Rooms, mode' = mode, mode \in {"friend", "ranked"}, room' = room,
         SocketsKeep(sock'),
         mode = "ranked" => \A a \in Attempt : link'[a].mate = link[a].mate
  PROVE  Rooms' /\ InRoom'
<1>1. \A c \in Code : Grows(room'[c].sessions, room[c].sessions, {})
  BY Growing
<1>2. Rooms'
  BY DEF Rooms
<1>3. \A c \in Code : \E R : /\ Grows(room'[c].sessions, room[c].sessions, R)
                             /\ R \subseteq SocketsIn(c)
  BY <1>1
<1>4. SocketsGoOn
  BY DEF SocketsGoOn, SocketsKeep
<1> QED
  BY <1>2, <1>3, <1>4, InRoomKept

\* A step that goes on steadily, and says what is true, preserves the invariant.
LEMMA SteadyStep ==
  ASSUME LobbyInv, SameInv, LobbyInv', mode' = mode, Links', Rooms', Queues', InRoom',
         \A p \in Player : Goes(p) \/ Quits(p) \/ Begins(p),
         \A a \in Attempt : LinkSteady(a) /\ DriverSteady(a) /\ WorkSteady(a),
         \A w \in work' \ work : Kind(w),
         InboxTrue, UpTrue, DownTrue
  PROVE  SameInv'
<1>1. Kept
  BY SteadyKept
<1>2. \A w : Kind(w) => Kind(w)'
  BY DEF Kind, Hosting
<1>3. Kinds'
  BY <1>2 DEF Kinds, SameInv
<1>4. \A a \in Attempt : DriverMoves(a)
  BY DEF DriverSteady, DriverMoves
<1>5. Once'
  <2>1. ASSUME NEW a \in Attempt
        PROVE  OnceOf(a)'
    <3>1. PageOnce(a)
      BY PagesOnce DEF SameInv
    <3> QED
      BY <1>4, <3>1, OnceKept DEF SameInv
  <2> QED
    BY <2>1 DEF Once
<1>6. Mates'
  BY MatesKept DEF LinkSteady, SameInv
<1>7. Negotiated'
  <2>1. ASSUME NEW a \in Attempt
        PROVE  NegotiatedOf(a)'
    BY <1>1, NegotiatedKept DEF LinkSteady, Kept
  <2> QED
    BY <2>1 DEF Negotiated
<1>8. Seeds' /\ Recorded' /\ Words'
  BY <1>1, SeedsKept, RecordedKept, WordsStep DEF DriverSteady, SameInv
<1> QED
  BY <1>3, <1>5, <1>6, <1>7, <1>8 DEF SameInv

\* A link is set.
LEMMA LinkSet ==
  ASSUME Links, NEW a \in Attempt, NEW r, DOMAIN r = LinkField, link' = [link EXCEPT ![a] = r]
  PROVE  Links' /\ link'[a] = r /\ \A b \in Attempt \ {a} : link'[b] = link[b]
BY DEF Links

\* A link is in another state.
LEMMA LinkState ==
  ASSUME Links, NEW a \in Attempt, NEW s, link' = [link EXCEPT ![a].state = s]
  PROVE  /\ Links' /\ link'[a].state = s /\ \A b \in Attempt \ {a} : link'[b] = link[b]
         /\ link'[a].mate = link[a].mate /\ link'[a].remote = link[a].remote
<1> DEFINE r == [link[a] EXCEPT !.state = s]
<1>1. link' = [link EXCEPT ![a] = r]
  BY DEF Links
<1>2. /\ DOMAIN r = LinkField /\ r.state = s /\ r.mate = link[a].mate
      /\ r.remote = link[a].remote
  BY DEF Links, LinkField
<1> HIDE DEF r
<1> QED
  BY <1>1, <1>2, LinkSet

\* A link that closes, or opens with its mate known, is steady.
LEMMA LinkSteadies ==
  ASSUME Links, NEW a \in Attempt, NEW s, link' = [link EXCEPT ![a].state = s],
         s = "open" => Mate(a) # None, s # "closed" => Current(a) \/ link[a].state # "closed"
  PROVE  Links' /\ \A b \in Attempt : LinkSteady(b)
BY LinkState DEF LinkSteady

\* A link that closes is steady.
LEMMA LinkShuts ==
  ASSUME Links, NEW a \in Attempt, link' = [link EXCEPT ![a].state = "closed"]
  PROVE  Links' /\ \A b \in Attempt : LinkSteady(b)
<1>1. /\ Links' /\ link'[a].state = "closed" /\ \A b \in Attempt \ {a} : link'[b] = link[b]
      /\ link'[a].mate = link[a].mate /\ link'[a].remote = link[a].remote
  BY LinkState
<1> QED
  BY <1>1 DEF LinkSteady

\* Links that are as they were.
LEMMA SameLinks ==
  ASSUME Links, link' = link
  PROVE  Links' /\ \A b \in Attempt : LinkSteady(b)
BY DEF LinkSteady, Links

\* A driver that is closed is steady.
LEMMA DriverSteadies ==
  ASSUME Drivers, NEW a \in Attempt, driver[a].state # "none",
         driver' = [driver EXCEPT ![a].state = "closed"]
  PROVE  \A b \in Attempt : DriverSteady(b)
<1> DEFINE r == [driver[a] EXCEPT !.state = "closed"]
<1>1. driver' = [driver EXCEPT ![a] = r]
  BY DEF Drivers
<1>2. /\ DOMAIN r = DriverField /\ r.state = "closed" /\ r.seed = driver[a].seed
      /\ r.token = driver[a].token
  BY DEF Drivers, DriverField
<1> HIDE DEF r
<1> QED
  BY <1>1, <1>2, DriverSet DEF DriverSteady

\* The transport of a page is that of its attempt, which has a driver if it is one.
LEMMA PageTransport ==
  ASSUME LobbyInv, SameInv, NEW p \in Player
  PROVE  /\ app[p].net # None =>
              /\ app[p].net \in Attempt /\ app[p].net = app[p].at /\ app[p].net[1] = p
              /\ driver[app[p].net].state # "none"
              /\ mode = "ranked" => Mate(app[p].net) \in Attempt
         /\ app[p].neg # None => app[p].neg \in Attempt /\ app[p].neg = app[p].at
         /\ app[p].sig # None => app[p].sig \in Attempt
<1>1. /\ app[p].at \in Or(OfPlayer(p)) /\ app[p].net \in {app[p].at, None}
      /\ app[p].neg \in {app[p].at, None} /\ app[p].sig \in {app[p].at, None}
  BY DEF LobbyInv, Own
<1>2. app[p].at # None => app[p].at \in Attempt /\ app[p].at[1] = p
  BY <1>1, Attempts DEF Or
<1>3. ASSUME NEW a \in Attempt, app[a[1]].net = a
      PROVE  driver[a].state # "none" /\ (mode = "ranked" => Mate(a) \in Attempt)
  <2>1. OnceOf(a) /\ HostFacts
    BY Hosts DEF SameInv, Once
  <2>2. driver[a].state # "none" /\ (mode = "ranked" => Mate(a) # None)
    BY <1>3, <2>1 DEF OnceOf
  <2> QED
    BY <2>1, <2>2 DEF SameInv, Mates, HostFacts
<1> QED
  BY <1>1, <1>2, <1>3

\* Every way out is steady, and says at most that it is one.
LEMMA DownSteady ==
  ASSUME LobbyInv, SameInv, NEW p \in Player, NEW words \in Seq({Control("quit")}),
         Down(p, words), mode' = mode
  PROVE  /\ Links' /\ Queues' /\ Rooms' /\ InRoom'
         /\ \A a \in Attempt : LinkSteady(a) /\ DriverSteady(a)
         /\ InboxTrue /\ UpTrue /\ DownTrue
         /\ app[p].neg # None => link'[app[p].neg].state = "closed"
<1> DEFINE d == app[p].net
           t == IF d # None THEN d ELSE app[p].neg
           b == IF t # None THEN Mate(t) ELSE None
           R == {Control("quit")}
<1>0. /\ d # None => /\ d \in Attempt /\ d = app[p].at /\ driver[d].state # "none"
                     /\ mode = "ranked" => Mate(d) \in Attempt
      /\ app[p].neg # None => app[p].neg \in Attempt /\ app[p].neg = app[p].at
      /\ app[p].sig # None => app[p].sig \in Attempt
      /\ mode \in {"friend", "ranked"} /\ Drivers /\ Sockets /\ Links /\ Queues /\ Rooms /\ InRoom
  BY PageTransport DEF LobbyInv, Shaped, SameInv
<1>a. t \in Attempt \cup {None} /\ (app[p].neg # None => t = app[p].neg)
  BY <1>0
<1>1. /\ link' = IF t = None THEN link ELSE LinkClosed(t)
      /\ driver' = IF d = None THEN driver ELSE [driver EXCEPT ![d].state = "closed"]
      /\ \E last \in {<<>>, words} :
           inbox' = [a \in Attempt |-> CASE a = t -> <<>>
                                         [] a = b /\ link[b].state # "closed" -> inbox[a] \o last
                                         [] OTHER -> inbox[a]]
  BY DEF Down, CloseTransport
<1>2. Links' /\ \A a \in Attempt : LinkSteady(a)
  <2>1. CASE t = None
    <3>1. link' = link
      BY <1>1, <2>1
    <3> QED
      BY <1>0, <3>1, SameLinks
  <2>2. CASE t # None
    <3>1. link' = [link EXCEPT ![t].state = "closed"]
      BY <1>1, <2>2 DEF LinkClosed
    <3> HIDE DEF t
    <3> QED
      BY <1>0, <1>a, <2>2, <3>1, LinkShuts
  <2> QED
    BY <2>1, <2>2
<1>3. app[p].neg # None => link'[app[p].neg].state = "closed"
  <2>1. ASSUME app[p].neg # None
        PROVE  link'[app[p].neg].state = "closed"
    <3>1. link' = [link EXCEPT ![app[p].neg].state = "closed"] /\ app[p].neg \in Attempt
      BY <1>0, <1>1, <1>a, <2>1 DEF LinkClosed
    <3> QED
      BY <1>0, <3>1, LinkState
  <2> QED
    BY <2>1
<1>4. \A a \in Attempt : DriverSteady(a)
  <2>1. CASE d = None
    <3>1. driver' = driver
      BY <1>1, <2>1
    <3> QED
      BY <3>1 DEF DriverSteady
  <2>2. CASE d # None
    <3>1. driver' = [driver EXCEPT ![d].state = "closed"]
      BY <1>1, <2>2
    <3> HIDE DEF d
    <3> QED
      BY <1>0, <2>2, <3>1, DriverSteadies
  <2> QED
    BY <2>1, <2>2
<1>5. InboxTrue /\ DOMAIN inbox' = Attempt
  <2> DEFINE Boxes(last) ==
               [a \in Attempt |-> CASE a = t -> <<>>
                                    [] a = b /\ link[b].state # "closed" -> inbox[a] \o last
                                    [] OTHER -> inbox[a]]
  <2>0. \E last \in {<<>>, words} : inbox' = Boxes(last)
    BY <1>1
  <2> HIDE DEF t, b
  <2>a. \A last : /\ DOMAIN Boxes(last) = Attempt
                  /\ \A a \in Attempt : Boxes(last)[a] \in {<<>>, inbox[a] \o last, inbox[a]}
    OBVIOUS
  <2> HIDE DEF Boxes
  <2>1. PICK last \in {<<>>, words} : inbox' = Boxes(last)
    BY <2>0
  <2>b. <<>> \in Seq(R) /\ words \in Seq(R)
    OBVIOUS
  <2>2. last \in Seq(R)
    BY <2>1, <2>b
  <2>3. ASSUME NEW a \in Attempt
        PROVE  Grows(inbox'[a], inbox[a], R)
    <3>1. inbox'[a] = <<>> \/ inbox'[a] = inbox[a] \o last \/ inbox'[a] = inbox[a]
      BY <2>1, <2>a
    <3> QED
      BY <2>2, <3>1, Growing
  <2>4. \A a \in Attempt, m \in R : Fair(a, m)'
    BY DEF Fair, Control
  <2> QED
    BY <2>1, <2>a, <2>3, <2>4 DEF InboxTrue
<1>6. /\ UpTrue /\ DownTrue /\ DOMAIN up' = Attempt /\ DOMAIN down' = Attempt
      /\ SocketsKeep(sock')
  <2>1. CASE mode = "friend" /\ app[p].sig # None
    <3>1. HangUp(app[p].sig, <<[t |-> "leave-room"]>>)
      BY <2>1 DEF Down, CloseSocket
    <3> DEFINE ms == <<[t |-> "leave-room"]>>
               Q == {[t |-> "leave-room"]}
    <3>2. PICK a \in Attempt : a = app[p].sig
      BY <1>0, <2>1
    <3>3. \A m \in Q : TrueSaid(a, m)'
      BY DEF TrueSaid
    <3>4. ms \in Seq(Q) /\ HangUp(a, ms)
      BY <3>1, <3>2
    <3> HIDE DEF ms, Q
    <3> QED
      BY <1>0, <3>3, <3>4, HangUpTrue DEF Queues
  <2>2. CASE mode = "ranked" /\ app[p].net # None
    <3> DEFINE ms == [i \in DOMAIN words |-> AsPacket(words[i])]
               Q == {AsPacket(m) : m \in R}
    <3>1. PICK a \in Attempt : a = d
      BY <1>0, <2>2
    <3>2. HangUp(a, ms) /\ ms \in Seq(Q)
      BY <2>2, <3>1, Packets DEF Down, CloseSocket
    <3>3. PICK c \in Attempt : c = Mate(a)
      BY <1>0, <2>2, <3>1
    <3>4. link'[a].mate = c
      BY <1>2, <3>3 DEF LinkSteady, Mate
    <3>5. FairTo(c, R)
      BY DEF FairTo, Fair, Control
    <3>6. \A m \in Q : TrueSaid(a, m)'
      BY <2>2, <3>4, <3>5, PacketsTrue
    <3> HIDE DEF ms, Q
    <3> QED
      BY <1>0, <3>2, <3>6, HangUpTrue DEF Queues
  <2>3. CASE ~(mode = "friend" /\ app[p].sig # None) /\ ~(mode = "ranked" /\ app[p].net # None)
    <3>1. UNCHANGED <<sock, up, down>>
      BY <2>3 DEF Down, CloseSocket
    <3> QED
      BY <1>0, <3>1, SameQueues DEF Queues, SocketsKeep
  <2> QED
    BY <2>1, <2>2, <2>3
<1>7. Rooms' /\ InRoom'
  <2>1. room' = room
    BY DEF Down
  <2> QED
    BY <1>0, <1>2, <1>6, <2>1, SameRooms DEF LinkSteady
<1> QED
  BY <1>2, <1>3, <1>4, <1>5, <1>6, <1>7 DEF Queues

\* What is awaited less is steady.
LEMMA LessWork ==
  ASSUME work' \subseteq work
  PROVE  /\ \A a \in Attempt : WorkSteady(a)
         /\ \A w \in work' \ work : Kind(w)
BY DEF WorkSteady

\* A page as it was goes on.
LEMMA SamePage ==
  ASSUME NEW p \in Player, LobbyInv, SameInv, app'[p] = app[p]
  PROVE  Goes(p)
<1>1. app[p].tries \in Nat
  BY DEF LobbyInv, Own
<1> QED
  BY <1>1 DEF Goes

\* A page that is left with its transport and its socket.
LEMMA OutStep ==
  ASSUME LobbyInv, SameInv, LobbyInv', NEW p \in Player, NEW busy,
         NEW words \in Seq({Control("quit")}), app' = Menu(p, busy), Down(p, words),
         work' \subseteq work, mode' = mode
  PROVE  SameInv'
<1>1. /\ Links' /\ Queues' /\ Rooms' /\ InRoom'
      /\ \A a \in Attempt : LinkSteady(a) /\ DriverSteady(a)
      /\ InboxTrue /\ UpTrue /\ DownTrue
      /\ app[p].neg # None => link'[app[p].neg].state = "closed"
  BY DownSteady
<1>2. Quits(p) /\ \A q \in Player \ {p} : app'[q] = app[q]
  <2> DEFINE page == [Idle EXCEPT !.busy = busy, !.tries = app[p].tries]
  <2>1. app' = [app EXCEPT ![p] = page]
    BY DEF Menu
  <2>2. /\ page.at = None /\ page.net = None /\ page.record = None
        /\ page.tries = app[p].tries
    BY DEF Idle
  <2> HIDE DEF page
  <2>3. app'[p] = page /\ \A q \in Player \ {p} : app'[q] = app[q]
    BY <2>1 DEF LobbyInv, Shaped, Pages
  <2> QED
    BY <1>1, <2>2, <2>3 DEF Quits
<1>3. \A q \in Player : Goes(q) \/ Quits(q) \/ Begins(q)
  BY <1>2, SamePage
<1> QED
  BY <1>1, <1>3, LessWork, SteadyStep

\* Every way out by closeNet().
LEMMA NetCloses ==
  ASSUME LobbyInv, SameInv, LobbyInv', NEW p \in Player, CloseNet(p) \/ CloseNetOnDrop(p),
         work' \subseteq work, mode' = mode
  PROVE  SameInv'
<1>1. Quit \in Seq({Control("quit")}) /\ <<>> \in Seq({Control("quit")})
  BY DEF Quit
<1>2. \/ app' = Menu(p, app[p].busy) /\ Down(p, Quit)
      \/ app' = Menu(p, app[p].busy) /\ Down(p, <<>>)
  BY DEF CloseNet, CloseNetOnDrop
<1> QED
  BY <1>1, <1>2, OutStep

-----------------------------------------------------------------------------
(***************************************************************************)
(* What is only said.                                                      *)
(***************************************************************************)
\* A step of the queues, and perhaps the rooms, preserves the invariant.
LEMMA QuietSame ==
  ASSUME LobbyInv, SameInv, LobbyInv', UNCHANGED <<app, work, link, driver, mode>>,
         Rooms', Queues', InRoom', InboxTrue, UpTrue, DownTrue
  PROVE  SameInv'
<1>1. Links' /\ \A a \in Attempt : LinkSteady(a)
  BY SameLinks DEF SameInv
<1>2. \A a \in Attempt : DriverSteady(a)
  BY DEF DriverSteady
<1>3. \A p \in Player : Goes(p)
  BY SamePage
<1> QED
  BY <1>1, <1>2, <1>3, LessWork, SteadyStep

\* A step that leaves the rooms alone.
LEMMA TalkSame ==
  ASSUME LobbyInv, SameInv, LobbyInv', UNCHANGED <<app, work, link, driver, mode, room, sock>>,
         Queues', InboxTrue, UpTrue, DownTrue
  PROVE  SameInv'
<1>1. SocketsKeep(sock') /\ mode \in {"friend", "ranked"}
  BY DEF SocketsKeep, LobbyInv, Shaped
<1>2. Rooms' /\ InRoom'
  BY <1>1, SameRooms DEF SameInv
<1> QED
  BY <1>2, QuietSame

\* A player with a driver has a mate.
LEMMA HasMate ==
  ASSUME SameInv, NEW a \in Attempt, driver[a].state # "none", mode = "ranked"
  PROVE  Mate(a) \in Attempt
<1>1. HostFacts /\ OnceOf(a)
  BY Hosts DEF SameInv, Once
<1> QED
  BY <1>1 DEF OnceOf, SameInv, Mates, HostFacts

\* The welcome of a session is true.
LEMMA WelcomeFair ==
  ASSUME NEW a \in HostAttempt, NEW b \in Attempt, link'[a].mate = b,
         driver'[a].seed = <<a, b>>, NEW seed, seed = <<a, b>>,
         driver'[a].token = driver[a].token
  PROVE  FairTo(b, {Welcome(a, seed)})
<1>1. /\ Welcome(a, seed).t = "welcome" /\ Welcome(a, seed).seed = seed
      /\ Welcome(a, seed).token = driver[a].token
  BY DEF Welcome, Control
<1>2. ASSUME NEW m, m.t = "welcome", m.seed = seed, m.token = driver[a].token
      PROVE  Fair(b, m)'
  BY <1>2 DEF Fair, Dealt, Mate
<1> QED
  BY <1>1, <1>2 DEF FairTo

\* The record that a player announces is that of the match.
LEMMA RecordFair ==
  ASSUME SameInv, NEW a \in Attempt, NEW b \in Attempt, b = Mate(a), NEW id,
         id \in HostAttempt, id = RoomOf(a),
         link'[a].mate = link[a].mate, link'[b].mate = link[b].mate
  PROVE  FairTo(b, {CityMatch(a, id)})
<1>0. CityMatch(a, id).t = "city-match" /\ CityMatch(a, id).record = id /\ HostFacts
  BY Hosts DEF CityMatch, Control
<1>1. ASSUME NEW m, m.t = "city-match", m.record = id
      PROVE  Fair(b, m)'
  <2>1. CASE a \in HostAttempt
    <3>1. id = a /\ b \in Guests /\ Mate(b) = a
      BY <1>0, <2>1 DEF RoomOf, Hosting, HostFacts, SameInv, Mates
    <3> QED
      BY <1>0, <1>1, <2>1, <3>1 DEF Fair, RoomOf, Hosting, HostFacts, Mate
  <2>2. CASE a \notin HostAttempt
    <3>1. id = b /\ b \in HostAttempt
      BY <1>0, <2>2 DEF RoomOf, Hosting, HostFacts
    <3> QED
      BY <1>0, <1>1, <3>1 DEF Fair, RoomOf, Hosting, HostFacts, Mate
  <2> QED
    BY <2>1, <2>2
<1> QED
  BY <1>0, <1>1 DEF FairTo

\* A signal says what its sender may say.
LEMMA SignalledTrue ==
  ASSUME Queues, NEW a \in Attempt, NEW to, NEW body, up' = Signalled(a, to, body),
         body = "offer" => a \in HostAttempt,
         body = "answer" => a \in Guests /\ to \in HostAttempt /\ link'[a].mate = to
  PROVE  UpTrue /\ DOMAIN up' = Attempt
<1> DEFINE m == [t |-> "signal", to |-> to, body |-> body]
<1>1. m.t = "signal" /\ m.to = to /\ m.body = body
  OBVIOUS
<1>2. up' = Says(a, <<m>>)
  BY DEF Signalled
<1> HIDE DEF m
<1>3. ASSUME NEW w, w = m
      PROVE  TrueSaid(a, w)'
  BY <1>1, <1>3 DEF TrueSaid, Mate
<1>4. \A w \in {m} : TrueSaid(a, w)'
  BY <1>3
<1>5. <<m>> \in Seq({m})
  OBVIOUS
<1> QED
  BY <1>2, <1>4, <1>5, SaysTrue DEF Queues

\* HelloAgain.
LEMMA HelloAgainSame ==
  ASSUME LobbyInv, SameInv, LobbyInv', NEW a \in Attempt, HelloAgain(a)
  PROVE  SameInv'
<1>0. /\ a \in HostAttempt /\ OnceOf(a) /\ driver[a].state = "playing" /\ Arriving(a)
      /\ Exchange(a, <<Welcome(a, driver[a].seed)>>)
      /\ UNCHANGED <<app, work, link, driver, mode, room, sock>>
      /\ mode \in {"friend", "ranked"} /\ Queues
  BY Hosts DEF HelloAgain, Hears, Hosting, HostFacts, SameInv, Once, LobbyInv, Shaped
<1>1. driver[a].seed = <<a, Mate(a)>>
  BY <1>0 DEF OnceOf, SameInv, Seeds
<1> DEFINE w == Welcome(a, driver[a].seed)
<1>2. \A b \in Attempt : b = Mate(a) => FairTo(b, {w})
  <2>1. ASSUME NEW b \in Attempt, b = Mate(a)
        PROVE  FairTo(b, {w})
    <3>1. driver[a].seed = <<a, b>> /\ driver'[a].seed = <<a, b>> /\ link'[a].mate = b
          /\ driver'[a].token = driver[a].token
      BY <1>0, <1>1, <2>1 DEF Mate
    <3> QED
      BY <1>0, <3>1, WelcomeFair
  <2> QED
    BY <2>1
<1>3. <<w>> \in Seq({w}) /\ Exchange(a, <<w>>)
  BY <1>0
<1> HIDE DEF w
<1>4. mode = "ranked" => Mate(a) \in Attempt
  BY <1>0, HasMate
<1>5. InboxTrue /\ UpTrue /\ DownTrue /\ Queues'
  BY <1>0, <1>2, <1>3, <1>4, ExchangeTrue
<1> QED
  BY <1>0, <1>5, TalkSame

\* Unheard.
LEMMA UnheardSame ==
  ASSUME LobbyInv, SameInv, LobbyInv', NEW a \in Attempt, Unheard(a)
  PROVE  SameInv'
<1>0. /\ Arriving(a) /\ Exchange(a, <<>>)
      /\ UNCHANGED <<app, work, link, driver, mode, room, sock>>
      /\ mode \in {"friend", "ranked"} /\ Queues
  BY DEF Unheard, SameInv, LobbyInv, Shaped
<1>1. \A b \in Attempt : FairTo(b, {})
  BY DEF FairTo
<1>2. <<>> \in Seq({})
  OBVIOUS
<1>3. InboxTrue /\ UpTrue /\ DownTrue /\ Queues'
  BY <1>0, <1>1, <1>2, ExchangeTrue
<1> QED
  BY <1>0, <1>3, TalkSame

\* HelloRetried.
LEMMA HelloRetriedSame ==
  ASSUME LobbyInv, SameInv, LobbyInv', NEW a \in Attempt, HelloRetried(a)
  PROVE  SameInv'
<1> DEFINE w == Hello(a)
<1>0. /\ Sent(a, <<w>>) /\ driver[a].state = "handshake"
      /\ UNCHANGED <<app, work, link, driver, mode, room, sock, down>>
      /\ mode \in {"friend", "ranked"} /\ Queues
  BY DEF HelloRetried, SameInv, LobbyInv, Shaped
<1>1. <<w>> \in Seq({w}) /\ \A b \in Attempt : FairTo(b, {w})
  BY PlainWords
<1> HIDE DEF w
<1>2. mode = "ranked" => Mate(a) \in Attempt
  BY <1>0, HasMate
<1>3. InboxTrue /\ UpTrue /\ DOMAIN inbox' = Attempt /\ DOMAIN up' = Attempt
  BY <1>0, <1>1, <1>2, SentTrue
<1>4. DownTrue /\ Queues'
  BY <1>0, <1>3, SameQueues DEF Queues
<1> QED
  BY <1>0, <1>3, <1>4, TalkSame

\* Candidates, and what a client drops.
LEMMA IceSame ==
  ASSUME LobbyInv, SameInv, LobbyInv', NEW a \in Attempt,
         IceComes(a) \/ Ignored(a) \/ IceGathered(a)
  PROVE  SameInv'
<1>0. Queues
  BY DEF SameInv
<1>1. CASE IceComes(a) \/ Ignored(a)
  <2>1. /\ down' = Heard(a) /\ down[a] # <<>>
        /\ UNCHANGED <<app, work, link, driver, mode, room, sock, up, inbox>>
    BY <1>1 DEF IceComes, Ignored, WantsIce, Signal, Coming
  <2>2. DownTrue /\ InboxTrue /\ UpTrue /\ Queues'
    BY <1>0, <2>1, HeardTrue, SameQueues DEF Queues
  <2> QED
    BY <2>1, <2>2, TalkSame
<1>2. CASE IceGathered(a)
  <2>1. /\ up' = up \/ up' = Signalled(a, app[a[1]].peer, "ice")
        /\ UNCHANGED <<app, work, link, driver, mode, room, sock, down, inbox>>
    BY <1>2 DEF IceGathered
  <2>2. UpTrue /\ DOMAIN up' = Attempt
    BY <1>0, <2>1, SignalledTrue, SameQueues DEF Queues
  <2>3. DownTrue /\ InboxTrue /\ Queues'
    BY <1>0, <2>1, <2>2, SameQueues DEF Queues
  <2> QED
    BY <2>1, <2>2, <2>3, TalkSame
<1> QED
  BY <1>1, <1>2

-----------------------------------------------------------------------------
(***************************************************************************)
(* The rooms.                                                              *)
(***************************************************************************)
\* What the object tells the sockets ss.
LEMMA ToldTrue ==
  ASSUME NEW ss, NEW m, down' = Told(ss, m),
         \A s \in Attempt : s \in ss => \A w \in {m} : TrueHeard(s, w)'
  PROVE  DownTrue /\ DOMAIN down' = Attempt
<1>1. DOMAIN down' = Attempt
  BY Attempts DEF Told
<1>2. ASSUME NEW s \in Attempt
      PROVE  \E R : Grows(down'[s], down[s], R) /\ \A w \in R : TrueHeard(s, w)'
  <2>1. down'[s] = down[s] \/ (s \in ss /\ down'[s] = Append(down[s], m))
    BY Attempts DEF Told
  <2>2. CASE down'[s] = down[s]
    <3>1. Grows(down'[s], down[s], {})
      BY <2>2, Growing
    <3> QED
      BY <3>1
  <2>3. CASE s \in ss /\ down'[s] = Append(down[s], m)
    <3>1. Grows(down'[s], down[s], {m})
      BY <2>3, Growing
    <3>2. \A w \in {m} : TrueHeard(s, w)'
      BY <2>3
    <3> QED
      BY <3>1, <3>2
  <2> QED
    BY <2>1, <2>2, <2>3
<1> QED
  BY <1>1, <1>2 DEF DownTrue

\* A message that is neither a signal nor a packet is true.
PlainTo(m) == m.t \notin {"signaled", "packet"}
\* What the room itself has to say is plain, and true.
LEMMA PlainTold ==
  /\ \A p : PlainTo([t |-> "peer-left", peer |-> p]) /\ PlainTo([t |-> "peer-joined", peer |-> p])
  /\ \A ps : PlainTo([t |-> "room-joined", peers |-> ps])
  /\ PlainTo([t |-> "error"])
  /\ \A m : PlainTo(m) => \A s \in Attempt : \A w \in {m} : TrueHeard(s, w)'
<1>1. ASSUME NEW m, PlainTo(m), NEW s \in Attempt, NEW w \in {m}
      PROVE  TrueHeard(s, w)'
  <2>1. w.t \notin {"signaled", "packet"}
    BY <1>1 DEF PlainTo
  <2> QED
    BY <2>1 DEF TrueHeard
<1> QED
  BY <1>1 DEF PlainTo

\* The rooms keep their sessions, but for some that go and the socket that comes.
RoomsGoOn ==
  /\ Rooms'
  /\ \A c \in Code : \E R : /\ Grows(room'[c].sessions, room[c].sessions, R)
                            /\ R \subseteq SocketsIn(c)

\* A room that is set, with sessions that are its own.
LEMMA RoomSet ==
  ASSUME Rooms, NEW c \in Code, NEW r, DOMAIN r = RoomField, NEW R, R \subseteq SocketsIn(c),
         Grows(r.sessions, room[c].sessions, R), room' = [room EXCEPT ![c] = r]
  PROVE  RoomsGoOn
<1>1. Rooms' /\ room'[c] = r /\ \A d \in Code \ {c} : room'[d] = room[d]
  BY DEF Rooms
<1>2. \A d \in Code : Grows(room[d].sessions, room[d].sessions, {})
  BY Growing
<1>3. ASSUME NEW d \in Code
      PROVE  \E Q : Grows(room'[d].sessions, room[d].sessions, Q) /\ Q \subseteq SocketsIn(d)
  <2>1. CASE d = c
    BY <1>1, <2>1
  <2>2. CASE d # c
    BY <1>1, <1>2, <2>2
  <2> QED
    BY <2>1, <2>2
<1> QED
  BY <1>1, <1>3 DEF RoomsGoOn

\* Rooms that are as they were.
LEMMA RoomSame ==
  ASSUME Rooms, room' = room
  PROVE  RoomsGoOn
<1>1. \A c \in Code : Grows(room'[c].sessions, room[c].sessions, {})
  BY Growing
<1> QED
  BY <1>1 DEF RoomsGoOn, Rooms

\* A room that goes.
LEMMA RoomDestroyed ==
  ASSUME Rooms, NEW c \in Code, room' = Destroyed(c)
  PROVE  RoomsGoOn
<1> DEFINE r == [NoRoom EXCEPT !.status = "gone"]
<1>1. DOMAIN r = RoomField /\ r.sessions = <<>> /\ room' = [room EXCEPT ![c] = r]
  BY DEF NoRoom, RoomField, Destroyed
<1> HIDE DEF r
<1>2. PICK R : Grows(r.sessions, room[c].sessions, R) /\ R \subseteq SocketsIn(c)
  <2>1. Grows(r.sessions, room[c].sessions, {}) /\ {} \subseteq SocketsIn(c)
    BY <1>1, Growing
  <2> QED
    BY <2>1
<1> QED
  BY <1>1, <1>2, RoomSet

\* A peer leaves, and some of the sessions stay.
LEMMA PeerWithout ==
  ASSUME Rooms, InRoom, NEW c \in Code, NEW p, NEW ss, Grows(ss, room[c].sessions, {}),
         room' = WithoutPeer(c, p, ss)
  PROVE  RoomsGoOn
<1>1. CASE Empties(c, p, ss)
  BY <1>1, RoomDestroyed DEF WithoutPeer
<1>2. CASE ~Empties(c, p, ss)
  <2> DEFINE ms == IF StillHere(p, ss) THEN room[c].members ELSE Rest(c, p)
             r == [room[c] EXCEPT !.members = ms, !.sessions = ss]
  <2>1. room' = [room EXCEPT ![c].members = ms, ![c].sessions = ss]
    BY <1>2 DEF WithoutPeer
  <2> HIDE DEF ms
  <2>2. room' = [room EXCEPT ![c] = r]
    BY <2>1 DEF Rooms, RoomField
  <2>3. DOMAIN r = RoomField /\ r.sessions = ss
    BY DEF Rooms, RoomField
  <2> HIDE DEF r
  <2>4. PICK R : Grows(r.sessions, room[c].sessions, R) /\ R \subseteq SocketsIn(c)
    <3>1. Grows(r.sessions, room[c].sessions, {}) /\ {} \subseteq SocketsIn(c)
      BY <2>3
    <3> QED
      BY <3>1
  <2> QED
    BY <2>2, <2>3, <2>4, RoomSet
<1> QED
  BY <1>1, <1>2

\* The others are told, if anybody.
LEMMA LeavingTold ==
  ASSUME Queues, NEW c, NEW p, NEW ss, down' = ToldOfLeaving(c, p, ss)
  PROVE  DownTrue /\ DOMAIN down' = Attempt
<1>1. \/ down' = down
      \/ down' = Told({s \in ToSet(ss) : Holder[s] # p}, [t |-> "peer-left", peer |-> p])
  BY DEF ToldOfLeaving
<1> DEFINE m == [t |-> "peer-left", peer |-> p]
<1>2. \A s \in Attempt : \A w \in {m} : TrueHeard(s, w)'
  BY PlainTold
<1> HIDE DEF m
<1>3. down' = down \/ down' = Told({s \in ToSet(ss) : Holder[s] # p}, m)
  BY <1>1 DEF m
<1> QED
  BY <1>2, <1>3, ToldTrue, SameQueues DEF Queues

\* What the object may do to its rooms and to what it says.
LEMMA RoomsSame ==
  ASSUME LobbyInv, SameInv, LobbyInv', UNCHANGED <<app, work, link, driver, mode, inbox>>,
         GoneOn(sock'), RoomsGoOn, UpTrue, DownTrue, DOMAIN up' = Attempt,
         DOMAIN down' = Attempt
  PROVE  SameInv'
<1>1. SocketsGoOn /\ mode \in {"friend", "ranked"}
  BY DEF SocketsGoOn, GoneOn, LobbyInv, Shaped
<1>2. Rooms' /\ InRoom'
  BY <1>1, InRoomKept DEF SameInv, RoomsGoOn
<1>3. Queues' /\ InboxTrue
  BY SameQueues DEF SameInv, Queues
<1> QED
  BY <1>2, <1>3, QuietSame

\* One queue of a socket gets a message that is neither signal nor packet, or is emptied.
LEMMA FirstWords ==
  ASSUME NEW s \in Attempt, NEW q, DOMAIN q = Attempt, NEW m, PlainTo(m),
         \A a \in Attempt : \E R : Grows(q[a], down[a], R) /\ \A w \in R : TrueHeard(a, w)',
         down' = [q EXCEPT ![s] = <<>>] \/ down' = [q EXCEPT ![s] = <<m>>]
  PROVE  DownTrue /\ DOMAIN down' = Attempt
<1>1. /\ DOMAIN down' = Attempt /\ \A a \in Attempt \ {s} : down'[a] = q[a]
      /\ down'[s] = <<>> \/ down'[s] = <<m>>
  OBVIOUS
<1>2. ASSUME NEW S
      PROVE  <<>> \in Seq(S \cup {m}) /\ <<m>> \in Seq(S \cup {m})
  OBVIOUS
<1>3. Grows(down'[s], down[s], {m})
  BY <1>1, <1>2 DEF Grows
<1>4. \A w \in {m} : TrueHeard(s, w)'
  BY PlainTold
<1>5. ASSUME NEW a \in Attempt
      PROVE  \E R : Grows(down'[a], down[a], R) /\ \A w \in R : TrueHeard(a, w)'
  <2>1. CASE a = s
    BY <1>3, <1>4, <2>1
  <2>2. CASE a # s
    BY <1>1, <2>2
  <2> QED
    BY <2>1, <2>2
<1> QED
  BY <1>1, <1>5 DEF DownTrue

\* A socket that is not idle is for a room, and its messages are its own.
LEMMA InItsRoom ==
  ASSUME SameInv, NEW s \in Attempt, sock[s].phase # "idle"
  PROVE  /\ sock[s].code \in Code /\ s \in SocketsIn(sock[s].code)
         /\ Holder[s] = s
BY LobbyAssumption DEF SameInv, InRoom, SocketsIn, Self

\* Refuse.
LEMMA RefuseSame ==
  ASSUME LobbyInv, SameInv, LobbyInv', NEW s \in Attempt, Refuse(s),
         UNCHANGED <<app, work, link, driver, mode, inbox>>
  PROVE  SameInv'
<1> DEFINE c == sock[s].code
<1>0. c \in Code /\ Rooms /\ Queues
  BY InItsRoom DEF Refuse, SameInv
<1>1. /\ room' = room \/ room' = Destroyed(c)
      /\ down' = [down EXCEPT ![s] = <<>>] \/ down' = [down EXCEPT ![s] = <<[t |-> "error"]>>]
      /\ up' = up
  BY DEF Refuse
<1>2. RoomsGoOn
  BY <1>0, <1>1, RoomSame, RoomDestroyed
<1>3. GoneOn(sock')
  BY RoomStepGoesOn DEF RoomStep, LobbyInv, Shaped
<1>4. DownTrue /\ DOMAIN down' = Attempt
  <2> DEFINE m == [t |-> "error"]
  <2>1. PlainTo(m) /\ \A a \in Attempt : Grows(down[a], down[a], {})
    BY PlainTold, Growing
  <2>2. down' = [down EXCEPT ![s] = <<>>] \/ down' = [down EXCEPT ![s] = <<m>>]
    BY <1>1
  <2> HIDE DEF m
  <2>3. \A a \in Attempt : \E R : Grows(down[a], down[a], R) /\ \A w \in R : TrueHeard(a, w)'
    BY <2>1
  <2> QED
    BY <1>0, <2>1, <2>2, <2>3, FirstWords DEF Queues
<1>5. UpTrue /\ DOMAIN up' = Attempt
  BY <1>0, <1>1, SameQueues DEF Queues
<1> QED
  BY <1>2, <1>3, <1>4, <1>5, RoomsSame

\* Admit.
LEMMA AdmitSame ==
  ASSUME LobbyInv, SameInv, LobbyInv', NEW s \in Attempt, Admit(s),
         UNCHANGED <<app, work, link, driver, mode, inbox>>
  PROVE  SameInv'
<1> DEFINE c == sock[s].code
           p == Holder[s]
           joined == [t |-> "room-joined", peers |-> Members(c) \ {p}]
           came == [t |-> "peer-joined", peer |-> p]
           news == Told(Others(c, p), came)
           ms == IF p \in Members(c) THEN room[c].members ELSE Append(room[c].members, p)
           ss == Append(room[c].sessions, s)
           r == [room[c] EXCEPT !.members = ms, !.sessions = ss]
<1>0. c \in Code /\ Rooms /\ Queues /\ s \in SocketsIn(c)
  BY InItsRoom DEF Admit, SameInv
<1>1. /\ room' = [room EXCEPT ![c].members = ms, ![c].sessions = ss]
      /\ down' = [news EXCEPT ![s] = <<>>] \/ down' = [news EXCEPT ![s] = <<joined>>]
      /\ up' = up
  BY DEF Admit
<1>2. RoomsGoOn
  <2> HIDE DEF ms, c
  <2>1. Grows(ss, room[c].sessions, {s})
    BY Growing
  <2> HIDE DEF ss
  <2>2. room' = [room EXCEPT ![c] = r]
    BY <1>0, <1>1 DEF Rooms, RoomField
  <2>3. DOMAIN r = RoomField /\ r.sessions = ss
    BY <1>0 DEF Rooms, RoomField
  <2> HIDE DEF r
  <2>4. PICK R : Grows(r.sessions, room[c].sessions, R) /\ R \subseteq SocketsIn(c)
    <3>1. Grows(r.sessions, room[c].sessions, {s}) /\ {s} \subseteq SocketsIn(c)
      BY <1>0, <2>1, <2>3
    <3> QED
      BY <3>1
  <2> QED
    BY <1>0, <2>2, <2>3, <2>4, RoomSet
<1>3. GoneOn(sock')
  BY RoomStepGoesOn DEF RoomStep, LobbyInv, Shaped
<1>4. DownTrue /\ DOMAIN down' = Attempt
  <2>1. DOMAIN news = Attempt
    BY Attempts DEF Told
  <2>2. PlainTo(joined) /\ PlainTo(came)
    BY PlainTold
  <2>3. ASSUME NEW a \in Attempt
        PROVE  \E R : Grows(news[a], down[a], R) /\ \A w \in R : TrueHeard(a, w)'
    <3>1. news[a] = down[a] \/ news[a] = Append(down[a], came)
      BY Attempts DEF Told
    <3> HIDE DEF news
    <3>2. Grows(news[a], down[a], {came})
      BY <3>1, Growing
    <3>3. \A w \in {came} : TrueHeard(a, w)'
      BY <2>2, PlainTold
    <3> QED
      BY <3>2, <3>3
  <2> HIDE DEF news, joined
  <2> QED
    BY <1>1, <2>1, <2>2, <2>3, FirstWords
<1>5. UpTrue /\ DOMAIN up' = Attempt
  BY <1>0, <1>1, SameQueues DEF Queues
<1> QED
  BY <1>2, <1>3, <1>4, <1>5, RoomsSame

\* Close.
LEMMA CloseSame ==
  ASSUME LobbyInv, SameInv, LobbyInv', NEW s \in Attempt, Close(s),
         UNCHANGED <<app, work, link, driver, mode, inbox>>
  PROVE  SameInv'
<1> DEFINE c == sock[s].code
           ss == RemoveFirst(room[c].sessions, s)
<1>0. c \in Code /\ Rooms /\ Queues /\ InRoom
  BY InItsRoom DEF Close, SameInv
<1>1. /\ room' = room \/ room' = WithoutPeer(c, Holder[s], ss)
      /\ down' = down \/ down' = ToldOfLeaving(c, Holder[s], ss)
      /\ up' = up
  BY DEF Close
<1>2. Grows(ss, room[c].sessions, {})
  <2>1. ASSUME NEW S, room[c].sessions \in Seq(S)
        PROVE  ss \in Seq(S \cup {})
    BY <2>1, RemoveFirstSeq
  <2> QED
    BY <2>1 DEF Grows
<1> HIDE DEF ss, c
<1>3. RoomsGoOn
  BY <1>0, <1>1, <1>2, RoomSame, PeerWithout
<1>4. GoneOn(sock')
  BY RoomStepGoesOn DEF RoomStep, LobbyInv, Shaped
<1>5. DownTrue /\ DOMAIN down' = Attempt
  BY <1>0, <1>1, LeavingTold, SameQueues DEF Queues
<1>6. UpTrue /\ DOMAIN up' = Attempt
  BY <1>0, <1>1, SameQueues DEF Queues
<1> QED
  BY <1>3, <1>4, <1>5, <1>6, RoomsSame

\* In a reserved room the other socket is that of the opponent.
LEMMA OtherIsMate ==
  ASSUME SameInv, mode = "ranked", NEW s \in Attempt, sock[s].phase # "idle",
         NEW o \in Others(sock[s].code, Holder[s])
  PROVE  o \in Attempt /\ o = Mate(s)
<1> DEFINE c == sock[s].code
<1>1. /\ c \in Code /\ Holder[s] = s /\ room[c].sessions \in Seq(SocketsIn(c)) /\ HostFacts
  BY InItsRoom, Hosts DEF SameInv, InRoom
<1>2. o \in SocketsIn(c) /\ o # s
  BY <1>1, LobbyAssumption DEF Others, Sessions, ToSet, Self, SocketsIn
<1>3. /\ o \in Attempt /\ sock[o].phase # "idle" /\ sock[o].code = c
  BY <1>2 DEF SocketsIn
<1>4. /\ Mate(s) # None /\ Mate(o) # None /\ RoomOf(s) = RoomOf(o)
  BY <1>3 DEF SameInv, InRoom
<1>5. CASE s \in HostAttempt
  BY <1>1, <1>2, <1>3, <1>4, <1>5 DEF RoomOf, Hosting, HostFacts, SameInv, Mates
<1>6. CASE s \notin HostAttempt
  BY <1>1, <1>2, <1>3, <1>4, <1>6 DEF RoomOf, Hosting, HostFacts, SameInv, Mates
<1> QED
  BY <1>3, <1>5, <1>6

\* A signal is relayed to whom it is for, and a packet to the opponent.
LEMMA PassesOn ==
  ASSUME LobbyInv, SameInv, NEW s \in Attempt, sock[s].phase # "idle", NEW m,
         TrueSaid(s, m), UNCHANGED <<link, driver, mode>>,
         \/ m.t = "signal" /\ Relay(sock[s].code, s, m)
         \/ m.t \in {"packet", "flood"} /\ Packet(sock[s].code, s, m)
  PROVE  DownTrue /\ DOMAIN down' = Attempt
<1> DEFINE c == sock[s].code
<1>0. /\ c \in Code /\ Holder[s] = s /\ Queues /\ room[c].sessions \in Seq(SocketsIn(c))
  BY InItsRoom DEF SameInv, InRoom
<1>1. CASE m.t = "signal" /\ Relay(c, s, m)
  <2> DEFINE w == [t |-> "signaled", from |-> s, body |-> m.body]
  <2>1. \/ /\ \E o \in Sessions(c) : Holder[o] = m.to
           /\ down' = Told({SocketFor(c, m.to)}, w)
        \/ down' = Told({s}, [t |-> "error"])
    BY <1>0, <1>1 DEF Relay
  <2>2. CASE /\ \E o \in Sessions(c) : Holder[o] = m.to
             /\ down' = Told({SocketFor(c, m.to)}, w)
    <3>1. room[c].sessions \in Seq(Socket)
      BY <1>0, WiderSeq, Attempts DEF SocketsIn
    <3>2. SocketFor(c, m.to) \in Socket /\ Holder[SocketFor(c, m.to)] = m.to
      BY <1>0, <2>2, <3>1, SocketForPeer
    <3>3. SocketFor(c, m.to) = m.to
      BY <3>2, LobbyAssumption DEF Self
    <3>4. ASSUME NEW b \in Attempt, b = m.to, NEW v \in {w}
          PROVE  TrueHeard(b, v)'
      <4>1. v.t = "signaled" /\ v.from = s /\ v.body = m.body
        BY <3>4
      <4>2. /\ m.body = "answer" => s \in Guests /\ Mate(s) = b
            /\ m.body = "offer" => s \in HostAttempt
        BY <1>1, <3>4 DEF TrueSaid
      <4> QED
        BY <4>1, <4>2 DEF TrueHeard, Mate
    <3>5. \A b \in Attempt : b \in {SocketFor(c, m.to)} => \A v \in {w} : TrueHeard(b, v)'
      BY <3>3, <3>4
    <3> HIDE DEF w
    <3> QED
      BY <2>2, <3>5, ToldTrue
  <2>3. CASE down' = Told({s}, [t |-> "error"])
    <3> DEFINE e == [t |-> "error"]
    <3>1. \A b \in Attempt : b \in {s} => \A v \in {e} : TrueHeard(b, v)'
      BY PlainTold
    <3>2. down' = Told({s}, e)
      BY <2>3
    <3> HIDE DEF e
    <3> QED
      BY <3>1, <3>2, ToldTrue
  <2> QED
    BY <2>1, <2>2, <2>3
<1>2. CASE m.t \in {"packet", "flood"} /\ Packet(c, s, m)
  <2> DEFINE w == [t |-> "packet", body |-> m.body]
  <2>1. down' = down \/ (m.t = "packet" /\ down' = Told(Others(c, Holder[s]), w))
    BY <1>2 DEF Packet
  <2>2. CASE m.t = "packet" /\ down' = Told(Others(c, Holder[s]), w)
    <3>1. mode = "ranked" /\ Mate(s) \in Attempt /\ Fair(Mate(s), m.body)
      BY <2>2 DEF TrueSaid
    <3>2. ASSUME NEW b \in Attempt, b \in Others(c, Holder[s]), NEW v \in {w}
          PROVE  TrueHeard(b, v)'
      <4>1. v.t = "packet" /\ v.body = m.body
        BY <3>2
      <4>2. b = Mate(s)
        BY <3>1, <3>2, OtherIsMate
      <4>3. Fair(b, v.body)
        BY <3>1, <4>1, <4>2
      <4>4. Kept
        BY DEF Kept
      <4>5. Fair(b, v.body)'
        BY <4>3, <4>4, FairKept
      <4> QED
        BY <4>1, <4>5 DEF TrueHeard
    <3> HIDE DEF w
    <3> QED
      BY <2>2, <3>2, ToldTrue
  <2> QED
    BY <1>0, <2>1, <2>2, SameQueues DEF Queues
<1> QED
  BY <1>1, <1>2

\* Serve.
LEMMA ServeSame ==
  ASSUME LobbyInv, SameInv, LobbyInv', NEW s \in Attempt, Serve(s),
         UNCHANGED <<app, work, link, driver, mode, inbox>>
  PROVE  SameInv'
<1> DEFINE c == sock[s].code
           ss == room[c].sessions
           p == Holder[s]
<1>0. /\ sock[s].phase # "idle" /\ up[s] # <<>> /\ up' = [up EXCEPT ![s] = Tail(@)]
      /\ c \in Code /\ Rooms /\ Queues /\ InRoom /\ Words
  BY InItsRoom DEF Serve, SameInv
<1>1. GoneOn(sock')
  BY RoomStepGoesOn DEF RoomStep, LobbyInv, Shaped
<1>2. UpTrue /\ DOMAIN up' = Attempt
  <2>1. DOMAIN up' = Attempt /\ \A a \in Attempt : up'[a] = up[a] \/ (a = s /\ up'[a] = Tail(up[a]))
    BY <1>0 DEF Queues
  <2>2. \A a \in Attempt : Grows(up'[a], up[a], {})
    BY <1>0, <2>1, Growing
  <2> QED
    BY <2>1, <2>2 DEF UpTrue
<1>3. CASE ServeClosed(s, c)
  <2>1. (room' = room \/ room' = Destroyed(c)) /\ down' = down
    BY <1>3 DEF ServeClosed
  <2>2. RoomsGoOn /\ DownTrue /\ DOMAIN down' = Attempt
    BY <1>0, <2>1, RoomSame, RoomDestroyed, SameQueues DEF Queues
  <2> QED
    BY <1>1, <1>2, <2>2, RoomsSame
<1>4. CASE room' = WithoutPeer(c, p, ss) /\ down' = ToldOfLeaving(c, p, ss)
  <2>1. Grows(ss, room[c].sessions, {})
    BY Growing
  <2> HIDE DEF ss, c
  <2>2. RoomsGoOn /\ DownTrue /\ DOMAIN down' = Attempt
    BY <1>0, <1>4, <2>1, PeerWithout, LeavingTold
  <2> QED
    BY <1>1, <1>2, <2>2, RoomsSame
<1>5. CASE \E m : /\ m = Head(up[s]) /\ room' = room
                  /\ \/ m.t = "signal" /\ Relay(c, s, m)
                     \/ m.t \in {"packet", "flood"} /\ Packet(c, s, m)
  <2>1. PICK m : /\ m = Head(up[s]) /\ room' = room
                 /\ \/ m.t = "signal" /\ Relay(c, s, m)
                    \/ m.t \in {"packet", "flood"} /\ Packet(c, s, m)
    BY <1>5
  <2>2. TrueSaid(s, m)
    BY <1>0, <2>1, HeadTrue
  <2>3. DownTrue /\ DOMAIN down' = Attempt
    BY <1>0, <2>1, <2>2, PassesOn
  <2>4. RoomsGoOn
    BY <1>0, <2>1, RoomSame
  <2> QED
    BY <1>1, <1>2, <2>3, <2>4, RoomsSame
<1>6. \/ ServeClosed(s, c)
      \/ room' = WithoutPeer(c, p, ss) /\ down' = ToldOfLeaving(c, p, ss)
      \/ \E m : /\ m = Head(up[s]) /\ room' = room
                /\ \/ m.t = "signal" /\ Relay(c, s, m)
                   \/ m.t \in {"packet", "flood"} /\ Packet(c, s, m)
  <2>1. Relay(c, s, Head(up[s])) \/ Packet(c, s, Head(up[s])) => room' = room
    BY DEF Relay, Packet
  <2> QED
    BY <2>1 DEF Serve
<1> QED
  BY <1>3, <1>4, <1>5, <1>6

\* The rooms and their time preserve the invariant.
LEMMA RoomActsSame ==
  ASSUME LobbyInv, SameInv, LobbyInv', RoomActs \/ RoomExpires
  PROVE  SameInv'
<1>0. /\ UNCHANGED <<app, work, link, driver, mode, inbox>> /\ Queues /\ Rooms /\ Sockets
  BY DEF RoomActs, RoomExpires, peerVars, SameInv, LobbyInv, Shaped
<1>1. ASSUME NEW s \in Socket, RoomStep(s)
      PROVE  SameInv'
  BY <1>0, <1>1, Attempts, RefuseSame, AdmitSame, ServeSame, CloseSame DEF RoomStep
<1>2. ASSUME NEW c \in Code, Alarm(c)
      PROVE  SameInv'
  <2>1. RoomsGoOn /\ UNCHANGED <<up, down>>
    BY <1>0, <1>2, RoomDestroyed DEF Alarm
  <2>2. GoneOn(sock')
    BY <1>0, <1>2, ClosingGoesOn DEF Alarm
  <2> QED
    BY <1>0, <2>1, <2>2, SameQueues, RoomsSame DEF Queues
<1>3. ASSUME NEW c \in Code, Expire(c)
      PROVE  SameInv'
  <2> DEFINE r == [room[c] EXCEPT !.status = "stale"]
  <2>1. room' = [room EXCEPT ![c] = r] /\ UNCHANGED <<sock, up, down>>
    BY <1>0, <1>3 DEF Expire, Rooms
  <2>2. DOMAIN r = RoomField /\ r.sessions = room[c].sessions
    BY <1>0 DEF Rooms, RoomField
  <2> HIDE DEF r
  <2>3. PICK R : Grows(r.sessions, room[c].sessions, R) /\ R \subseteq SocketsIn(c)
    <3>1. Grows(r.sessions, room[c].sessions, {}) /\ {} \subseteq SocketsIn(c)
      BY <2>2, Growing
    <3> QED
      BY <3>1
  <2>4. RoomsGoOn
    BY <1>0, <2>1, <2>2, <2>3, RoomSet
  <2>5. GoneOn(sock')
    BY <1>0, <2>1, ClosingGoesOn
  <2> QED
    BY <1>0, <2>1, <2>4, <2>5, SameQueues, RoomsSame DEF Queues
<1> QED
  BY <1>1, <1>2, <1>3 DEF RoomActs, RoomExpires

-----------------------------------------------------------------------------
(***************************************************************************)
(* Pages that go on.                                                       *)
(***************************************************************************)
\* What a page may be set to, that goes on.
LEMMA PageGoes ==
  ASSUME LobbyInv, SameInv, NEW a \in Attempt, NEW r, app' = [app EXCEPT ![a[1]] = r],
         r.at = app[a[1]].at, r.tries = app[a[1]].tries,
         app[a[1]].sdp => r.sdp,
         r.peer = app[a[1]].peer \/ app[a[1]].peer = None,
         r.neg \in {app[a[1]].neg, app[a[1]].at},
         r.net = app[a[1]].net \/ driver'[r.net].state # "none",
         \/ r.record = app[a[1]].record
         \/ app[a[1]].at # None /\ r.record = RoomOf(app[a[1]].at)
  PROVE  \A q \in Player : Goes(q)
<1>1. a[1] \in Player /\ app[a[1]].tries \in Nat
  BY Attempts DEF LobbyInv, Own
<1>2. app'[a[1]] = r /\ \A q \in Player \ {a[1]} : app'[q] = app[q]
  BY <1>1 DEF LobbyInv, Shaped, Pages
<1>3. Goes(a[1])
  BY <1>1, <1>2 DEF Goes
<1> QED
  BY <1>2, <1>3, SamePage

\* One field of a page is set.
LEMMA FieldGoes ==
  ASSUME LobbyInv, SameInv, NEW a \in Attempt,
         NEW f \in {"sig", "token", "busy", "peer", "neg", "sdp", "record"}, NEW v,
         app' = Set(a, f, v),
         f = "peer" => app[a[1]].peer = None, f = "neg" => v = app[a[1]].at,
         f = "sdp" => v,
         f = "record" => app[a[1]].at # None /\ v = RoomOf(app[a[1]].at)
  PROVE  \A q \in Player : Goes(q)
<1> DEFINE r == [app[a[1]] EXCEPT ![f] = v]
<1>1. a[1] \in Player /\ DOMAIN app[a[1]] = PageField
  BY Attempts DEF LobbyInv, Shaped, Pages
<1>2. app' = [app EXCEPT ![a[1]] = r]
  BY <1>1 DEF Set, LobbyInv, Shaped, Pages
<1>3. /\ r.at = app[a[1]].at /\ r.tries = app[a[1]].tries /\ r.net = app[a[1]].net
      /\ r.sdp = IF f = "sdp" THEN v ELSE app[a[1]].sdp
      /\ r.peer = IF f = "peer" THEN v ELSE app[a[1]].peer
      /\ r.neg = IF f = "neg" THEN v ELSE app[a[1]].neg
      /\ r.record = IF f = "record" THEN v ELSE app[a[1]].record
  BY <1>1 DEF PageField
<1> HIDE DEF r
<1> QED
  BY <1>2, <1>3, PageGoes

\* The page of a driver shows a screen, and may ask for the record.
LEMMA ScreenGoes ==
  ASSUME LobbyInv, SameInv, NEW a \in Attempt, NEW screen, app' = Page(a, screen)
  PROVE  \A q \in Player : Goes(q)
<1> DEFINE b == app[a[1]].busy \/ Asks(a)
           r == [app[a[1]] EXCEPT !.screen = screen, !.busy = b]
<1>0. a[1] \in Player /\ DOMAIN app[a[1]] = PageField
  BY Attempts DEF LobbyInv, Shaped, Pages
<1>1. app' = [app EXCEPT ![a[1]] = r]
  BY <1>0 DEF Page, LobbyInv, Shaped, Pages
<1> HIDE DEF b
<1>2. /\ r.at = app[a[1]].at /\ r.tries = app[a[1]].tries /\ r.net = app[a[1]].net
      /\ r.sdp = app[a[1]].sdp /\ r.peer = app[a[1]].peer /\ r.neg = app[a[1]].neg
      /\ r.record = app[a[1]].record
  BY <1>0 DEF PageField
<1> HIDE DEF r
<1> QED
  BY <1>1, <1>2, PageGoes

\* A step that leaves links and drivers alone.
LEMMA PagesSame ==
  ASSUME LobbyInv, SameInv, LobbyInv', UNCHANGED <<link, driver, mode>>,
         Rooms', InRoom', Queues', InboxTrue, UpTrue, DownTrue,
         \A q \in Player : Goes(q) \/ Begins(q),
         \A b \in Attempt : WorkSteady(b), \A w \in work' \ work : Kind(w)
  PROVE  SameInv'
<1>1. Links' /\ \A a \in Attempt : LinkSteady(a)
  BY SameLinks DEF SameInv
<1>2. \A a \in Attempt : DriverSteady(a)
  BY DEF DriverSteady
<1> QED
  BY <1>1, <1>2, SteadyStep

\* One more thing is awaited, of an attempt that awaits another.
LEMMA OneMoreStep ==
  ASSUME NEW a \in Attempt, NEW step \in {"create", "join", "offer", "record"},
         work' \subseteq work \cup {<<a, step>>},
         step = "join" /\ mode = "ranked" => <<a, "assigned">> \in work,
         step # "join" => Hosting(a), step \in {"create", "offer"} => mode = "friend"
  PROVE  /\ \A b \in Attempt : WorkSteady(b)
         /\ \A w \in work' \ work : Kind(w)
<1>0. /\ \A b, s : <<b, s>> = <<a, step>> => b = a /\ s = step
      /\ <<a, step>>[1] = a /\ <<a, step>>[2] = step
  OBVIOUS
<1>1. \A b \in Attempt : WorkSteady(b)
  BY <1>0 DEF WorkSteady, Hooks
<1>2. Kind(<<a, step>>)
  BY <1>0 DEF Kind, Hooks
<1> QED
  BY <1>1, <1>2

\* A message of a socket is taken, and nothing is said.
LEMMA TakenQueues ==
  ASSUME LobbyInv, SameInv, NEW a \in Attempt, down[a] # <<>>, down' = Heard(a),
         UNCHANGED <<room, sock, up, inbox, link, mode>>
  PROVE  Rooms' /\ InRoom' /\ Queues' /\ InboxTrue /\ UpTrue /\ DownTrue
<1>1. Queues /\ SocketsKeep(sock') /\ mode \in {"friend", "ranked"}
  BY DEF SameInv, SocketsKeep, LobbyInv, Shaped
<1>2. DownTrue /\ InboxTrue /\ UpTrue /\ Queues'
  BY <1>1, HeardTrue, SameQueues DEF Queues
<1> QED
  BY <1>1, <1>2, SameRooms DEF SameInv

\* Nothing is said or taken.
LEMMA SilentQueues ==
  ASSUME LobbyInv, SameInv, UNCHANGED <<room, sock, up, down, inbox, link, mode>>
  PROVE  Rooms' /\ InRoom' /\ Queues' /\ InboxTrue /\ UpTrue /\ DownTrue
<1>1. Queues /\ SocketsKeep(sock') /\ mode \in {"friend", "ranked"}
  BY DEF SameInv, SocketsKeep, LobbyInv, Shaped
<1> QED
  BY <1>1, SameRooms, SameQueues DEF SameInv, Queues

\* A socket is hung up, with words that say nothing.
LEMMA HangUpQueues ==
  ASSUME LobbyInv, SameInv, NEW a \in Attempt, NEW ms \in {<<>>, <<[t |-> "leave-room"]>>},
         HangUp(a, ms), UNCHANGED <<room, inbox, link, mode>>
  PROVE  Rooms' /\ InRoom' /\ Queues' /\ InboxTrue /\ UpTrue /\ DownTrue
<1> DEFINE R == {[t |-> "leave-room"]}
<1>1. Queues /\ Sockets /\ mode \in {"friend", "ranked"}
  BY DEF SameInv, LobbyInv, Shaped
<1> DEFINE w == [t |-> "leave-room"]
<1>2. ms = <<>> \/ ms = <<w>>
  OBVIOUS
<1>3. \A m \in R : TrueSaid(a, m)'
  BY DEF TrueSaid
<1>a. R = {w}
  OBVIOUS
<1> HIDE DEF w, R
<1>b. <<>> \in Seq({w}) /\ <<w>> \in Seq({w})
  OBVIOUS
<1>c. ms \in Seq(R)
  BY <1>2, <1>a, <1>b
<1>4. UpTrue /\ DOMAIN up' = Attempt /\ DownTrue /\ DOMAIN down' = Attempt /\ SocketsKeep(sock')
  BY <1>1, <1>c, <1>3, HangUpTrue DEF Queues
<1> QED
  BY <1>1, <1>4, SameRooms, SameQueues DEF SameInv, Queues

-----------------------------------------------------------------------------
(***************************************************************************)
(* The actions.                                                            *)
(***************************************************************************)
\* The ways out of a lobby.
LEMMA AwaySame ==
  ASSUME LobbyInv, SameInv, LobbyInv', NEW a \in Attempt,
         PeerLeft(a) \/ QuitComes(a) \/ HandshakeTimesOut(a) \/ RelayCloses(a)
  PROVE  SameInv'
<1>1. a[1] \in Player
  BY Attempts
<1>2. CloseNet(a[1]) \/ CloseNetOnDrop(a[1])
  BY DEF PeerLeft, QuitComes, HandshakeTimesOut, RelayCloses
<1>3. work' \subseteq work /\ mode' = mode
  BY DEF PeerLeft, QuitComes, HandshakeTimesOut, RelayCloses
<1> QED
  BY <1>1, <1>2, <1>3, NetCloses

\* Leave.
LEMMA LeaveSame ==
  ASSUME LobbyInv, SameInv, LobbyInv', NEW p \in Player, Leave(p)
  PROVE  SameInv'
BY NetCloses DEF Leave

\* LinkCloses.
LEMMA LinkClosesSame ==
  ASSUME LobbyInv, SameInv, LobbyInv', NEW a \in Attempt, LinkCloses(a)
  PROVE  SameInv'
<1>0. a[1] \in Player /\ mode' = mode /\ work' = work /\ Links /\ Queues /\ Rooms /\ InRoom
      /\ mode \in {"friend", "ranked"}
  BY Attempts DEF LinkCloses, SameInv, LobbyInv, Shaped
<1>1. CASE app[a[1]].net = a
  <2>1. CloseNetOnDrop(a[1])
    BY <1>1 DEF LinkCloses
  <2> QED
    BY <1>0, <2>1, NetCloses
<1>2. CASE app[a[1]].net # a
  <2>1. /\ link' = [link EXCEPT ![a].state = "closed"] /\ inbox' = [inbox EXCEPT ![a] = <<>>]
        /\ UNCHANGED <<room, sock, up, down, app, driver>>
    BY <1>2 DEF LinkCloses, roomVars
  <2>2. Links' /\ \A b \in Attempt : LinkSteady(b)
    BY <1>0, <2>1, LinkShuts
  <2>3. \A b \in Attempt : DriverSteady(b)
    BY <2>1 DEF DriverSteady
  <2>4. DOMAIN inbox' = Attempt /\ \A b \in Attempt : inbox'[b] \in {<<>>, inbox[b]}
    BY <1>0, <2>1 DEF Queues
  <2>5. \A b \in Attempt : Grows(inbox'[b], inbox[b], {})
    BY <2>4, Growing
  <2>6. InboxTrue /\ UpTrue /\ DownTrue /\ Queues'
    BY <1>0, <2>1, <2>4, <2>5, SameQueues DEF InboxTrue, Queues
  <2>7. SocketsKeep(sock')
    BY <2>1 DEF SocketsKeep
  <2>8. Rooms' /\ InRoom'
    BY <1>0, <2>1, <2>2, <2>7, SameRooms DEF LinkSteady
  <2>9. \A q \in Player : Goes(q)
    BY <2>1, SamePage
  <2> QED
    BY <1>0, <2>2, <2>3, <2>6, <2>8, <2>9, LessWork, SteadyStep
<1> QED
  BY <1>1, <1>2

\* A connection that breaks takes what was under way in it.
LEMMA BreakTrue ==
  ASSUME Sockets, DOMAIN up = Attempt, DOMAIN down = Attempt, NEW a \in Attempt, Break(a)
  PROVE  /\ UpTrue /\ DOMAIN up' = Attempt /\ DownTrue /\ DOMAIN down' = Attempt
         /\ SocketsKeep(sock')
<1>1. /\ DOMAIN up' = Attempt /\ DOMAIN down' = Attempt
      /\ \A b \in Attempt : up'[b] \in {<<>>, up[b]} /\ down'[b] \in {<<>>, down[b]}
  BY DEF Break
<1>2. \A b \in Attempt : Grows(up'[b], up[b], {}) /\ Grows(down'[b], down[b], {})
  BY <1>1, Growing
<1>3. UpTrue /\ DownTrue
  BY <1>2 DEF UpTrue, DownTrue
<1>4. SocketsKeep(sock')
  <2>1. sock' = [sock EXCEPT ![a] = [sock[a] EXCEPT !.phase = "left"]] /\ sock[a].phase = "live"
    BY DEF Break, Sockets
  <2>2. sock'[a].phase = "left" /\ sock'[a].code = sock[a].code
    BY <2>1 DEF Sockets
  <2>3. \A b \in Attempt \ {a} : sock'[b] = sock[b]
    BY <2>1 DEF Sockets
  <2> QED
    BY <2>1, <2>2, <2>3 DEF SocketsKeep
<1> QED
  BY <1>1, <1>3, <1>4

\* SocketBreaks.
LEMMA SocketBreaksSame ==
  ASSUME LobbyInv, SameInv, LobbyInv', NEW a \in Attempt, SocketBreaks(a)
  PROVE  SameInv'
<1>0. /\ a[1] \in Player /\ mode' = mode /\ work' = work /\ inbox' = inbox /\ room' = room
      /\ Links /\ Queues /\ Rooms /\ InRoom /\ Sockets /\ Drivers /\ Pages
      /\ mode \in {"friend", "ranked"} /\ Break(a)
  BY Attempts DEF SocketBreaks, SameInv, LobbyInv, Shaped
<1>1. /\ UpTrue /\ DOMAIN up' = Attempt /\ DownTrue /\ DOMAIN down' = Attempt
      /\ SocketsKeep(sock')
  BY <1>0, BreakTrue DEF Queues
<1>2. InboxTrue /\ Queues'
  BY <1>0, <1>1, SameQueues DEF Queues
<1>3. CASE mode = "ranked" /\ app[a[1]].net = a
  <2>1. /\ app' = Menu(a[1], app[a[1]].busy) /\ link' = [link EXCEPT ![a].state = "closed"]
        /\ driver' = [driver EXCEPT ![a].state = "closed"]
    BY <1>3 DEF SocketBreaks
  <2>2. Links' /\ \A b \in Attempt : LinkSteady(b)
    BY <1>0, <2>1, LinkShuts
  <2>3. driver[a].state # "none"
    <3>1. app[a[1]].net # None
      BY <1>3, Attempts
    <3> QED
      BY <1>0, <1>3, <3>1, PageTransport
  <2>4. \A b \in Attempt : DriverSteady(b)
    BY <1>0, <2>1, <2>3, DriverSteadies
  <2>5. Rooms' /\ InRoom'
    BY <1>0, <1>1, <2>2, SameRooms DEF LinkSteady
  <2>6. Quits(a[1]) /\ \A q \in Player \ {a[1]} : app'[q] = app[q]
    <3> DEFINE page == [Idle EXCEPT !.busy = app[a[1]].busy, !.tries = app[a[1]].tries]
    <3>1. app' = [app EXCEPT ![a[1]] = page]
      BY <2>1 DEF Menu
    <3>2. /\ page.at = None /\ page.net = None /\ page.record = None
          /\ page.tries = app[a[1]].tries
      BY DEF Idle
    <3> HIDE DEF page
    <3>3. app'[a[1]] = page /\ \A q \in Player \ {a[1]} : app'[q] = app[q]
      BY <1>0, <3>1 DEF Pages
    <3> QED
      BY <1>3, <3>2, <3>3 DEF Quits
  <2>7. \A q \in Player : Goes(q) \/ Quits(q) \/ Begins(q)
    BY <2>6, SamePage
  <2> QED
    BY <1>0, <1>1, <1>2, <2>2, <2>4, <2>5, <2>7, LessWork, SteadyStep
<1>4. CASE ~(mode = "ranked" /\ app[a[1]].net = a)
  <2>1. UNCHANGED <<app, link, driver>>
    BY <1>4 DEF SocketBreaks
  <2>2. Rooms' /\ InRoom'
    BY <1>0, <1>1, <2>1, SameRooms
  <2> QED
    BY <1>0, <1>1, <1>2, <2>1, <2>2, QuietSame
<1> QED
  BY <1>3, <1>4

\* StartFails.
LEMMA StartFailsSame ==
  ASSUME LobbyInv, SameInv, LobbyInv', NEW a \in Attempt, StartFails(a)
  PROVE  SameInv'
<1>0. a[1] \in Player /\ mode' = mode /\ work' \subseteq work
  BY Attempts DEF StartFails
<1>1. CASE Alive(a)
  <2>1. CloseNet(a[1])
    BY <1>1 DEF StartFails
  <2> QED
    BY <1>0, <2>1, NetCloses
<1>2. CASE ~Alive(a)
  <2>1. /\ HangUp(a, <<>>) \/ UNCHANGED <<sock, up, down>>
        /\ UNCHANGED <<room, app, link, driver, inbox>>
    BY <1>2 DEF StartFails, peerVars
  <2>2. Rooms' /\ InRoom' /\ Queues' /\ InboxTrue /\ UpTrue /\ DownTrue
    <3>1. CASE HangUp(a, <<>>)
      BY <1>0, <2>1, <3>1, HangUpQueues
    <3>2. CASE UNCHANGED <<sock, up, down>>
      BY <1>0, <2>1, <3>2, SilentQueues
    <3> QED
      BY <2>1, <3>1, <3>2
  <2>3. \A q \in Player : Goes(q)
    BY <2>1, SamePage
  <2> QED
    BY <1>0, <2>1, <2>2, <2>3, LessWork, PagesSame
<1> QED
  BY <1>1, <1>2

\* Joined.
LEMMA JoinedSame ==
  ASSUME LobbyInv, SameInv, LobbyInv', NEW a \in Attempt, Joined(a)
  PROVE  SameInv'
<1>0. /\ mode' = mode /\ work' \subseteq work /\ down[a] # <<>>
      /\ UNCHANGED <<room, link, driver, inbox>>
  BY DEF Joined, Coming, peerVars
<1>1. CASE Alive(a)
  <2>1. app' = Set(a, "token", sock[a].code) /\ down' = Heard(a) /\ UNCHANGED <<sock, up>>
    BY <1>1 DEF Joined
  <2>2. Rooms' /\ InRoom' /\ Queues' /\ InboxTrue /\ UpTrue /\ DownTrue
    BY <1>0, <2>1, TakenQueues
  <2>3. \A q \in Player : Goes(q)
    BY <2>1, FieldGoes
  <2> QED
    BY <1>0, <2>2, <2>3, LessWork, PagesSame
<1>2. CASE ~Alive(a)
  <2>1. HangUp(a, <<[t |-> "leave-room"]>>) /\ app' = app
    BY <1>2 DEF Joined
  <2> DEFINE ms == <<[t |-> "leave-room"]>>
  <2>a. ms \in {<<>>, <<[t |-> "leave-room"]>>} /\ HangUp(a, ms)
    BY <2>1
  <2> HIDE DEF ms
  <2>2. Rooms' /\ InRoom' /\ Queues' /\ InboxTrue /\ UpTrue /\ DownTrue
    BY <1>0, <2>a, HangUpQueues
  <2>3. \A q \in Player : Goes(q)
    BY <2>1, SamePage
  <2> QED
    BY <1>0, <2>2, <2>3, LessWork, PagesSame
<1> QED
  BY <1>1, <1>2

\* PeerJoined.
LEMMA PeerJoinedSame ==
  ASSUME LobbyInv, SameInv, LobbyInv', NEW a \in Attempt, PeerJoined(a)
  PROVE  SameInv'
<1>0. /\ mode' = mode /\ work' = work \cup {<<a, "offer">>} /\ down[a] # <<>> /\ down' = Heard(a)
      /\ UNCHANGED <<room, sock, up, link, driver, inbox>>
      /\ app[a[1]].peer = None /\ Hosting(a) /\ mode = "friend"
      /\ \E v : app' = Set(a, "peer", v)
  BY DEF PeerJoined, WantsPeer, Attached, Coming, peerVars
<1>1. Rooms' /\ InRoom' /\ Queues' /\ InboxTrue /\ UpTrue /\ DownTrue
  BY <1>0, TakenQueues
<1>2. \A q \in Player : Goes(q)
  BY <1>0, FieldGoes
<1>3. (\A b \in Attempt : WorkSteady(b)) /\ \A w \in work' \ work : Kind(w)
  BY <1>0, OneMoreStep
<1> QED
  BY <1>0, <1>1, <1>2, <1>3, PagesSame

\* A step that only talks, with its driver and what it awaits steady.
LEMMA TalkStep ==
  ASSUME LobbyInv, SameInv, LobbyInv', UNCHANGED <<room, sock, link, mode>>,
         Queues', InboxTrue, UpTrue, DownTrue,
         \A q \in Player : Goes(q), \A b \in Attempt : DriverSteady(b) /\ WorkSteady(b),
         \A w \in work' \ work : Kind(w)
  PROVE  SameInv'
<1>1. Links' /\ \A b \in Attempt : LinkSteady(b)
  BY SameLinks DEF SameInv
<1>2. SocketsKeep(sock') /\ mode \in {"friend", "ranked"}
  BY DEF SocketsKeep, LobbyInv, Shaped
<1>3. Rooms' /\ InRoom'
  BY <1>2, SameRooms DEF SameInv
<1> QED
  BY <1>1, <1>3, SteadyStep

\* What a page may announce is true.
LEMMA AnnouncedTrue ==
  ASSUME LobbyInv, SameInv, NEW a \in Attempt, Current(a), link' = link
  PROVE  \E W : /\ Announced(a) \in Seq(W)
                /\ \A b \in Attempt : b = Mate(a) => FairTo(b, W)
<1>0. a[1] \in Player /\ HostFacts /\ app[a[1]].at = a /\ Recorded
  BY Attempts, Hosts DEF Current, SameInv
<1>1. CASE app[a[1]].record = None
  <2>1. Announced(a) \in Seq({})
    BY <1>1 DEF Announced
  <2>2. \A b \in Attempt : FairTo(b, {})
    BY DEF FairTo
  <2> QED
    BY <2>1, <2>2
<1>2. CASE app[a[1]].record # None
  <2> DEFINE id == app[a[1]].record
             w == CityMatch(a, id)
  <2>1. id = RoomOf(a) /\ id # None
    BY <1>0, <1>2 DEF Recorded
  <2>2. id \in HostAttempt
    <3>1. CASE Hosting(a)
      BY <1>0, <2>1, <3>1 DEF RoomOf, Hosting, HostFacts
    <3>2. CASE ~Hosting(a)
      BY <1>0, <2>1, <3>2 DEF RoomOf, Hosting, HostFacts, SameInv, Mates
    <3> QED
      BY <3>1, <3>2
  <2>3. ASSUME NEW b \in Attempt, b = Mate(a)
        PROVE  FairTo(b, {CityMatch(a, id)})
    <3> HIDE DEF id
    <3> QED
      BY <2>1, <2>2, <2>3, RecordFair
  <2>4. Announced(a) = <<w>>
    BY <1>2 DEF Announced
  <2>5. \A b \in Attempt : b = Mate(a) => FairTo(b, {w})
    BY <2>3
  <2> HIDE DEF w
  <2>6. <<w>> \in Seq({w})
    OBVIOUS
  <2> QED
    BY <2>4, <2>5, <2>6
<1> QED
  BY <1>1, <1>2

\* What a page asks for.
LEMMA AskedWork ==
  ASSUME NEW a \in Attempt, work' = work \/ work' = work \cup Asked(a)
  PROVE  /\ \A b \in Attempt : WorkSteady(b)
         /\ \A w \in work' \ work : Kind(w)
<1>1. CASE Hosting(a)
  <2>1. work' \subseteq work \cup {<<a, "record">>}
    BY DEF Asked
  <2> QED
    BY <1>1, <2>1, OneMoreStep
<1>2. CASE ~Hosting(a)
  <2>1. work' \subseteq work
    BY <1>2 DEF Asked, Asks
  <2> QED
    BY <2>1, LessWork
<1> QED
  BY <1>1, <1>2

\* The ready gate is steady.
LEMMA GatedSteady ==
  ASSUME Drivers, NEW a \in Attempt, NEW d, DOMAIN d = DriverField, d.state = driver[a].state,
         d.seed = driver[a].seed, d.token = driver[a].token, driver' = Gated(a, d)
  PROVE  \A b \in Attempt : DriverSteady(b)
<1> DEFINE e == d.started \/ Starts(a, d)
           g == [d EXCEPT !.started = e]
<1>1. driver' = [driver EXCEPT ![a] = g]
  BY DEF Gated, Drivers, DriverField
<1> HIDE DEF e
<1>2. DOMAIN g = DriverField /\ g.state = d.state /\ g.seed = d.seed /\ g.token = d.token
  BY DEF DriverField
<1> HIDE DEF g
<1> QED
  BY <1>1, <1>2, DriverSet DEF DriverSteady

\* The driver that hears is that of the current attempt.
LEMMA HearerCurrent ==
  ASSUME LobbyInv, SameInv, NEW a \in Attempt, driver[a].state \in {"handshake", "playing"}
  PROVE  /\ Current(a) /\ app[a[1]].net = a /\ a[1] \in Player
         /\ mode = "ranked" => Mate(a) \in Attempt
         /\ mode \in {"friend", "ranked"} /\ Queues /\ Drivers
<1>1. app[a[1]].net = a /\ a[1] \in Player /\ app[a[1]].net # None
  BY HearsAsPage
<1>2. Current(a)
  BY <1>1 DEF LobbyInv, Own, Current
<1> QED
  BY <1>1, <1>2, HasMate DEF SameInv, LobbyInv, Shaped

\* What a driver hears is true.
LEMMA ForemostFair ==
  ASSUME LobbyInv, SameInv, NEW a \in Attempt, Arriving(a)
  PROVE  Fair(a, Foremost(a))
<1>1. mode \in {"friend", "ranked"} /\ Words
  BY DEF LobbyInv, Shaped, SameInv
<1>2. CASE mode = "friend"
  <2>1. Fair(a, Head(inbox[a]))
    BY <1>1, <1>2, HeadTrue DEF Arriving
  <2> QED
    BY <1>2, <2>1 DEF Foremost
<1>3. CASE mode = "ranked"
  <2>1. TrueHeard(a, Head(down[a])) /\ Head(down[a]).t = "packet"
    BY <1>1, <1>3, HeadTrue DEF Arriving, Coming
  <2> QED
    BY <1>3, <2>1 DEF Foremost, TrueHeard
<1> QED
  BY <1>1, <1>2, <1>3

\* ProfileComes.
LEMMA ProfileSame ==
  ASSUME LobbyInv, SameInv, LobbyInv', NEW a \in Attempt, ProfileComes(a)
  PROVE  SameInv'
<1> DEFINE ms == IF Hosting(a) THEN Announced(a) ELSE <<>>
<1>0. /\ UNCHANGED <<room, sock, link, driver, mode>> /\ work' = work \cup Asked(a)
      /\ app' = Page(a, Screen(a)) /\ Arriving(a) /\ driver[a].state = "playing"
      /\ Exchange(a, ms)
  BY DEF ProfileComes, Hears
<1>1. /\ Current(a) /\ mode \in {"friend", "ranked"} /\ Queues
      /\ mode = "ranked" => Mate(a) \in Attempt
  BY <1>0, HearerCurrent
<1>2. PICK W : /\ Announced(a) \in Seq(W)
               /\ \A b \in Attempt : b = Mate(a) => FairTo(b, W)
  BY <1>0, <1>1, AnnouncedTrue
<1>3. ms \in Seq(W)
  BY <1>2
<1> HIDE DEF ms
<1>4. InboxTrue /\ UpTrue /\ DownTrue /\ Queues'
  BY <1>0, <1>1, <1>2, <1>3, ExchangeTrue
<1>5. \A q \in Player : Goes(q)
  BY <1>0, ScreenGoes
<1>6. (\A b \in Attempt : WorkSteady(b)) /\ \A w \in work' \ work : Kind(w)
  BY <1>0, AskedWork
<1>7. \A b \in Attempt : DriverSteady(b)
  BY <1>0 DEF DriverSteady
<1> QED
  BY <1>0, <1>4, <1>5, <1>6, <1>7, TalkStep

\* RecordComes.
LEMMA RecordComesSame ==
  ASSUME LobbyInv, SameInv, LobbyInv', NEW a \in Attempt, RecordComes(a)
  PROVE  SameInv'
<1> DEFINE id == Foremost(a).record
<1>0. /\ UNCHANGED <<room, sock, link, driver, mode, work>>
      /\ app' = Set(a, "record", id) \/ app' = app
      /\ Arriving(a) /\ driver[a].state = "playing" /\ Foremost(a).t = "city-match"
      /\ Exchange(a, <<>>)
  BY DEF RecordComes, Hears
<1>1. /\ Current(a) /\ mode \in {"friend", "ranked"} /\ Queues
      /\ mode = "ranked" => Mate(a) \in Attempt
  BY <1>0, HearerCurrent
<1>2. id = RoomOf(a)
  <2>1. Fair(a, Foremost(a))
    BY <1>0, ForemostFair
  <2> QED
    BY <1>0, <2>1 DEF Fair
<1> HIDE DEF id
<1>3. (\A b \in Attempt : FairTo(b, {})) /\ <<>> \in Seq({})
  BY DEF FairTo
<1>4. InboxTrue /\ UpTrue /\ DownTrue /\ Queues'
  BY <1>0, <1>1, <1>3, ExchangeTrue
<1>5. \A q \in Player : Goes(q)
  <2>1. CASE app' = app
    BY <2>1, SamePage
  <2>2. CASE app' = Set(a, "record", id)
    <3>1. app[a[1]].at # None /\ id = RoomOf(app[a[1]].at)
      BY <1>1, <1>2, Attempts DEF Current
    <3> QED
      BY <2>2, <3>1, FieldGoes
  <2> QED
    BY <1>0, <2>1, <2>2
<1>6. (\A b \in Attempt : WorkSteady(b)) /\ \A w \in work' \ work : Kind(w)
  BY <1>0, LessWork
<1>7. \A b \in Attempt : DriverSteady(b)
  BY <1>0 DEF DriverSteady
<1> QED
  BY <1>0, <1>4, <1>5, <1>6, <1>7, TalkStep

\* What the start of a match does to the page.
LEMMA StartedGoes ==
  ASSUME LobbyInv, SameInv, NEW a \in Attempt, NEW d,
         app' = IF Starts(a, d) THEN Page(a, "match") ELSE app
  PROVE  \A q \in Player : Goes(q)
<1>1. CASE app' = Page(a, "match")
  BY <1>1, ScreenGoes
<1>2. CASE app' = app
  BY <1>2, SamePage
<1> QED
  BY <1>1, <1>2

\* ReadyComes.
LEMMA ReadyComesSame ==
  ASSUME LobbyInv, SameInv, LobbyInv', NEW a \in Attempt, ReadyComes(a)
  PROVE  SameInv'
<1> DEFINE d == [driver[a] EXCEPT !.mate = TRUE]
           ms == IF Starts(a, d) THEN Announced(a) ELSE <<>>
<1>0. /\ UNCHANGED <<room, sock, link, mode>>
      /\ work' = IF Starts(a, d) THEN work \cup Asked(a) ELSE work
      /\ app' = IF Starts(a, d) THEN Page(a, "match") ELSE app
      /\ driver' = Gated(a, d)
      /\ Arriving(a) /\ driver[a].state = "playing"
      /\ Exchange(a, ms)
  BY DEF ReadyComes, Hears
<1>1. /\ Current(a) /\ mode \in {"friend", "ranked"} /\ Queues /\ Drivers
      /\ mode = "ranked" => Mate(a) \in Attempt
  BY <1>0, HearerCurrent
<1>2. /\ DOMAIN d = DriverField /\ d.state = driver[a].state
      /\ d.seed = driver[a].seed /\ d.token = driver[a].token
  BY <1>1 DEF Drivers, DriverField
<1> HIDE DEF d
<1>3. PICK W : /\ Announced(a) \in Seq(W)
               /\ \A b \in Attempt : b = Mate(a) => FairTo(b, W)
  BY <1>0, <1>1, AnnouncedTrue
<1>4. ms \in Seq(W)
  BY <1>3
<1> HIDE DEF ms
<1>5. InboxTrue /\ UpTrue /\ DownTrue /\ Queues'
  BY <1>0, <1>1, <1>3, <1>4, ExchangeTrue
<1>6. \A q \in Player : Goes(q)
  BY <1>0, StartedGoes
<1>7. (\A b \in Attempt : WorkSteady(b)) /\ \A w \in work' \ work : Kind(w)
  <2>1. work' = work \/ work' = work \cup Asked(a)
    BY <1>0
  <2> QED
    BY <2>1, AskedWork
<1>8. \A b \in Attempt : DriverSteady(b)
  BY <1>0, <1>1, <1>2, GatedSteady
<1> QED
  BY <1>0, <1>5, <1>6, <1>7, <1>8, TalkStep

\* Ready.
LEMMA ReadySame ==
  ASSUME LobbyInv, SameInv, LobbyInv', NEW p \in Player, Ready(p)
  PROVE  SameInv'
<1>0. /\ app[p].net \in Attempt /\ app[p].net = app[p].at /\ app[p].net[1] = p
      /\ mode = "ranked" => Mate(app[p].net) \in Attempt
  BY PageTransport DEF Ready
<1>1. PICK a \in Attempt : a = app[p].net
  BY <1>0
<1> DEFINE d == [driver[a] EXCEPT !.local = TRUE]
           one == IF Starts(a, d) THEN Announced(a) ELSE <<>>
           w == Control("ready")
           ms == <<w>> \o one
<1>2. /\ UNCHANGED <<room, sock, down, link, mode>>
      /\ work' = IF Starts(a, d) THEN work \cup Asked(a) ELSE work
      /\ app' = IF Starts(a, d) THEN Page(a, "match") ELSE app
      /\ driver' = Gated(a, d)
      /\ Sent(a, ms)
  BY <1>1 DEF Ready
<1>3. /\ Current(a) /\ mode \in {"friend", "ranked"} /\ Queues /\ Drivers
      /\ mode = "ranked" => Mate(a) \in Attempt
  BY <1>0, <1>1 DEF Current, SameInv, LobbyInv, Shaped
<1>4. /\ DOMAIN d = DriverField /\ d.state = driver[a].state
      /\ d.seed = driver[a].seed /\ d.token = driver[a].token
  BY <1>3 DEF Drivers, DriverField
<1> HIDE DEF d
<1>5. PICK W : /\ Announced(a) \in Seq(W)
               /\ \A b \in Attempt : b = Mate(a) => FairTo(b, W)
  BY <1>2, <1>3, AnnouncedTrue
<1>6. one \in Seq(W)
  BY <1>5
<1>7. \A b : FairTo(b, {w})
  BY DEF FairTo, Fair, Control
<1> HIDE DEF one, w
<1>8. <<w>> \o one \in Seq(W \cup {w})
  <2>1. one \in Seq(W \cup {w})
    BY <1>6, WiderSeq
  <2> QED
    BY <2>1
<1>9. \A b \in Attempt : b = Mate(a) => FairTo(b, W \cup {w})
  BY <1>5, <1>7 DEF FairTo
<1>10. ms \in Seq(W \cup {w})
  BY <1>8
<1> HIDE DEF ms
<1>11. InboxTrue /\ UpTrue /\ DOMAIN inbox' = Attempt /\ DOMAIN up' = Attempt
  BY <1>2, <1>3, <1>9, <1>10, SentTrue
<1>12. DownTrue /\ Queues'
  BY <1>2, <1>3, <1>11, SameQueues DEF Queues
<1>13. \A q \in Player : Goes(q)
  BY <1>2, StartedGoes
<1>14. (\A b \in Attempt : WorkSteady(b)) /\ \A v \in work' \ work : Kind(v)
  <2>1. work' = work \/ work' = work \cup Asked(a)
    BY <1>2
  <2> QED
    BY <2>1, AskedWork
<1>15. \A b \in Attempt : DriverSteady(b)
  BY <1>2, <1>3, <1>4, GatedSteady
<1> QED
  BY <1>2, <1>11, <1>12, <1>13, <1>14, <1>15, TalkStep

\* RecordMade.
LEMMA RecordMadeSame ==
  ASSUME LobbyInv, SameInv, LobbyInv', NEW a \in Attempt, RecordMade(a)
  PROVE  SameInv'
<1>0. /\ UNCHANGED <<room, sock, down, link, driver, mode>> /\ work' \subseteq work
      /\ <<a, "record">> \in work /\ mode \in {"friend", "ranked"} /\ Queues /\ HostFacts
      /\ a[1] \in Player /\ Pages
  BY Hosts, Attempts DEF RecordMade, Done, LobbyInv, Shaped, SameInv
<1>1. Hosting(a)
  <2>1. <<a, "record">>[1] = a /\ <<a, "record">>[2] = "record"
    OBVIOUS
  <2> QED
    BY <1>0, <2>1 DEF SameInv, Kinds, Kind
<1>2. RoomOf(a) = a /\ a \in HostAttempt
  BY <1>0, <1>1 DEF RoomOf, Hosting, HostFacts
<1>3. CASE app[a[1]].net = a
  <2> DEFINE w == CityMatch(a, a)
             ms == <<w>>
             r == [app[a[1]] EXCEPT !.busy = FALSE, !.record = a]
  <2>1. app' = [app EXCEPT ![a[1]] = r] /\ Sent(a, ms)
    BY <1>0, <1>3 DEF RecordMade, Pages
  <2>2. app[a[1]].at = a /\ (mode = "ranked" => Mate(a) \in Attempt)
    <3>1. app[a[1]].net # None
      BY <1>0, <1>3 DEF HostFacts
    <3> QED
      BY <1>0, <1>3, <3>1, PageTransport
  <2>3. \A b \in Attempt : b = Mate(a) => FairTo(b, {w})
    <3>1. ASSUME NEW b \in Attempt, b = Mate(a)
          PROVE  FairTo(b, {CityMatch(a, a)})
      BY <1>0, <1>2, <3>1, RecordFair
    <3> QED
      BY <3>1
  <2> HIDE DEF w
  <2>4. ms \in Seq({w})
    OBVIOUS
  <2> HIDE DEF ms
  <2>5. InboxTrue /\ UpTrue /\ DOMAIN inbox' = Attempt /\ DOMAIN up' = Attempt
    BY <1>0, <2>1, <2>2, <2>3, <2>4, SentTrue
  <2>6. DownTrue /\ Queues'
    BY <1>0, <2>5, SameQueues DEF Queues
  <2>7. /\ r.at = app[a[1]].at /\ r.tries = app[a[1]].tries /\ r.sdp = app[a[1]].sdp
        /\ r.peer = app[a[1]].peer /\ r.neg = app[a[1]].neg /\ r.net = app[a[1]].net
        /\ r.record = a
    BY <1>0 DEF Pages, PageField
  <2> HIDE DEF r
  <2>8. app[a[1]].at # None /\ r.record = RoomOf(app[a[1]].at)
    BY <1>0, <1>2, <2>2, <2>7 DEF HostFacts
  <2>9. \A q \in Player : Goes(q)
    BY <2>1, <2>7, <2>8, PageGoes
  <2>10. \A b \in Attempt : DriverSteady(b)
    BY <1>0 DEF DriverSteady
  <2> QED
    BY <1>0, <2>5, <2>6, <2>9, <2>10, LessWork, TalkStep
<1>4. CASE app[a[1]].net # a
  <2>1. app' = Set(a, "busy", FALSE) /\ UNCHANGED <<up, inbox>>
    BY <1>4 DEF RecordMade
  <2>2. \A q \in Player : Goes(q)
    BY <2>1, FieldGoes
  <2>3. Rooms' /\ InRoom' /\ Queues' /\ InboxTrue /\ UpTrue /\ DownTrue
    BY <1>0, <2>1, SilentQueues
  <2> QED
    BY <1>0, <2>2, <2>3, LessWork, PagesSame
<1> QED
  BY <1>3, <1>4

\* RecordFails.
LEMMA RecordFailsSame ==
  ASSUME LobbyInv, SameInv, LobbyInv', NEW a \in Attempt, RecordFails(a)
  PROVE  SameInv'
<1>0. mode' = mode /\ work' \subseteq work /\ a[1] \in Player
  BY Attempts DEF RecordFails, Done
<1>1. CASE mode = "ranked" /\ app[a[1]].net = a
  <2>1. app' = Menu(a[1], FALSE) /\ Down(a[1], Quit)
    BY <1>1 DEF RecordFails
  <2>2. Quit \in Seq({Control("quit")})
    BY DEF Quit
  <2> QED
    BY <1>0, <2>1, <2>2, OutStep
<1>2. CASE ~(mode = "ranked" /\ app[a[1]].net = a)
  <2>1. app' = Set(a, "busy", FALSE) /\ UNCHANGED <<room, sock, up, down, inbox, link, driver>>
    BY <1>2 DEF RecordFails, roomVars, peerVars
  <2>2. \A q \in Player : Goes(q)
    BY <2>1, FieldGoes
  <2>3. Rooms' /\ InRoom' /\ Queues' /\ InboxTrue /\ UpTrue /\ DownTrue
    BY <1>0, <2>1, SilentQueues
  <2> QED
    BY <1>0, <2>1, <2>2, <2>3, LessWork, PagesSame
<1> QED
  BY <1>1, <1>2

\* Opens.
LEMMA OpensSame ==
  ASSUME LobbyInv, SameInv, LobbyInv', NEW a \in Attempt, Opens(a)
  PROVE  SameInv'
<1>0. /\ UNCHANGED <<room, sock, up, down, mode, app, work, driver>>
      /\ link[a].state = "connecting" /\ link[a].remote
      /\ link' = [link EXCEPT ![a].state = "open"] /\ inbox' = Greeted(a)
      /\ Links /\ Queues /\ Rooms /\ InRoom /\ mode \in {"friend", "ranked"}
      /\ HostFacts /\ OnceOf(a)
  BY Hosts DEF Opens, roomVars, SameInv, LobbyInv, Shaped, Once
<1>1. Mate(a) # None /\ Mate(a) \in Attempt
  BY <1>0 DEF OnceOf, SameInv, Mates, HostFacts
<1>2. Links' /\ \A b \in Attempt : LinkSteady(b)
  BY <1>0, <1>1, LinkSteadies
<1>3. PICK b \in Attempt : b = Mate(a)
  BY <1>1
<1> DEFINE w == Hello(a)
<1>4. inbox' = inbox \/ inbox' = [inbox EXCEPT ![b] = Append(inbox[b], w)]
  BY <1>0, <1>3 DEF Greeted, Queues
<1>5. FairTo(b, {w})
  BY DEF FairTo, Fair, Hello, Control
<1> HIDE DEF w
<1>6. InboxTrue /\ DOMAIN inbox' = Attempt
  <2>1. CASE inbox' = inbox
    BY <1>0, <2>1, SameQueues DEF Queues
  <2>2. CASE inbox' = [inbox EXCEPT ![b] = Append(inbox[b], w)]
    <3>1. /\ DOMAIN inbox' = Attempt /\ inbox'[b] = Append(inbox[b], w)
          /\ \A c \in Attempt \ {b} : inbox'[c] = inbox[c]
      BY <1>0, <2>2 DEF Queues
    <3>2. Grows(inbox'[b], inbox[b], {w}) /\ \A m \in {w} : Fair(b, m)'
      BY <1>5, <3>1, Growing DEF FairTo
    <3>3. \A c \in Attempt \ {b} : Grows(inbox'[c], inbox[c], {})
      BY <3>1, Growing
    <3>4. ASSUME NEW c \in Attempt
          PROVE  \E R : Grows(inbox'[c], inbox[c], R) /\ \A m \in R : Fair(c, m)'
      <4>1. CASE c = b
        BY <3>2, <4>1
      <4>2. CASE c # b
        BY <3>3, <4>2
      <4> QED
        BY <4>1, <4>2
    <3> QED
      BY <3>1, <3>4 DEF InboxTrue
  <2> QED
    BY <1>4, <2>1, <2>2
<1>7. UpTrue /\ DownTrue /\ Queues'
  BY <1>0, <1>6, SameQueues DEF Queues
<1>8. SocketsKeep(sock')
  BY <1>0 DEF SocketsKeep
<1>9. Rooms' /\ InRoom'
  BY <1>0, <1>2, <1>8, SameRooms DEF LinkSteady
<1>10. \A q \in Player : Goes(q)
  BY <1>0, SamePage
<1>11. \A c \in Attempt : DriverSteady(c)
  BY <1>0 DEF DriverSteady
<1> QED
  BY <1>0, <1>2, <1>6, <1>7, <1>9, <1>10, <1>11, LessWork, SteadyStep

\* OfferMade.
LEMMA OfferMadeSame ==
  ASSUME LobbyInv, SameInv, LobbyInv', NEW a \in Attempt, OfferMade(a)
  PROVE  SameInv'
<1>0. /\ mode' = mode /\ work' \subseteq work /\ <<a, "offer">> \in work /\ a[1] \in Player
      /\ Links /\ Queues /\ Rooms /\ InRoom /\ mode \in {"friend", "ranked"} /\ HostFacts
  BY Hosts, Attempts DEF OfferMade, Done, SameInv, LobbyInv, Shaped
<1>1. a \in HostAttempt
  <2>1. <<a, "offer">>[1] = a /\ <<a, "offer">>[2] = "offer"
    OBVIOUS
  <2> QED
    BY <1>0, <2>1 DEF SameInv, Kinds, Kind, Hosting, HostFacts
<1>2. CASE ~Alive(a)
  <2>1. UNCHANGED <<room, sock, up, down, app, inbox, link, driver>>
    BY <1>2 DEF OfferMade, roomVars, peerVars
  <2>2. \A q \in Player : Goes(q)
    BY <2>1, SamePage
  <2>3. Rooms' /\ InRoom' /\ Queues' /\ InboxTrue /\ UpTrue /\ DownTrue
    BY <1>0, <2>1, SilentQueues
  <2> QED
    BY <1>0, <2>1, <2>2, <2>3, LessWork, PagesSame
<1>3. CASE Alive(a) /\ ~CanSignal(a)
  <2>1. CloseNet(a[1])
    BY <1>3 DEF OfferMade
  <2> QED
    BY <1>0, <2>1, NetCloses
<1>4. CASE Alive(a) /\ CanSignal(a)
  <2>1. /\ app' = Set(a, "neg", a) /\ link' = [link EXCEPT ![a].state = "connecting"]
        /\ up' = Signalled(a, app[a[1]].peer, "offer")
        /\ UNCHANGED <<room, sock, down, driver, inbox>>
    BY <1>4 DEF OfferMade
  <2>2. Current(a) /\ app[a[1]].at = a
    BY <1>4 DEF Alive, Current
  <2>3. Links' /\ \A b \in Attempt : LinkSteady(b)
    <3>1. Links /\ link' = [link EXCEPT ![a].state = "connecting"] /\ Current(a)
      BY <1>0, <2>1, <2>2
    <3>2. PICK s : s = "connecting"
      OBVIOUS
    <3>3. link' = [link EXCEPT ![a].state = s] /\ s # "open"
      BY <3>1, <3>2
    <3> QED
      BY <3>1, <3>3, LinkSteadies
  <2>4. \A q \in Player : Goes(q)
    BY <2>1, <2>2, FieldGoes
  <2>5. UpTrue /\ DOMAIN up' = Attempt
    BY <1>0, <1>1, <2>1, SignalledTrue
  <2>6. InboxTrue /\ DownTrue /\ Queues'
    BY <1>0, <2>1, <2>5, SameQueues DEF Queues
  <2>7. SocketsKeep(sock')
    BY <2>1 DEF SocketsKeep
  <2>8. Rooms' /\ InRoom'
    BY <1>0, <2>1, <2>3, <2>7, SameRooms DEF LinkSteady
  <2>9. \A c \in Attempt : DriverSteady(c)
    BY <2>1 DEF DriverSteady
  <2> QED
    BY <1>0, <2>3, <2>4, <2>5, <2>6, <2>8, <2>9, LessWork, SteadyStep
<1> QED
  BY <1>2, <1>3, <1>4

\* A socket that opens.
LEMMA OpeningRooms ==
  ASSUME LobbyInv, SameInv, NEW a \in Attempt, NEW c \in Code,
         sock' = [sock EXCEPT ![a] = [phase |-> "opening", code |-> c]],
         mode = "ranked" => sock[a].phase = "idle" /\ Mate(a) # None /\ c = RoomOf(a),
         RoomsGoOn, UNCHANGED <<link, mode>>
  PROVE  Rooms' /\ InRoom'
<1> DEFINE r == [phase |-> "opening", code |-> c]
<1>0. /\ sock' = [sock EXCEPT ![a] = r] /\ r.phase = "opening" /\ r.code = c
      /\ mode \in {"friend", "ranked"} /\ InRoom /\ Sockets
  BY DEF SameInv, LobbyInv, Shaped
<1> HIDE DEF r
<1>1. sock'[a] = r /\ \A b \in Attempt \ {a} : sock'[b] = sock[b]
  BY <1>0 DEF Sockets
<1>2. SocketsGoOn
  BY <1>0, <1>1 DEF SocketsGoOn
<1> QED
  BY <1>0, <1>2, InRoomKept DEF RoomsGoOn

\* Created.
LEMMA CreatedSame ==
  ASSUME LobbyInv, SameInv, LobbyInv', NEW a \in Attempt, Created(a)
  PROVE  SameInv'
<1> DEFINE r == [status |-> "open", members |-> <<a>>, roster |-> {}, sessions |-> <<>>]
<1>0. /\ UNCHANGED <<up, down, mode, app, link, driver, inbox>>
      /\ <<a, "create">> \in work /\ work' = (work \ {<<a, "create">>}) \cup {<<a, "join">>}
      /\ room' = [room EXCEPT ![a] = r]
      /\ sock' = [sock EXCEPT ![a] = [phase |-> "opening", code |-> a]]
      /\ Queues /\ Rooms /\ HostFacts /\ Code = HostAttempt
  BY Hosts, LobbyAssumption DEF Created, peerVars, SameInv
<1>1. a \in Code /\ mode = "friend"
  <2>1. <<a, "create">>[1] = a /\ <<a, "create">>[2] = "create"
    OBVIOUS
  <2> QED
    BY <1>0, <2>1 DEF SameInv, Kinds, Kind, Hosting, HostFacts
<1>2. RoomsGoOn
  <2>1. DOMAIN r = RoomField /\ r.sessions = <<>>
    BY DEF RoomField
  <2> HIDE DEF r
  <2>2. PICK R : Grows(r.sessions, room[a].sessions, R) /\ R \subseteq SocketsIn(a)
    <3>1. Grows(r.sessions, room[a].sessions, {}) /\ {} \subseteq SocketsIn(a)
      BY <2>1, Growing
    <3> QED
      BY <3>1
  <2> QED
    BY <1>0, <1>1, <2>1, <2>2, RoomSet
<1>3. Rooms' /\ InRoom'
  BY <1>0, <1>1, <1>2, OpeningRooms
<1>4. Queues' /\ InboxTrue /\ UpTrue /\ DownTrue
  BY <1>0, SameQueues DEF Queues
<1>5. \A q \in Player : Goes(q)
  BY <1>0, SamePage
<1>6. (\A b \in Attempt : WorkSteady(b)) /\ \A w \in work' \ work : Kind(w)
  <2>1. work' \subseteq work \cup {<<a, "join">>}
    BY <1>0
  <2> QED
    BY <1>1, <2>1, OneMoreStep
<1> QED
  BY <1>0, <1>3, <1>4, <1>5, <1>6, PagesSame

\* Connected.
LEMMA ConnectedSame ==
  ASSUME LobbyInv, SameInv, LobbyInv', shown \subseteq Code, NEW a \in Attempt, Connected(a)
  PROVE  SameInv'
<1>0. /\ UNCHANGED <<mode, link, driver, inbox>> /\ <<a, "connect">> \in work
      /\ Queues /\ Rooms
  BY DEF Connected, Connecting, peerVars, SameInv
<1>1. mode = "friend"
  BY <1>0 DEF LobbyInv, Calling
<1>2. CASE ~Alive(a)
  <2>1. work' \subseteq work /\ UNCHANGED <<app, room, sock, up, down>>
    BY <1>2 DEF Connected, Connecting, roomVars
  <2>2. Rooms' /\ InRoom' /\ Queues' /\ InboxTrue /\ UpTrue /\ DownTrue
    BY <1>0, <2>1, SilentQueues
  <2>3. \A q \in Player : Goes(q)
    BY <2>1, SamePage
  <2> QED
    BY <1>0, <2>1, <2>2, <2>3, LessWork, PagesSame
<1>3. CASE Alive(a) /\ Hosting(a)
  <2>1. /\ work' = (work \ {<<a, "connect">>}) \cup {<<a, "create">>}
        /\ app' = Set(a, "sig", a) /\ UNCHANGED <<room, sock, up, down>>
    BY <1>3 DEF Connected, Connecting, roomVars
  <2>2. Rooms' /\ InRoom' /\ Queues' /\ InboxTrue /\ UpTrue /\ DownTrue
    BY <1>0, <2>1, SilentQueues
  <2>3. \A q \in Player : Goes(q)
    BY <2>1, FieldGoes
  <2>4. (\A b \in Attempt : WorkSteady(b)) /\ \A w \in work' \ work : Kind(w)
    <3>1. work' \subseteq work \cup {<<a, "create">>}
      BY <2>1
    <3> QED
      BY <1>1, <1>3, <3>1, OneMoreStep
  <2> QED
    BY <1>0, <2>2, <2>3, <2>4, PagesSame
<1>4. CASE Alive(a) /\ ~Hosting(a)
  <2>1. /\ work' = (work \ {<<a, "connect">>}) \cup {<<a, "join">>}
        /\ app' = Set(a, "sig", a)
        /\ \E c \in shown : OpenSocket(a, c)
    BY <1>4 DEF Connected, Connecting
  <2>2. PICK c \in Code : /\ sock' = [sock EXCEPT ![a] = [phase |-> "opening", code |-> c]]
                          /\ UNCHANGED <<room, up, down>>
    BY <2>1 DEF OpenSocket
  <2>3. RoomsGoOn
    BY <1>0, <2>2, RoomSame
  <2>4. Rooms' /\ InRoom'
    BY <1>0, <1>1, <2>2, <2>3, OpeningRooms
  <2>5. Queues' /\ InboxTrue /\ UpTrue /\ DownTrue
    BY <1>0, <2>2, SameQueues DEF Queues
  <2>6. \A q \in Player : Goes(q)
    BY <2>1, FieldGoes
  <2>7. (\A b \in Attempt : WorkSteady(b)) /\ \A w \in work' \ work : Kind(w)
    <3>1. work' \subseteq work \cup {<<a, "join">>}
      BY <2>1
    <3> QED
      BY <1>1, <3>1, OneMoreStep
  <2> QED
    BY <1>0, <2>4, <2>5, <2>6, <2>7, PagesSame
<1> QED
  BY <1>2, <1>3, <1>4

\* Assigned.
LEMMA AssignedSame ==
  ASSUME LobbyInv, SameInv, LobbyInv', NEW a \in Attempt, Assigned(a)
  PROVE  SameInv'
<1>0. /\ UNCHANGED <<mode, link, driver, inbox>> /\ <<a, "assigned">> \in work
      /\ Queues /\ Rooms /\ HostFacts /\ OnceOf(a) /\ a[1] \in Player /\ Pages
      /\ Code = HostAttempt
  BY Hosts, Attempts, LobbyAssumption DEF Assigned, peerVars, SameInv, Once, LobbyInv, Shaped
<1>1. mode = "ranked" /\ app[a[1]].screen = "menu" /\ app[a[1]].at = None
      /\ app[a[1]].tries \in Nat
  BY <1>0 DEF LobbyInv, PairedInMenu, Own
<1>2. ASSUME work' = work \ {<<a, "assigned">>}, UNCHANGED <<app, roomVars>>
      PROVE  SameInv'
  <2>1. work' \subseteq work /\ UNCHANGED <<app, room, sock, up, down>>
    BY <1>2 DEF roomVars
  <2>2. Rooms' /\ InRoom' /\ Queues' /\ InboxTrue /\ UpTrue /\ DownTrue
    BY <1>0, <2>1, SilentQueues
  <2>3. \A q \in Player : Goes(q)
    BY <2>1, SamePage
  <2> QED
    BY <1>0, <2>1, <2>2, <2>3, LessWork, PagesSame
<1>3. ASSUME app' = [app EXCEPT ![a[1]] = [@ EXCEPT !.screen = "lobby", !.at = a]],
             work' = (work \ {<<a, "assigned">>}) \cup {<<a, "join">>},
             OpenSocket(a, RoomOf(a))
      PROVE  SameInv'
  <2> DEFINE r == [app[a[1]] EXCEPT !.screen = "lobby", !.at = a]
  <2>1. app' = [app EXCEPT ![a[1]] = r]
    BY <1>0, <1>3 DEF Pages
  <2>2. /\ r.at = a /\ r.tries = app[a[1]].tries /\ r.net = app[a[1]].net
        /\ r.record = app[a[1]].record
    BY <1>0 DEF Pages, PageField
  <2> HIDE DEF r
  <2>3. app'[a[1]] = r /\ \A q \in Player \ {a[1]} : app'[q] = app[q]
    BY <1>0, <2>1 DEF Pages
  <2>4. Begins(a[1])
    BY <1>0, <1>1, <2>2, <2>3 DEF Begins, HostFacts
  <2>5. \A q \in Player : Goes(q) \/ Begins(q)
    BY <2>3, <2>4, SamePage
  <2>6. Mate(a) # None /\ RoomOf(a) \in Code
    BY <1>0, <1>1 DEF OnceOf, RoomOf, Hosting, SameInv, Mates, HostFacts
  <2>7. PICK c \in Code : c = RoomOf(a)
    BY <2>6
  <2>8. /\ sock[a].phase = "idle"
        /\ sock' = [sock EXCEPT ![a] = [phase |-> "opening", code |-> c]]
        /\ UNCHANGED <<room, up, down>>
    BY <1>3, <2>7 DEF OpenSocket
  <2>9. RoomsGoOn
    BY <1>0, <2>8, RoomSame
  <2>10. Rooms' /\ InRoom'
    BY <1>0, <2>6, <2>7, <2>8, <2>9, OpeningRooms
  <2>11. Queues' /\ InboxTrue /\ UpTrue /\ DownTrue
    BY <1>0, <2>8, SameQueues DEF Queues
  <2>12. (\A b \in Attempt : WorkSteady(b)) /\ \A w \in work' \ work : Kind(w)
    <3>1. work' \subseteq work \cup {<<a, "join">>}
      BY <1>3
    <3> QED
      BY <1>0, <3>1, OneMoreStep
  <2> QED
    BY <1>0, <2>5, <2>10, <2>11, <2>12, PagesSame
<1> QED
  BY <1>2, <1>3 DEF Assigned

\* Start.
LEMMA StartSame ==
  ASSUME LobbyInv, SameInv, LobbyInv', NEW p \in Player, Start(p)
  PROVE  SameInv'
<1> DEFINE a == <<p, app[p].tries + 1>>
           r == [app[p] EXCEPT !.screen = "lobby", !.at = a, !.tries = a[2]]
<1>0. /\ UNCHANGED <<room, sock, up, down, mode, link, driver, inbox>>
      /\ work' = work \cup {<<a, "connect">>} /\ a \in Attempt /\ app[p].screen = "menu"
      /\ app' = [app EXCEPT ![p] = [@ EXCEPT !.screen = "lobby", !.at = a, !.tries = a[2]]]
      /\ Pages
  BY DEF Start, Begin, peerVars, roomVars, LobbyInv, Shaped
<1>1. app[p].at = None /\ app[p].tries \in Nat /\ a # None /\ a[2] = app[p].tries + 1
  BY <1>0, Attempts DEF LobbyInv, Own
<1>2. app' = [app EXCEPT ![p] = r]
  BY <1>0 DEF Pages
<1>3. /\ r.at = a /\ r.tries = app[p].tries + 1 /\ r.net = app[p].net
      /\ r.record = app[p].record
  BY <1>0, <1>1 DEF Pages, PageField
<1> HIDE DEF r
<1>4. app'[p] = r /\ \A q \in Player \ {p} : app'[q] = app[q]
  BY <1>0, <1>2 DEF Pages
<1>5. Begins(p)
  <2> HIDE DEF a
  <2>1. /\ app'[p].at = a /\ app'[p].tries = app[p].tries + 1 /\ app'[p].net = app[p].net
        /\ app'[p].record = app[p].record
    BY <1>3, <1>4
  <2>2. app'[p].at[2] > app[p].tries /\ app'[p].tries >= app[p].tries
    BY <1>1, <2>1
  <2>3. app'[p].at # None
    BY <1>1, <2>1
  <2> QED
    BY <1>1, <2>1, <2>2, <2>3 DEF Begins
<1>6. \A q \in Player : Goes(q) \/ Begins(q)
  BY <1>4, <1>5, SamePage
<1>7. (\A b \in Attempt : WorkSteady(b)) /\ \A w \in work' \ work : Kind(w)
  <2>1. \A b, s : <<b, s>> = <<a, "connect">> => s = "connect"
    OBVIOUS
  <2>2. \A b \in Attempt : WorkSteady(b)
    BY <1>0, <2>1 DEF WorkSteady, Hooks
  <2>3. <<a, "connect">>[2] = "connect"
    OBVIOUS
  <2> HIDE DEF a
  <2>4. Kind(<<a, "connect">>)
    BY <2>3 DEF Kind, Hooks
  <2> QED
    BY <1>0, <2>2, <2>4
<1>8. Rooms' /\ InRoom' /\ Queues' /\ InboxTrue /\ UpTrue /\ DownTrue
  BY <1>0, SilentQueues
<1> QED
  BY <1>0, <1>6, <1>7, <1>8, PagesSame

\* A step in which the attempts of X get what they get once, and the others are steady.
LEMMA OnceStep ==
  ASSUME LobbyInv, SameInv, LobbyInv', Links', Rooms', Queues', InRoom', Mates', Seeds', Kept,
         \A q \in Player : Goes(q) \/ Quits(q) \/ Begins(q), NEW X,
         \A b \in Attempt \ X : LinkSteady(b) /\ DriverMoves(b) /\ WorkSteady(b),
         \A b \in X : OnceOf(b)' /\ NegotiatedOf(b)',
         \A w \in work' \ work : Kind(w), InboxTrue, UpTrue, DownTrue
  PROVE  SameInv'
<1>0. mode' = mode
  BY DEF Kept
<1>1. ASSUME NEW b \in Attempt \ X
      PROVE  OnceOf(b)' /\ NegotiatedOf(b)'
  <2>1. PageOnce(b)
    BY PagesOnce DEF SameInv
  <2>2. OnceOf(b)'
    BY <1>0, <2>1, OnceKept DEF SameInv
  <2>3. NegotiatedOf(b)'
    BY <1>0, NegotiatedKept DEF LinkSteady, Kept
  <2> QED
    BY <2>2, <2>3
<1>2. \A b \in Attempt : OnceOf(b)' /\ NegotiatedOf(b)'
  BY <1>1
<1>3. Once' /\ Negotiated'
  BY <1>2 DEF Once, Negotiated
<1>4. Kinds'
  <2>1. \A w : Kind(w) => Kind(w)'
    BY <1>0 DEF Kind, Hosting
  <2> QED
    BY <2>1 DEF Kinds, SameInv
<1>5. Recorded' /\ Words'
  BY RecordedKept, WordsStep DEF SameInv
<1> QED
  BY <1>3, <1>4, <1>5 DEF SameInv

\* The same for one attempt.
LEMMA OneStep ==
  ASSUME LobbyInv, SameInv, LobbyInv', Links', Rooms', Queues', InRoom', Mates', Seeds', Kept,
         \A q \in Player : Goes(q) \/ Quits(q) \/ Begins(q), NEW a \in Attempt,
         \A b \in Attempt \ {a} : LinkSteady(b) /\ DriverMoves(b) /\ WorkSteady(b),
         OnceOf(a)', NegotiatedOf(a)',
         \A w \in work' \ work : Kind(w), InboxTrue, UpTrue, DownTrue
  PROVE  SameInv'
<1> DEFINE X == {a}
<1>1. \A b \in Attempt \ X : LinkSteady(b) /\ DriverMoves(b) /\ WorkSteady(b)
  OBVIOUS
<1>2. \A b \in X : OnceOf(b)' /\ NegotiatedOf(b)'
  <2>1. ASSUME NEW b, b = a
        PROVE  OnceOf(b)' /\ NegotiatedOf(b)'
    BY <2>1
  <2> QED
    BY <2>1
<1> HIDE DEF X
<1> QED
  BY <1>1, <1>2, OnceStep

\* The attempt of a page, or one that something is awaited of, has been tried.
LEMMA WasTried ==
  ASSUME LobbyInv, NEW a \in Attempt, Current(a) \/ \E s : <<a, s>> \in work
  PROVE  /\ a[1] \in Player /\ a[2] \in Nat /\ app[a[1]].tries \in Nat
         /\ ~(a[2] > app[a[1]].tries)
<1>1. a[1] \in Player /\ a[2] \in Nat /\ app[a[1]].tries \in Nat
  BY Attempts DEF LobbyInv, Own
<1>2. \A s : <<a, s>>[1] = a
  OBVIOUS
<1>3. a[2] <= app[a[1]].tries
  BY <1>2 DEF LobbyInv, Tried, Current
<1> QED
  BY <1>1, <1>3

\* What is awaited says of whom.
LEMMA OfKind ==
  ASSUME SameInv, NEW a \in Attempt, NEW s, <<a, s>> \in work
  PROVE  /\ s \in {"offer", "answer", "hook", "record", "create"} => a \in HostAttempt
         /\ s = "accept" => a \in Guests
         /\ s \in Hooks \cup {"offer", "create"} => mode = "friend"
<1>1. <<a, s>>[1] = a /\ <<a, s>>[2] = s /\ HostFacts
  BY Hosts
<1> QED
  BY <1>1 DEF SameInv, Kinds, Kind, Hosting, HostFacts

\* A new driver.
LEMMA DriverHooked ==
  ASSUME Drivers, NEW a \in Attempt, NEW d, DOMAIN d = DriverField, d.state = "handshake",
         d.seed = None, driver[a].seed = None, driver' = [driver EXCEPT ![a] = d]
  PROVE  /\ driver'[a].state = "handshake" /\ \A b \in Attempt : driver'[b].seed = driver[b].seed
         /\ \A b \in Attempt \ {a} : driver'[b] = driver[b] /\ DriverMoves(b)
         /\ \A b \in Attempt : driver[b].seed # None => driver'[b].token = driver[b].token
BY DriverSet DEF DriverMoves

\* hookDriver() makes one.
LEMMA HookIsNew ==
  ASSUME Drivers, NEW a \in Attempt, driver[a].seed = None, driver' = Hook(a)
  PROVE  /\ driver'[a].state = "handshake" /\ \A b \in Attempt : driver'[b].seed = driver[b].seed
         /\ \A b \in Attempt \ {a} : driver'[b] = driver[b] /\ DriverMoves(b)
         /\ \A b \in Attempt : driver[b].seed # None => driver'[b].token = driver[b].token
<1> DEFINE d == [NoDriver EXCEPT !.state = "handshake", !.token = app[a[1]].token]
<1>1. driver' = [driver EXCEPT ![a] = d]
  BY DEF Hook
<1>2. DOMAIN d = DriverField /\ d.state = "handshake" /\ d.seed = None
  BY DEF NoDriver, DriverField
<1> HIDE DEF d
<1> QED
  BY <1>1, <1>2, DriverHooked

\* OfferComes.
LEMMA OfferComesSame ==
  ASSUME LobbyInv, SameInv, LobbyInv', NEW a \in Attempt, OfferComes(a)
  PROVE  SameInv'
<1> DEFINE r == [app[a[1]] EXCEPT !.sdp = TRUE, !.peer = Sender(a)]
<1>0. /\ UNCHANGED <<room, sock, up, mode, link, driver, inbox>> /\ mode = "friend"
      /\ work' = work \cup {<<a, "accept">>} /\ down' = Heard(a) /\ down[a] # <<>>
      /\ app' = [app EXCEPT ![a[1]] = [@ EXCEPT !.sdp = TRUE, !.peer = Sender(a)]]
      /\ ~Hosting(a) /\ Current(a) /\ ~app[a[1]].sdp
      /\ app[a[1]].peer = Sender(a) \/ app[a[1]].peer = None
      /\ Head(down[a]).t = "signaled" /\ Head(down[a]).body = "offer"
  BY DEF OfferComes, WantsOffer, Attached, Signal, Coming, FromPeer, Alive, peerVars
<1>1. /\ HostFacts /\ OnceOf(a) /\ a[1] \in Player /\ Pages /\ app[a[1]].at = a /\ Links
      /\ a \in Guests
  BY <1>0, Hosts, Attempts
  DEF SameInv, Once, LobbyInv, Shaped, Current, Hosting, HostFacts
<1>2. Fresh(a) /\ ~(a[2] > app[a[1]].tries)
  BY <1>0, <1>1, WasTried DEF OnceOf
<1>3. Sender(a) \in HostAttempt
  BY <1>0, HeadTrue DEF Sender, TrueHeard, SameInv
<1>4. app' = [app EXCEPT ![a[1]] = r]
  BY <1>0, <1>1 DEF Pages
<1>5. /\ r.at = app[a[1]].at /\ r.tries = app[a[1]].tries /\ r.sdp = TRUE
      /\ r.peer = Sender(a) /\ r.neg = app[a[1]].neg /\ r.net = app[a[1]].net
      /\ r.record = app[a[1]].record
  BY <1>1 DEF Pages, PageField
<1> HIDE DEF r
<1>a. app[a[1]].peer = Sender(a) \/ app[a[1]].peer = None
  BY <1>0
<1>6. \A q \in Player : Goes(q)
  BY <1>a, <1>4, <1>5, PageGoes
<1>7. app'[a[1]] = r
  BY <1>1, <1>4 DEF Pages
<1>8. /\ \A b, s : <<b, s>> = <<a, "accept">> => b = a /\ s = "accept"
      /\ \A s \in Hooks : <<a, s>> \in work' => s = "accept"
  BY <1>0, <1>2 DEF Fresh
<1>9. OnceOf(a)'
  BY <1>0, <1>1, <1>2, <1>5, <1>7, <1>8 DEF OnceOf, Fresh, Hooks, Mate
<1>10. NegotiatedOf(a)'
  BY <1>3, <1>5, <1>7, <1>8 DEF NegotiatedOf, Hooks
<1>11. \A w \in work' \ work : Kind(w)
  <2>1. <<a, "accept">>[1] = a /\ <<a, "accept">>[2] = "accept"
    OBVIOUS
  <2>2. Kind(<<a, "accept">>)
    BY <1>0, <2>1 DEF Kind
  <2> QED
    BY <1>0, <2>2
<1>12. \A b \in Attempt \ {a} : WorkSteady(b)
  BY <1>0, <1>8 DEF WorkSteady
<1>13. Links' /\ (\A b \in Attempt : LinkSteady(b)) /\ \A b \in Attempt : DriverMoves(b)
  BY <1>0, <1>1, SameLinks DEF DriverMoves
<1>14. Kept
  BY <1>0 DEF Kept
<1>15. Mates' /\ Seeds'
  BY <1>0, <1>14, MatesKept, SeedsKept DEF SameInv
<1>16. Rooms' /\ InRoom' /\ Queues' /\ InboxTrue /\ UpTrue /\ DownTrue
  BY <1>0, TakenQueues
<1> QED
  BY <1>6, <1>9, <1>10, <1>11, <1>12, <1>13, <1>14, <1>15, <1>16, OneStep

\* AnswerComes.
LEMMA AnswerComesSame ==
  ASSUME LobbyInv, SameInv, LobbyInv', NEW a \in Attempt, AnswerComes(a)
  PROVE  SameInv'
<1> DEFINE r == [app[a[1]] EXCEPT !.sdp = TRUE]
<1>0. /\ UNCHANGED <<room, sock, up, mode, link, driver, inbox>> /\ mode = "friend"
      /\ work' = work \cup {<<a, "answer">>} /\ down' = Heard(a) /\ down[a] # <<>>
      /\ app' = Set(a, "sdp", TRUE)
      /\ Hosting(a) /\ Current(a) /\ ~app[a[1]].sdp
      /\ app[a[1]].peer = Sender(a) /\ app[a[1]].neg # None
      /\ Head(down[a]).t = "signaled" /\ Head(down[a]).body = "answer"
  BY DEF AnswerComes, WantsAnswer, Attached, Signal, Coming, FromPeer, Alive, peerVars
<1>1. /\ HostFacts /\ OnceOf(a) /\ a[1] \in Player /\ Pages /\ app[a[1]].at = a /\ Links
      /\ app[a[1]].neg = a
  BY <1>0, Hosts, Attempts
  DEF SameInv, Once, LobbyInv, Shaped, Current, Own
<1>2. Fresh(a) /\ ~(a[2] > app[a[1]].tries)
  BY <1>0, <1>1, WasTried DEF OnceOf
<1>3. Sender(a) \in Guests /\ Mate(Sender(a)) = a
  BY <1>0, HeadTrue DEF Sender, TrueHeard, SameInv
<1>4. app' = [app EXCEPT ![a[1]] = r]
  BY <1>0, <1>1 DEF Pages, Set
<1>5. /\ r.at = app[a[1]].at /\ r.tries = app[a[1]].tries /\ r.sdp = TRUE
      /\ r.peer = app[a[1]].peer /\ r.neg = app[a[1]].neg /\ r.net = app[a[1]].net
      /\ r.record = app[a[1]].record
  BY <1>1 DEF Pages, PageField
<1> HIDE DEF r
<1>a. app[a[1]].peer = Sender(a) \/ app[a[1]].peer = None
  BY <1>0
<1>6. \A q \in Player : Goes(q)
  BY <1>a, <1>4, <1>5, PageGoes
<1>7. app'[a[1]] = r
  BY <1>1, <1>4 DEF Pages
<1>8. /\ \A b, s : <<b, s>> = <<a, "answer">> => b = a /\ s = "answer"
      /\ \A s \in Hooks : <<a, s>> \in work' => s = "answer"
  BY <1>0, <1>2 DEF Fresh
<1>9. OnceOf(a)'
  BY <1>0, <1>1, <1>2, <1>5, <1>7, <1>8 DEF OnceOf, Fresh, Hooks, Mate
<1>10. NegotiatedOf(a)'
  <2> QED
    BY <1>0, <1>1, <1>3, <1>5, <1>7, <1>8 DEF NegotiatedOf, Hooks, Current, Mate
<1>11. \A w \in work' \ work : Kind(w)
  <2>1. <<a, "answer">>[1] = a /\ <<a, "answer">>[2] = "answer"
    OBVIOUS
  <2>2. Kind(<<a, "answer">>)
    BY <1>0, <2>1 DEF Kind
  <2> QED
    BY <1>0, <2>2
<1>12. \A b \in Attempt \ {a} : WorkSteady(b)
  BY <1>0, <1>8 DEF WorkSteady
<1>13. Links' /\ (\A b \in Attempt : LinkSteady(b)) /\ \A b \in Attempt : DriverMoves(b)
  BY <1>0, <1>1, SameLinks DEF DriverMoves
<1>14. Kept
  BY <1>0 DEF Kept
<1>15. Mates' /\ Seeds'
  BY <1>0, <1>14, MatesKept, SeedsKept DEF SameInv
<1>16. Rooms' /\ InRoom' /\ Queues' /\ InboxTrue /\ UpTrue /\ DownTrue
  BY <1>0, TakenQueues
<1> QED
  BY <1>6, <1>9, <1>10, <1>11, <1>12, <1>13, <1>14, <1>15, <1>16, OneStep

\* RelayOpens.
LEMMA RelayOpensSame ==
  ASSUME LobbyInv, SameInv, LobbyInv', NEW a \in Attempt, RelayOpens(a)
  PROVE  SameInv'
<1>0. /\ UNCHANGED <<room, mode, inbox>> /\ mode = "ranked" /\ <<a, "join">> \in work
      /\ work' = work \ {<<a, "join">>} /\ work' \subseteq work /\ down[a] # <<>>
  BY DEF RelayOpens, Coming
<1>1. CASE ~Alive(a)
  <2>1. HangUp(a, <<>>) /\ UNCHANGED <<app, link, driver>>
    BY <1>1 DEF RelayOpens
  <2>2. Rooms' /\ InRoom' /\ Queues' /\ InboxTrue /\ UpTrue /\ DownTrue
    BY <1>0, <2>1, HangUpQueues
  <2>3. \A q \in Player : Goes(q)
    BY <2>1, SamePage
  <2> QED
    BY <1>0, <2>1, <2>2, <2>3, LessWork, PagesSame
<1>2. CASE Alive(a)
  <2> DEFINE d == [NoDriver EXCEPT !.state = "handshake", !.token = sock[a].code]
             r == [app[a[1]] EXCEPT !.token = sock[a].code, !.net = a]
             h == [Control("hello") EXCEPT !.token = sock[a].code]
  <2>0. /\ app' = [app EXCEPT ![a[1]] = [@ EXCEPT !.token = sock[a].code, !.net = a]]
        /\ driver' = [driver EXCEPT ![a] = d]
        /\ link' = [link EXCEPT ![a].state = "open"]
        /\ down' = Heard(a) /\ sock' = sock
        /\ up' = up \/ up' = Says(a, <<AsPacket(h)>>)
    BY <1>2 DEF RelayOpens
  <2>1. /\ HostFacts /\ OnceOf(a) /\ a[1] \in Player /\ Pages /\ app[a[1]].at = a /\ Links
        /\ Drivers /\ Queues /\ Rooms /\ InRoom /\ mode \in {"friend", "ranked"} /\ Mates
        /\ Seeds
    BY <1>2, Hosts, Attempts DEF SameInv, Once, LobbyInv, Shaped, Current, Alive
  <2>2. driver[a].state = "none" /\ Mate(a) # None /\ driver[a].seed = None
    BY <1>0, <2>1 DEF OnceOf
  <2>3. Mate(a) \in Attempt /\ ~(a[2] > app[a[1]].tries)
    BY <1>0, <2>1, <2>2, WasTried DEF Mates, HostFacts
  <2>4. app' = [app EXCEPT ![a[1]] = r]
    BY <2>0, <2>1 DEF Pages
  <2>5. /\ r.at = app[a[1]].at /\ r.tries = app[a[1]].tries /\ r.sdp = app[a[1]].sdp
        /\ r.peer = app[a[1]].peer /\ r.neg = app[a[1]].neg /\ r.net = a
        /\ r.record = app[a[1]].record
    BY <2>1 DEF Pages, PageField
  <2>6. DOMAIN d = DriverField /\ d.state = "handshake" /\ d.seed = None
    BY DEF NoDriver, DriverField
  <2>a. driver' = [driver EXCEPT ![a] = d] /\ link' = [link EXCEPT ![a].state = "open"]
    BY <2>0
  <2>b. up' = up \/ up' = Says(a, <<AsPacket(h)>>)
    BY <2>0
  <2>c. h.t = "hello"
    BY DEF Control
  <2>d. down' = Heard(a) /\ sock' = sock
    BY <2>0
  <2> HIDE DEF r, d, h
  <2>7. /\ driver'[a].state = "handshake"
        /\ \A b \in Attempt : driver'[b].seed = driver[b].seed
        /\ \A b \in Attempt \ {a} : driver'[b] = driver[b] /\ DriverMoves(b)
        /\ \A b \in Attempt : driver[b].seed # None => driver'[b].token = driver[b].token
    BY <2>1, <2>2, <2>6, <2>a, DriverHooked
  <2>8. Links' /\ (\A b \in Attempt : LinkSteady(b)) /\ link'[a].mate = link[a].mate
    <3>1. PICK s : s = "open"
      OBVIOUS
    <3>2. link' = [link EXCEPT ![a].state = s] /\ s # "closed"
      BY <2>a, <3>1
    <3>3. Current(a)
      BY <2>1 DEF Current
    <3>4. Links' /\ \A b \in Attempt : LinkSteady(b)
      BY <2>1, <2>2, <3>2, <3>3, LinkSteadies
    <3> QED
      BY <3>4 DEF LinkSteady
  <2>9. \A q \in Player : Goes(q)
    BY <2>4, <2>5, <2>7, PageGoes
  <2>10. app'[a[1]] = r
    BY <2>1, <2>4 DEF Pages
  <2>11. /\ <<a, "assigned">> \notin work' /\ <<a, "join">> \notin work'
         /\ \A s \in Hooks : <<a, s>> \notin work'
    <3>1. <<a, "assigned">> \notin work
      BY <2>1 DEF LobbyInv, PairedInMenu, Own, HostFacts
    <3>2. \A s \in Hooks : <<a, s>> \notin work
      BY <1>0, OfKind
    <3> QED
      BY <1>0, <3>1, <3>2
  <2>12. Mate(a)' # None /\ driver'[a].seed = None /\ mode' = "ranked"
    BY <1>0, <2>2, <2>7, <2>8 DEF Mate
  <2>13. OnceOf(a)'
    BY <2>3, <2>5, <2>7, <2>10, <2>11, <2>12 DEF OnceOf, Hooks
  <2>14. NegotiatedOf(a)'
    BY <2>11 DEF NegotiatedOf, Hooks
  <2>15. Kept
    BY <1>0, <2>7, <2>8 DEF Kept, LinkSteady
  <2>16. Mates' /\ Seeds'
    BY <1>0, <2>1, <2>7, <2>8, <2>15, MatesKept, SeedsKept DEF LinkSteady
  <2>17. SocketsKeep(sock')
    BY <2>d DEF SocketsKeep
  <2>18. Rooms' /\ InRoom'
    BY <1>0, <2>1, <2>8, <2>17, SameRooms DEF LinkSteady
  <2>19. UpTrue /\ DOMAIN up' = Attempt
    <3>1. CASE up' = up
      BY <2>1, <3>1, SameQueues DEF Queues
    <3>2. CASE up' = Says(a, <<AsPacket(h)>>)
      <4>1. PICK b \in Attempt : b = Mate(a)
        BY <2>3
      <4>2. FairTo(b, {h})
        BY <2>c DEF FairTo, Fair
      <4>3. link'[a].mate = b
        BY <2>8, <4>1 DEF Mate
      <4>4. \A m \in {AsPacket(w) : w \in {h}} : TrueSaid(a, m)'
        BY <2>12, <4>2, <4>3, PacketsTrue
      <4>5. <<AsPacket(h)>> \in Seq({AsPacket(w) : w \in {h}})
        OBVIOUS
      <4> QED
        BY <2>1, <3>2, <4>4, <4>5, SaysTrue DEF Queues
    <3> QED
      BY <2>b, <3>1, <3>2
  <2>20. DownTrue /\ InboxTrue /\ Queues'
    BY <1>0, <2>1, <2>d, <2>19, HeardTrue, SameQueues DEF Queues
  <2>21. \A b \in Attempt : WorkSteady(b)
    BY <1>0, LessWork
  <2>22. \A w \in work' \ work : Kind(w)
    BY <1>0
  <2> QED
    BY <2>7, <2>8, <2>9, <2>13, <2>14, <2>15, <2>16, <2>18, <2>19, <2>20, <2>21, <2>22, OneStep
<1> QED
  BY <1>1, <1>2

\* Accepted.
LEMMA AcceptedSame ==
  ASSUME LobbyInv, SameInv, LobbyInv', NEW a \in Attempt, Accepted(a)
  PROVE  SameInv'
<1>0. /\ mode' = mode /\ <<a, "accept">> \in work /\ work' = work \ {<<a, "accept">>}
      /\ work' \subseteq work /\ a[1] \in Player
  BY Attempts DEF Accepted, Done
<1>1. CASE ~Alive(a)
  <2>1. UNCHANGED <<room, sock, up, down, app, inbox, link, driver>>
    BY <1>1 DEF Accepted, roomVars, peerVars
  <2>2. \A q \in Player : Goes(q)
    BY <2>1, SamePage
  <2>3. Rooms' /\ InRoom' /\ Queues' /\ InboxTrue /\ UpTrue /\ DownTrue
    BY <1>0, <2>1, SilentQueues
  <2> QED
    BY <1>0, <2>1, <2>2, <2>3, LessWork, PagesSame
<1>2. CASE Alive(a) /\ ~CanSignal(a)
  <2>1. CloseNet(a[1])
    BY <1>2 DEF Accepted
  <2> QED
    BY <1>0, <2>1, NetCloses
<1>3. CASE Alive(a) /\ CanSignal(a)
  <2> DEFINE r == [app[a[1]] EXCEPT !.neg = a, !.net = a]
             e == [state |-> "connecting", mate |-> app[a[1]].peer, remote |-> TRUE]
  <2>0. app' = [app EXCEPT ![a[1]] = [@ EXCEPT !.neg = a, !.net = a]]
    BY <1>3 DEF Accepted
  <2>1. /\ HostFacts /\ OnceOf(a) /\ NegotiatedOf(a) /\ Pages /\ app[a[1]].at = a /\ Links
        /\ Drivers /\ Queues /\ Rooms /\ InRoom /\ mode \in {"friend", "ranked"} /\ Mates
        /\ Seeds
    BY <1>3, Hosts DEF SameInv, Once, Negotiated, LobbyInv, Shaped, Current, Alive
  <2>2. a \in Guests /\ mode = "friend"
    BY <1>0, OfKind DEF Hooks
  <2>3. /\ driver[a].state = "none" /\ Mate(a) = None /\ driver[a].seed = None
        /\ app[a[1]].peer \in HostAttempt /\ ~(a[2] > app[a[1]].tries) /\ app[a[1]].sdp
    BY <1>0, <2>1, <2>2, WasTried DEF OnceOf, NegotiatedOf, Current, Fresh, Hooks
  <2>4. /\ driver' = Hook(a) /\ link' = [link EXCEPT ![a] = e]
        /\ up' = Signalled(a, app[a[1]].peer, "answer")
        /\ UNCHANGED <<room, sock, down, inbox>>
    BY <1>3 DEF Accepted, OfferAccepted
  <2>5. app' = [app EXCEPT ![a[1]] = r]
    BY <1>0, <2>0, <2>1 DEF Pages
  <2>6. /\ r.at = app[a[1]].at /\ r.tries = app[a[1]].tries /\ r.sdp = app[a[1]].sdp
        /\ r.peer = app[a[1]].peer /\ r.neg = app[a[1]].at /\ r.net = a
        /\ r.record = app[a[1]].record
    BY <2>1 DEF Pages, PageField
  <2>7. DOMAIN e = LinkField /\ e.mate = app[a[1]].peer /\ e.state = "connecting"
    BY DEF LinkField
  <2> HIDE DEF r, e
  <2>8. Links' /\ link'[a] = e /\ \A b \in Attempt \ {a} : link'[b] = link[b]
    BY <2>1, <2>4, <2>7, LinkSet
  <2>9. /\ driver'[a].state = "handshake"
        /\ \A b \in Attempt : driver'[b].seed = driver[b].seed
        /\ \A b \in Attempt \ {a} : driver'[b] = driver[b] /\ DriverMoves(b)
        /\ \A b \in Attempt : driver[b].seed # None => driver'[b].token = driver[b].token
    BY <2>1, <2>3, <2>4, HookIsNew
  <2>10. \A q \in Player : Goes(q)
    BY <2>5, <2>6, <2>9, PageGoes
  <2>11. app'[a[1]] = r
    BY <1>0, <2>1, <2>5 DEF Pages
  <2>12. \A s \in Hooks : <<a, s>> \notin work'
    <3>1. \A s \in {"answer", "hook"} : <<a, s>> \notin work
      BY <2>1, <2>2, OfKind DEF HostFacts
    <3> QED
      BY <1>0, <3>1 DEF Hooks
  <2>13. Mate(a)' = app[a[1]].peer /\ Mate(a)' # None
    BY <2>1, <2>3, <2>7, <2>8 DEF Mate, HostFacts
  <2>14. OnceOf(a)'
    BY <1>0, <2>2, <2>3, <2>6, <2>9, <2>11, <2>12, <2>13 DEF OnceOf, Hooks
  <2>15. NegotiatedOf(a)'
    BY <2>12 DEF NegotiatedOf, Hooks
  <2>16. Kept
    BY <1>0, <2>3, <2>8, <2>9 DEF Kept, Mate
  <2>17. Mates'
    <3>1. ASSUME NEW h \in HostAttempt, Mate(h)' # None
          PROVE  Mate(h)' \in Guests /\ link'[Mate(h)'].mate = h
      <4>1. Mate(h)' = Mate(h) /\ h # a
        BY <2>1, <2>2, <2>8 DEF Mate, HostFacts
      <4>2. Mate(h) \in Guests /\ Mate(Mate(h)) = h
        BY <2>1, <3>1, <4>1 DEF Mates
      <4>3. Mate(h) # a
        BY <2>1, <2>3, <4>2 DEF HostFacts
      <4> QED
        BY <2>1, <2>8, <4>1, <4>2, <4>3 DEF Mate, HostFacts
    <3>2. ASSUME NEW g \in Guests, Mate(g)' # None
          PROVE  Mate(g)' \in HostAttempt
      BY <2>1, <2>3, <2>8, <2>13, <3>2 DEF Mates, Mate, HostFacts
    <3> QED
      BY <1>0, <2>2, <3>1, <3>2 DEF Mates, Mate
  <2>18. Seeds'
    BY <2>1, <2>9, <2>16, SeedsKept
  <2>19. UpTrue /\ DOMAIN up' = Attempt
    <3>1. PICK to : to = app[a[1]].peer
      OBVIOUS
    <3>2. up' = Signalled(a, to, "answer") /\ to \in HostAttempt /\ link'[a].mate = to
      BY <2>3, <2>4, <2>7, <2>8, <3>1
    <3> QED
      BY <2>1, <2>2, <3>2, SignalledTrue
  <2>20. InboxTrue /\ DownTrue /\ Queues'
    BY <2>1, <2>4, <2>19, SameQueues DEF Queues
  <2>21. SocketsKeep(sock')
    BY <2>4 DEF SocketsKeep
  <2>22. Rooms' /\ InRoom'
    BY <1>0, <2>1, <2>2, <2>4, <2>21, SameRooms
  <2>23. \A b \in Attempt \ {a} : LinkSteady(b)
    BY <2>8 DEF LinkSteady
  <2>24. \A b \in Attempt : WorkSteady(b)
    BY <1>0, LessWork
  <2>25. \A w \in work' \ work : Kind(w)
    BY <1>0
  <2> QED
    BY <2>8, <2>9, <2>10, <2>14, <2>15, <2>16, <2>17, <2>18, <2>19, <2>20, <2>22, <2>23, <2>24,
       <2>25, OneStep
<1> QED
  BY <1>1, <1>2, <1>3

\* Answered.
LEMMA AnsweredSame ==
  ASSUME LobbyInv, SameInv, LobbyInv', NEW a \in Attempt, Answered(a)
  PROVE  SameInv'
<1> DEFINE e == [link[a] EXCEPT !.mate = app[a[1]].peer, !.remote = TRUE]
<1>0. /\ UNCHANGED <<room, sock, up, down, mode, app, driver, inbox>>
      /\ <<a, "answer">> \in work
      /\ work' = (work \ {<<a, "answer">>}) \cup {<<a, "hook">>}
  BY DEF Answered, roomVars
<1>1. /\ HostFacts /\ OnceOf(a) /\ NegotiatedOf(a) /\ Links /\ Queues /\ Mates /\ Seeds
      /\ a[1] \in Player
  BY Hosts, Attempts DEF SameInv, Once, Negotiated
<1>2. a \in HostAttempt /\ mode = "friend"
  BY <1>0, OfKind DEF Hooks
<1>3. /\ driver[a].state = "none" /\ Mate(a) = None /\ driver[a].seed = None
      /\ ~(a[2] > app[a[1]].tries) /\ <<a, "hook">> \notin work
      /\ Current(a) => app[a[1]].sdp
  BY <1>0, <1>1, <1>2, WasTried DEF OnceOf, Fresh, Hooks
<1>4. link' = link \/ (link[a].state # "closed" /\ link' = [link EXCEPT ![a] = e])
  BY <1>1 DEF Answered, Links
<1>5. DOMAIN e = LinkField /\ e.mate = app[a[1]].peer /\ e.state = link[a].state
  BY <1>1 DEF Links, LinkField
<1>6. Links' /\ \A b \in Attempt \ {a} : link'[b] = link[b]
  BY <1>1, <1>4, <1>5, LinkSet DEF Links
<1>7. ASSUME link' # link
      PROVE  /\ link'[a].mate = app[a[1]].peer /\ app[a[1]].peer \in Guests
             /\ Mate(app[a[1]].peer) = a
  <2>1. link' = [link EXCEPT ![a] = e] /\ Current(a)
    BY <1>0, <1>1, <1>4, <1>7 DEF NegotiatedOf
  <2>2. link'[a] = e
    BY <1>1, <1>5, <2>1, LinkSet
  <2> QED
    BY <1>0, <1>1, <1>5, <2>1, <2>2 DEF NegotiatedOf
<1> HIDE DEF e
<1>8. /\ \A b, s : <<b, s>> = <<a, "hook">> => b = a /\ s = "hook"
      /\ \A b, s : <<b, s>> = <<a, "answer">> => b = a /\ s = "answer"
  OBVIOUS
<1>9. /\ <<a, "answer">> \notin work' /\ <<a, "accept">> \notin work'
      /\ <<a, "assigned">> \in work' => <<a, "assigned">> \in work
      /\ <<a, "join">> \in work' => <<a, "join">> \in work
  <2>1. <<a, "accept">> \notin work
    BY <1>1, <1>2, OfKind DEF HostFacts
  <2> QED
    BY <1>0, <1>8, <2>1
<1>10. Mate(a)' # None \/ link' = link
  BY <1>1, <1>7 DEF Mate, HostFacts
<1>11. OnceOf(a)'
  <2>1. link'[a].remote \/ link'[a].state = "open" => Mate(a)' # None
    BY <1>1, <1>10 DEF OnceOf, Mate
  <2> QED
    BY <1>0, <1>1, <1>2, <1>3, <1>9, <2>1 DEF OnceOf, Current
<1>12. NegotiatedOf(a)'
  BY <1>9 DEF NegotiatedOf
<1>13. Kept
  BY <1>0, <1>3, <1>6 DEF Kept, Mate
<1>14. Mates'
  <2>1. ASSUME NEW h \in HostAttempt, Mate(h)' # None
        PROVE  Mate(h)' \in Guests /\ link'[Mate(h)'].mate = h
    <3>1. ASSUME h = a
          PROVE  Mate(h)' \in Guests /\ link'[Mate(h)'].mate = h
      <4>1. link' # link
        BY <1>3, <2>1, <3>1 DEF Mate
      <4>2. Mate(h)' \in Guests /\ Mate(Mate(h)') = h
        BY <1>7, <3>1, <4>1 DEF Mate
      <4> QED
        BY <1>1, <1>2, <1>6, <4>2 DEF Mate, HostFacts
    <3>2. ASSUME h # a
          PROVE  Mate(h)' \in Guests /\ link'[Mate(h)'].mate = h
      <4>1. Mate(h)' = Mate(h)
        BY <1>1, <1>6, <3>2 DEF Mate, HostFacts
      <4>2. Mate(h) \in Guests /\ Mate(Mate(h)) = h
        BY <1>1, <2>1, <4>1 DEF Mates
      <4> QED
        BY <1>1, <1>2, <1>6, <4>1, <4>2 DEF Mate, HostFacts
    <3> QED
      BY <3>1, <3>2
  <2>2. ASSUME NEW g \in Guests, Mate(g)' # None
        PROVE  Mate(g)' \in HostAttempt
    BY <1>1, <1>2, <1>6, <2>2 DEF Mates, Mate, HostFacts
  <2> QED
    BY <1>0, <1>2, <2>1, <2>2 DEF Mates, Mate
<1>15. Seeds'
  BY <1>0, <1>1, <1>13, SeedsKept
<1>16. \A b \in Attempt \ {a} : LinkSteady(b) /\ DriverMoves(b) /\ WorkSteady(b)
  BY <1>0, <1>6, <1>8 DEF LinkSteady, DriverMoves, WorkSteady
<1>17. \A w \in work' \ work : Kind(w)
  <2>1. <<a, "hook">>[1] = a /\ <<a, "hook">>[2] = "hook"
    OBVIOUS
  <2>2. Kind(<<a, "hook">>)
    BY <1>1, <1>2, <2>1 DEF Kind, Hosting, HostFacts
  <2> QED
    BY <1>0, <2>2
<1>18. \A q \in Player : Goes(q)
  BY <1>0, SamePage
<1>19. SocketsKeep(sock') /\ mode \in {"friend", "ranked"} /\ Rooms /\ InRoom
  BY <1>0, <1>2 DEF SocketsKeep, SameInv
<1>20. Rooms' /\ InRoom'
  BY <1>0, <1>2, <1>19, SameRooms
<1>21. Queues' /\ InboxTrue /\ UpTrue /\ DownTrue
  BY <1>0, <1>1, SameQueues DEF Queues
<1> QED
  BY <1>6, <1>11, <1>12, <1>13, <1>14, <1>15, <1>16, <1>17, <1>18, <1>20, <1>21, OneStep

\* Hooked.
LEMMA HookedSame ==
  ASSUME LobbyInv, SameInv, LobbyInv', NEW a \in Attempt, Hooked(a)
  PROVE  SameInv'
<1>0. /\ UNCHANGED <<room, sock, up, down, mode, link, inbox>>
      /\ <<a, "hook">> \in work /\ work' = work \ {<<a, "hook">>} /\ work' \subseteq work
      /\ a[1] \in Player
  BY Attempts DEF Hooked, Done, roomVars
<1>1. Rooms' /\ InRoom' /\ Queues' /\ InboxTrue /\ UpTrue /\ DownTrue
  BY <1>0, SilentQueues
<1>2. CASE ~Alive(a)
  <2>1. UNCHANGED <<app, driver>>
    BY <1>2 DEF Hooked
  <2>2. \A q \in Player : Goes(q)
    BY <2>1, SamePage
  <2> QED
    BY <1>0, <1>1, <2>1, <2>2, LessWork, PagesSame
<1>3. CASE Alive(a)
  <2> DEFINE r == [app[a[1]] EXCEPT !.net = a]
  <2>1. /\ HostFacts /\ OnceOf(a) /\ Pages /\ app[a[1]].at = a /\ Links
        /\ Drivers /\ Mates /\ Seeds /\ Current(a)
    BY <1>3, Hosts DEF SameInv, Once, LobbyInv, Shaped, Current, Alive
  <2>2. a \in HostAttempt /\ mode = "friend"
    BY <1>0, OfKind DEF Hooks
  <2>3. /\ driver[a].state = "none" /\ driver[a].seed = None
        /\ ~(a[2] > app[a[1]].tries) /\ app[a[1]].sdp
    BY <1>0, <2>1, <2>2, WasTried DEF OnceOf, Fresh, Hooks
  <2>4. app' = Set(a, "net", a) /\ driver' = Hook(a)
    BY <1>3 DEF Hooked
  <2>5. app' = [app EXCEPT ![a[1]] = r]
    BY <1>0, <2>1, <2>4 DEF Pages, Set
  <2>6. /\ r.at = app[a[1]].at /\ r.tries = app[a[1]].tries /\ r.sdp = app[a[1]].sdp
        /\ r.peer = app[a[1]].peer /\ r.neg = app[a[1]].neg /\ r.net = a
        /\ r.record = app[a[1]].record
    BY <1>0, <2>1 DEF Pages, PageField
  <2> HIDE DEF r
  <2>7. /\ driver'[a].state = "handshake"
        /\ \A b \in Attempt : driver'[b].seed = driver[b].seed
        /\ \A b \in Attempt \ {a} : driver'[b] = driver[b] /\ DriverMoves(b)
        /\ \A b \in Attempt : driver[b].seed # None => driver'[b].token = driver[b].token
    BY <2>1, <2>3, <2>4, HookIsNew
  <2>8. \A q \in Player : Goes(q)
    BY <2>5, <2>6, <2>7, PageGoes
  <2>9. app'[a[1]] = r
    BY <1>0, <2>1, <2>5 DEF Pages
  <2>10. \A s \in Hooks : <<a, s>> \notin work'
    <3>1. <<a, "accept">> \notin work
      BY <2>1, <2>2, OfKind DEF HostFacts
    <3>2. <<a, "answer">> \notin work
      BY <1>0, <2>1 DEF OnceOf
    <3> QED
      BY <1>0, <3>1, <3>2 DEF Hooks
  <2>11. OnceOf(a)'
    BY <1>0, <2>1, <2>2, <2>3, <2>6, <2>7, <2>9, <2>10 DEF OnceOf, Hooks, Mate
  <2>12. NegotiatedOf(a)'
    BY <2>10 DEF NegotiatedOf, Hooks
  <2>13. Kept
    BY <1>0, <2>7 DEF Kept
  <2>14. Links' /\ \A b \in Attempt : LinkSteady(b)
    BY <1>0, <2>1, SameLinks
  <2>15. Mates' /\ Seeds'
    BY <1>0, <2>1, <2>7, <2>13, MatesKept, SeedsKept
  <2>16. (\A b \in Attempt : WorkSteady(b)) /\ \A w \in work' \ work : Kind(w)
    BY <1>0, LessWork
  <2> QED
    BY <1>1, <2>7, <2>8, <2>11, <2>12, <2>13, <2>14, <2>15, <2>16, OneStep
<1> QED
  BY <1>2, <1>3

\* The session of an attempt begins.
LEMMA BegunOnce ==
  ASSUME Drivers, NEW a \in Attempt, NEW seed, seed # None, driver[a].state = "handshake",
         driver' = Begun(a, seed)
  PROVE  /\ \A b \in Attempt : DriverMoves(b)
         /\ driver'[a].seed = seed /\ driver'[a].token = driver[a].token
         /\ \A b \in Attempt \ {a} : driver'[b] = driver[b]
<1> DEFINE d == [driver[a] EXCEPT !.state = "playing", !.seed = seed]
<1>1. driver' = [driver EXCEPT ![a] = d]
  BY DEF Begun, Drivers
<1>2. /\ DOMAIN d = DriverField /\ d.state = "playing" /\ d.seed = seed
      /\ d.token = driver[a].token
  BY DEF Drivers, DriverField
<1> HIDE DEF d
<1>3. driver'[a] = d /\ \A b \in Attempt \ {a} : driver'[b] = driver[b]
  BY <1>1, <1>2, DriverSet
<1> QED
  BY <1>2, <1>3 DEF DriverMoves

\* A step in which a session begins.
LEMMA BegunStep ==
  ASSUME LobbyInv, SameInv, LobbyInv', UNCHANGED <<room, sock, link, mode>>,
         Queues', InboxTrue, UpTrue, DownTrue, Seeds', Kept,
         \A q \in Player : Goes(q), \A b \in Attempt : DriverMoves(b) /\ WorkSteady(b),
         \A w \in work' \ work : Kind(w)
  PROVE  SameInv'
<1>1. Links' /\ \A b \in Attempt : LinkSteady(b)
  BY SameLinks DEF SameInv
<1>2. SocketsKeep(sock') /\ mode \in {"friend", "ranked"}
  BY DEF SocketsKeep, LobbyInv, Shaped
<1>3. Rooms' /\ InRoom'
  BY <1>2, SameRooms DEF SameInv
<1>4. Mates'
  BY MatesKept DEF SameInv
<1> DEFINE X == {}
<1>5. /\ \A b \in Attempt \ X : LinkSteady(b) /\ DriverMoves(b) /\ WorkSteady(b)
      /\ \A b \in X : OnceOf(b)' /\ NegotiatedOf(b)'
  BY <1>1
<1> HIDE DEF X
<1> QED
  BY <1>1, <1>3, <1>4, <1>5, OnceStep

\* HelloComes.
LEMMA HelloComesSame ==
  ASSUME LobbyInv, SameInv, LobbyInv', NEW a \in Attempt, HelloComes(a)
  PROVE  SameInv'
<1>0. /\ mode' = mode /\ a[1] \in Player /\ HostFacts /\ OnceOf(a) /\ Hosting(a)
      /\ driver[a].state = "handshake" /\ Arriving(a)
  BY Hosts, Attempts DEF HelloComes, Hears, SameInv, Once
<1>1. CASE Mismatch(a)
  <2>1. CloseNet(a[1]) /\ work' \subseteq work
    BY <1>1 DEF HelloComes
  <2> QED
    BY <1>0, <2>1, NetCloses
<1>2. CASE ~Mismatch(a)
  <2> DEFINE seed == <<a, Mate(a)>>
             w == Welcome(a, seed)
  <2>1. /\ driver' = Begun(a, seed) /\ Exchange(a, <<w>>) /\ app' = Page(a, "netready")
        /\ work' = work \cup Asked(a) /\ UNCHANGED <<room, sock, link>>
    BY <1>2 DEF HelloComes
  <2>2. /\ mode \in {"friend", "ranked"} /\ Queues /\ Drivers /\ Mates /\ Seeds
        /\ mode = "ranked" => Mate(a) \in Attempt
    BY <1>0, HearerCurrent DEF SameInv
  <2>3. Mate(a) # None /\ Mate(a) \in Attempt /\ a \in HostAttempt
    <3>1. mode = "friend" => Mate(a) # None
      BY <1>0 DEF OnceOf, Arriving
    <3>2. Mate(a) # None
      BY <1>0, <2>2, <3>1 DEF HostFacts
    <3> QED
      BY <1>0, <2>2, <3>2 DEF Mates, HostFacts, Hosting
  <2>4. PICK b \in Attempt : b = Mate(a)
    BY <2>3
  <2>5. seed = <<a, b>> /\ seed # None /\ driver[a].seed = None
    BY <1>0, <2>4 DEF HostFacts, OnceOf
  <2>6. Exchange(a, <<w>>) /\ w = Welcome(a, seed)
    BY <2>1
  <2> HIDE DEF w, seed
  <2>7. /\ \A c \in Attempt : DriverMoves(c)
        /\ driver'[a].seed = seed /\ driver'[a].token = driver[a].token
        /\ \A c \in Attempt \ {a} : driver'[c] = driver[c]
    BY <1>0, <2>1, <2>2, <2>5, BegunOnce
  <2>8. link'[a].mate = b
    BY <2>1, <2>4 DEF Mate
  <2>9. FairTo(b, {w})
    <3>1. FairTo(b, {Welcome(a, seed)})
      BY <2>3, <2>5, <2>7, <2>8, WelcomeFair
    <3> QED
      BY <2>6, <3>1
  <2>10. <<w>> \in Seq({w}) /\ \A c \in Attempt : c = Mate(a) => FairTo(c, {w})
    BY <2>4, <2>9
  <2>11. InboxTrue /\ UpTrue /\ DownTrue /\ Queues'
    BY <1>0, <2>1, <2>2, <2>6, <2>10, ExchangeTrue
  <2>12. Kept
    BY <1>0, <2>1, <2>5, <2>7 DEF Kept
  <2>13. Seeds'
    <3>1. ASSUME NEW h \in HostAttempt, driver'[h].seed # None
          PROVE  link'[h].mate # None /\ driver'[h].seed = <<h, link'[h].mate>>
      <4>1. CASE h = a
        BY <1>0, <2>4, <2>5, <2>7, <2>8, <4>1 DEF HostFacts
      <4>2. CASE h # a
        <5>1. driver'[h] = driver[h] /\ link'[h] = link[h]
          BY <1>0, <2>1, <2>7, <4>2 DEF HostFacts
        <5> QED
          BY <2>2, <3>1, <5>1 DEF Seeds, Mate
      <4> QED
        BY <4>1, <4>2
    <3>2. ASSUME NEW g \in Guests, driver'[g].seed # None
          PROVE  \E h \in HostAttempt : /\ Dealt(h, g)' /\ driver'[g].seed = <<h, g>>
                                        /\ driver'[h].token = driver'[g].token
      <4>1. driver'[g] = driver[g]
        BY <1>0, <2>3, <2>7 DEF HostFacts
      <4>2. PICK h \in HostAttempt : /\ Dealt(h, g) /\ driver[g].seed = <<h, g>>
                                     /\ driver[h].token = driver[g].token
        BY <2>2, <3>2, <4>1 DEF Seeds
      <4>3. h # a
        BY <1>0, <2>5, <4>2 DEF Dealt, HostFacts
      <4>4. driver'[h] = driver[h] /\ link'[h] = link[h]
        BY <1>0, <2>1, <2>7, <4>3 DEF HostFacts
      <4> QED
        BY <4>1, <4>2, <4>4 DEF Dealt, Mate
    <3> QED
      BY <3>1, <3>2 DEF Seeds, Mate
  <2>14. \A q \in Player : Goes(q)
    BY <2>1, ScreenGoes
  <2>15. (\A c \in Attempt : WorkSteady(c)) /\ \A v \in work' \ work : Kind(v)
    BY <2>1, AskedWork
  <2> QED
    BY <1>0, <2>1, <2>7, <2>11, <2>12, <2>13, <2>14, <2>15, BegunStep
<1> QED
  BY <1>1, <1>2

\* WelcomeComes.
LEMMA WelcomeComesSame ==
  ASSUME LobbyInv, SameInv, LobbyInv', NEW a \in Attempt, WelcomeComes(a)
  PROVE  SameInv'
<1>0. /\ UNCHANGED <<mode, work>> /\ a[1] \in Player /\ HostFacts /\ OnceOf(a) /\ ~Hosting(a)
      /\ driver[a].state = "handshake" /\ Arriving(a) /\ Foremost(a).t = "welcome"
  BY Hosts, Attempts DEF WelcomeComes, Hears, SameInv, Once
<1>1. CASE Mismatch(a)
  <2>1. CloseNet(a[1])
    BY <1>1 DEF WelcomeComes
  <2> QED
    BY <1>0, <2>1, NetCloses
<1>2. CASE ~Mismatch(a)
  <2> DEFINE seed == Foremost(a).seed
             w == Control("profile")
  <2>1. /\ driver' = Begun(a, seed) /\ Exchange(a, <<w>>) /\ app' = Page(a, "netready")
        /\ UNCHANGED <<room, sock, link>>
    BY <1>2 DEF WelcomeComes
  <2>2. /\ mode \in {"friend", "ranked"} /\ Queues /\ Drivers /\ Seeds
        /\ mode = "ranked" => Mate(a) \in Attempt
    BY <1>0, HearerCurrent DEF SameInv
  <2>3. a \in Guests
    BY <1>0 DEF Hosting, HostFacts
  <2>4. PICK k \in HostAttempt : Dealt(k, a) /\ seed = <<k, a>> /\ driver[k].token = driver[a].token
    <3>1. Fair(a, Foremost(a))
      BY <1>0, ForemostFair
    <3> QED
      BY <1>0, <1>2, <3>1 DEF Fair, Mismatch
  <2>5. seed # None /\ driver[a].seed = None /\ k # a
    BY <1>0, <2>3, <2>4 DEF HostFacts, OnceOf
  <2>6. \A b : FairTo(b, {w})
    BY DEF FairTo, Fair, Control
  <2> HIDE DEF w, seed
  <2>7. /\ \A c \in Attempt : DriverMoves(c)
        /\ driver'[a].seed = seed /\ driver'[a].token = driver[a].token
        /\ \A c \in Attempt \ {a} : driver'[c] = driver[c]
    BY <1>0, <2>1, <2>2, <2>5, BegunOnce
  <2>8. <<w>> \in Seq({w})
    OBVIOUS
  <2>9. InboxTrue /\ UpTrue /\ DownTrue /\ Queues'
    BY <1>0, <2>1, <2>2, <2>6, <2>8, ExchangeTrue
  <2>10. Kept
    BY <1>0, <2>1, <2>5, <2>7 DEF Kept
  <2>11. \A h \in HostAttempt : driver'[h] = driver[h] /\ link'[h] = link[h]
    BY <1>0, <2>1, <2>3, <2>7 DEF HostFacts
  <2>12. Seeds'
    <3>1. ASSUME NEW h \in HostAttempt, driver'[h].seed # None
          PROVE  link'[h].mate # None /\ driver'[h].seed = <<h, link'[h].mate>>
      BY <2>2, <2>11, <3>1 DEF Seeds, Mate
    <3>2. ASSUME NEW g \in Guests, driver'[g].seed # None
          PROVE  \E h \in HostAttempt : /\ Dealt(h, g)' /\ driver'[g].seed = <<h, g>>
                                        /\ driver'[h].token = driver'[g].token
      <4>1. CASE g = a
        BY <2>4, <2>7, <2>11, <4>1 DEF Dealt, Mate
      <4>2. CASE g # a
        <5>1. driver'[g] = driver[g]
          BY <1>0, <2>7, <4>2 DEF HostFacts
        <5> QED
          BY <2>2, <2>11, <3>2, <5>1 DEF Seeds, Dealt, Mate
      <4> QED
        BY <4>1, <4>2
    <3> QED
      BY <3>1, <3>2 DEF Seeds, Mate
  <2>13. \A q \in Player : Goes(q)
    BY <2>1, ScreenGoes
  <2>14. (\A c \in Attempt : WorkSteady(c)) /\ \A v \in work' \ work : Kind(v)
    BY <1>0, LessWork
  <2> QED
    BY <1>0, <2>1, <2>7, <2>9, <2>10, <2>12, <2>13, <2>14, BegunStep
<1> QED
  BY <1>1, <1>2

\* Two links that are matched.
LEMMA LinksMatched ==
  ASSUME Links, NEW h \in Attempt, NEW g \in Attempt, h # g,
         link' = [link EXCEPT ![h].mate = g, ![g].mate = h]
  PROVE  /\ Links' /\ link'[h].mate = g /\ link'[g].mate = h
         /\ \A b \in Attempt \ {h, g} : link'[b] = link[b]
<1> DEFINE r == [link[h] EXCEPT !.mate = g]
           q == [link[g] EXCEPT !.mate = h]
<1>1. link' = [link EXCEPT ![h] = r, ![g] = q]
  BY DEF Links
<1>2. DOMAIN r = LinkField /\ DOMAIN q = LinkField /\ r.mate = g /\ q.mate = h
  BY DEF Links, LinkField
<1> HIDE DEF r, q
<1>3. /\ DOMAIN link' = Attempt /\ link'[h] = r /\ link'[g] = q
      /\ \A b \in Attempt \ {h, g} : link'[b] = link[b]
  BY <1>1 DEF Links
<1> QED
  BY <1>2, <1>3 DEF Links

\* Pair.
LEMMA PairSame ==
  ASSUME LobbyInv, SameInv, LobbyInv', Pair
  PROVE  SameInv'
<1> DEFINE h == <<Host, app[Host].tries + 1>>
           g == <<Guest, app[Guest].tries + 1>>
           New == {<<h, "assigned">>, <<g, "assigned">>}
           r == [status |-> "open", members |-> <<h>>, roster |-> {h, g}, sessions |-> <<>>]
<1>0. /\ mode = "ranked" /\ mode' = mode /\ h \in Attempt /\ g \in Attempt
      /\ app' = [p \in Player |-> [app[p] EXCEPT !.tries = app[p].tries + 1]]
      /\ work' = work \cup New
      /\ link' = [link EXCEPT ![h].mate = g, ![g].mate = h]
      /\ room' = [room EXCEPT ![h] = r]
      /\ UNCHANGED <<sock, up, down, driver, inbox>>
  BY DEF Pair, CreateRoom
<1>1. /\ Pages /\ Links /\ Rooms /\ Queues /\ Mates /\ Seeds /\ InRoom /\ HostFacts
      /\ \A p \in Player : app[p].tries \in Nat
      /\ \A b \in Attempt : b[1] \in Player /\ OnceOf(b)
      /\ Code = HostAttempt
  BY Hosts, Attempts, LobbyAssumption DEF SameInv, Once, LobbyInv, Shaped, Own
<1>2. \A p \in Player :
        /\ app'[p].tries = app[p].tries + 1 /\ app'[p].at = app[p].at
        /\ app'[p].sdp = app[p].sdp /\ app'[p].peer = app[p].peer
        /\ app'[p].net = app[p].net /\ app'[p].neg = app[p].neg
        /\ app'[p].record = app[p].record
  BY <1>0, <1>1 DEF Pages, PageField
<1>3. /\ h[1] = Host /\ h[2] = app[Host].tries + 1 /\ Host \in Player
      /\ g[1] = Guest /\ g[2] = app[Guest].tries + 1 /\ Guest \in Player
      /\ \A w \in New : w[1] \in {h, g} /\ w[2] = "assigned"
      /\ \A b, s : <<b, s>> \in New => b \in {h, g} /\ s = "assigned"
  BY DEF Player
<1>4. DOMAIN r = RoomField /\ r.sessions = <<>>
  BY DEF RoomField
<1> HIDE DEF h, g, New, r
<1>5. h \in HostAttempt /\ g \in Guests /\ h # g
  BY <1>0, <1>1, <1>3, LobbyAssumption DEF HostFacts
<1>6. Fresh(h) /\ Fresh(g)
  <2>1. app[Host].tries \in Nat /\ app[Guest].tries \in Nat /\ OnceOf(h) /\ OnceOf(g)
    BY <1>0, <1>1, <1>3
  <2>2. h[2] > app[h[1]].tries /\ g[2] > app[g[1]].tries
    BY <1>3, <2>1
  <2> QED
    BY <2>1, <2>2 DEF OnceOf
<1>7. /\ Links' /\ link'[h].mate = g /\ link'[g].mate = h
      /\ \A b \in Attempt \ {h, g} : link'[b] = link[b]
  BY <1>0, <1>1, <1>5, LinksMatched
<1>8. Mate(h) = None /\ Mate(g) = None /\ driver[h].state = "none" /\ driver[g].state = "none"
  BY <1>6 DEF Fresh
<1>9. Kept
  BY <1>0, <1>7, <1>8 DEF Kept, Mate
<1>10. Mates'
  <2>1. ASSUME NEW k \in HostAttempt, link'[k].mate # None
        PROVE  link'[k].mate \in Guests /\ link'[link'[k].mate].mate = k
    <3>1. CASE k = h
      BY <1>5, <1>7, <3>1
    <3>2. CASE k # h
      <4>1. link'[k] = link[k]
        BY <1>1, <1>5, <1>7, <3>2 DEF HostFacts
      <4>2. Mate(k) \in Guests /\ Mate(Mate(k)) = k
        BY <1>1, <2>1, <4>1 DEF Mates, Mate
      <4>3. Mate(k) \notin {h, g}
        BY <1>1, <1>8, <4>2 DEF HostFacts
      <4> QED
        BY <1>1, <1>7, <4>1, <4>2, <4>3 DEF Mate, HostFacts
    <3> QED
      BY <3>1, <3>2
  <2>2. ASSUME NEW k \in Guests, link'[k].mate # None
        PROVE  link'[k].mate \in HostAttempt /\ link'[link'[k].mate].mate = k
    <3>1. CASE k = g
      BY <1>5, <1>7, <3>1
    <3>2. CASE k # g
      <4>1. link'[k] = link[k]
        BY <1>1, <1>5, <1>7, <3>2 DEF HostFacts
      <4>2. Mate(k) \in HostAttempt /\ Mate(Mate(k)) = k
        BY <1>0, <1>1, <2>2, <4>1 DEF Mates, Mate
      <4>3. Mate(k) \notin {h, g}
        BY <1>1, <1>8, <4>2 DEF HostFacts
      <4> QED
        BY <1>1, <1>7, <4>1, <4>2, <4>3 DEF Mate, HostFacts
    <3> QED
      BY <3>1, <3>2
  <2> QED
    BY <2>1, <2>2 DEF Mates, Mate
<1>11. Seeds'
  BY <1>0, <1>1, <1>9, SeedsKept
<1>12. Rooms'
  BY <1>0, <1>1, <1>4 DEF Rooms
<1>13. InRoom'
  <2>1. ASSUME NEW c \in Code
        PROVE  room'[c].sessions \in Seq(SocketsIn(c))
    <3>1. room'[c].sessions = <<>> \/ room'[c] = room[c]
      BY <1>0, <1>1, <1>4 DEF Rooms
    <3>2. room[c].sessions \in Seq(SocketsIn(c))
      BY <1>1 DEF InRoom
    <3>3. <<>> \in Seq(SocketsIn(c))
      OBVIOUS
    <3> QED
      BY <3>1, <3>2, <3>3
  <2>2. ASSUME NEW s \in Attempt, sock[s].phase # "idle"
        PROVE  /\ sock[s].code \in Code /\ link'[s] = link[s] /\ Mate(s) # None
               /\ sock[s].code = RoomOf(s)
    <3>1. sock[s].code \in Code /\ Mate(s) # None /\ sock[s].code = RoomOf(s)
      BY <1>0, <1>1, <2>2 DEF InRoom
    <3> QED
      BY <1>7, <1>8, <3>1
  <2> QED
    BY <1>0, <2>1, <2>2 DEF InRoom, SocketsIn, RoomOf, Hosting, Mate
<1>14. Queues' /\ InboxTrue /\ UpTrue /\ DownTrue
  BY <1>0, <1>1, SameQueues DEF Queues
<1>15. \A q \in Player : Goes(q)
  BY <1>1, <1>2 DEF Goes
<1>16. ASSUME NEW b \in {h, g}
       PROVE  OnceOf(b)' /\ NegotiatedOf(b)'
  <2>1. /\ b \in Attempt /\ app'[b[1]].tries = b[2] /\ b[2] \in Nat /\ link'[b].mate # None
        /\ Fresh(b) /\ app'[b[1]].net = app[b[1]].net /\ OnceOf(b)
    <3>1. app[Host].tries + 1 \in Nat /\ app[Guest].tries + 1 \in Nat
      BY <1>1, <1>3
    <3>2. CASE b = h
      BY <1>0, <1>1, <1>2, <1>3, <1>5, <1>6, <1>7, <3>1, <3>2 DEF HostFacts
    <3>3. CASE b = g
      BY <1>0, <1>1, <1>2, <1>3, <1>5, <1>6, <1>7, <3>1, <3>3 DEF HostFacts
    <3> QED
      BY <3>2, <3>3
  <2>2. \A s \in Hooks : <<b, s>> \notin work'
    BY <1>0, <1>3, <2>1 DEF Fresh, Hooks
  <2>3. driver[b].state = "none" /\ driver' = driver /\ mode' = "ranked"
    BY <1>0, <2>1 DEF Fresh
  <2>4. OnceOf(b)'
    BY <2>1, <2>2, <2>3 DEF OnceOf, Hooks, Mate
  <2>5. NegotiatedOf(b)'
    BY <2>2 DEF NegotiatedOf, Hooks
  <2> QED
    BY <2>4, <2>5
<1>17. \A b \in Attempt \ {h, g} : LinkSteady(b) /\ DriverMoves(b) /\ WorkSteady(b)
  BY <1>0, <1>3, <1>7 DEF LinkSteady, DriverMoves, WorkSteady, Hooks
<1>18. \A w \in work' \ work : Kind(w)
  BY <1>0, <1>3 DEF Kind, Hooks
<1> DEFINE X == {h, g}
<1>19. /\ \A b \in Attempt \ X : LinkSteady(b) /\ DriverMoves(b) /\ WorkSteady(b)
       /\ \A b \in X : OnceOf(b)' /\ NegotiatedOf(b)'
  BY <1>16, <1>17
<1> HIDE DEF X
<1> QED
  BY <1>7, <1>9, <1>10, <1>11, <1>12, <1>13, <1>14, <1>15, <1>18, <1>19, OnceStep

-----------------------------------------------------------------------------
\* The codes that were shown are those of hosts.
LEMMA ShownStep ==
  ASSUME shown \subseteq Code, [Next]_vars
  PROVE  shown' \subseteq Code
<1>1. \A a \in Attempt : Hosting(a) => a \in Code
  BY LobbyAssumption DEF Hosting, HostAttempt
<1>2. ASSUME NEW a \in Attempt, Joined(a)
      PROVE  shown' \subseteq Code
  BY <1>1, <1>2 DEF Joined
<1>3. ASSUME NEW p \in Player, Start(p) \/ Ready(p) \/ Leave(p)
      PROVE  shown' = shown
  BY <1>3 DEF Start, Ready, Leave
<1>4. Pair => shown' = shown
  BY DEF Pair
<1>5. ASSUME NEW a \in Attempt, Continues(a)
      PROVE  shown' = shown
  BY <1>5 DEF Continues, Assigned, Connected, Connecting, Created, StartFails, OfferMade,
       Accepted, Answered,
     Hooked, RecordMade, RecordFails
<1>6. ASSUME NEW a \in Attempt, Takes(a)
      PROVE  shown' = shown \/ Joined(a)
  BY <1>6 DEF Takes, RelayOpens, PeerJoined, PeerLeft, IceComes, OfferComes, AnswerComes, Ignored
<1>7. ASSUME NEW a \in Attempt, Listens(a)
      PROVE  shown' = shown
  BY <1>7 DEF Listens, HelloComes, HelloAgain, WelcomeComes, ProfileComes, RecordComes, ReadyComes,
     QuitComes, Unheard
<1>8. ASSUME NEW a \in Attempt,
             \/ IceGathered(a) \/ Opens(a) \/ LinkCloses(a) \/ RelayCloses(a)
             \/ SocketBreaks(a) \/ HelloRetried(a) \/ HandshakeTimesOut(a)
      PROVE  shown' = shown
  BY <1>8 DEF IceGathered, Opens, LinkCloses, RelayCloses, SocketBreaks, HelloRetried,
     HandshakeTimesOut
<1>9. RoomActs \/ RoomExpires => shown' = shown
  BY DEF RoomActs, RoomExpires
<1>10. UNCHANGED vars => shown' = shown
  BY DEF vars
<1> QED
  BY <1>2, <1>3, <1>4, <1>5, <1>6, <1>7, <1>8, <1>9, <1>10 DEF Next

\* The initial state satisfies the invariant.
LEMMA SameInit == Init => SameInv /\ shown \subseteq Code
<1> SUFFICES ASSUME Init
             PROVE  SameInv /\ shown \subseteq Code
  OBVIOUS
<1>0. HostFacts /\ Socket = Attempt
  BY Hosts, LobbyAssumption
<1>1. /\ app = [p \in Player |-> Idle] /\ work = {} /\ shown = {}
      /\ link = [a \in Attempt |-> NoLink] /\ driver = [a \in Attempt |-> NoDriver]
      /\ inbox = [a \in Attempt |-> <<>>] /\ up = [a \in Attempt |-> <<>>]
      /\ down = [a \in Attempt |-> <<>>] /\ room = [c \in Code |-> NoRoom]
      /\ sock = [a \in Attempt |-> [phase |-> "idle", code |-> None]]
  BY <1>0 DEF Init, RoomInit
<1>2. Links /\ Rooms /\ Queues
  BY <1>1 DEF Links, Rooms, Queues, NoLink, NoRoom, LinkField, RoomField
<1>3. Kinds /\ Negotiated
  BY <1>1 DEF Kinds, Negotiated, NegotiatedOf
<1>4. \A a \in Attempt : /\ link[a].state = "none" /\ link[a].mate = None /\ ~link[a].remote
                         /\ driver[a].state = "none" /\ driver[a].seed = None
  BY <1>1 DEF NoLink, NoDriver
<1>5. \A p \in Player : app[p].net = None /\ app[p].record = None
  BY <1>1 DEF Idle
<1>6. Once
  BY <1>0, <1>1, <1>4, <1>5, Attempts DEF Once, OnceOf, Fresh, Mate, HostFacts
<1>7. Mates /\ Seeds /\ Recorded
  BY <1>0, <1>4, <1>5 DEF Mates, Seeds, Recorded, Mate, HostFacts
<1>8. InRoom
  <2>1. \A c \in Code : room[c].sessions = <<>>
    BY <1>1 DEF NoRoom
  <2>2. \A c : <<>> \in Seq(SocketsIn(c))
    OBVIOUS
  <2>3. \A s \in Attempt : sock[s].phase = "idle"
    BY <1>1
  <2> QED
    BY <2>1, <2>2, <2>3 DEF InRoom
<1>9. Words
  <2>1. PICK S : S = {}
    OBVIOUS
  <2>2. <<>> \in Seq(S)
    OBVIOUS
  <2>3. \A a \in Attempt : inbox[a] = <<>> /\ up[a] = <<>> /\ down[a] = <<>>
    BY <1>1
  <2>4. ASSUME NEW a \in Attempt
        PROVE  /\ inbox[a] \in Seq(S) /\ \A m \in S : Fair(a, m)
               /\ up[a] \in Seq(S) /\ \A m \in S : TrueSaid(a, m)
               /\ down[a] \in Seq(S) /\ \A m \in S : TrueHeard(a, m)
    BY <2>1, <2>2, <2>3
  <2> QED
    BY <2>4 DEF Words
<1> QED
  BY <1>1, <1>2, <1>3, <1>6, <1>7, <1>8, <1>9 DEF SameInv

\* Every step preserves it.
LEMMA SameNext ==
  ASSUME LobbyInv, LobbyInv', SameInv, shown \subseteq Code, [Next]_vars
  PROVE  SameInv'
<1>1. ASSUME NEW p \in Player, Start(p) \/ Ready(p) \/ Leave(p)
      PROVE  SameInv'
  BY <1>1, StartSame, ReadySame, LeaveSame
<1>2. ASSUME NEW a \in Attempt, Continues(a)
      PROVE  SameInv'
  BY <1>2, AssignedSame, ConnectedSame, CreatedSame, StartFailsSame, OfferMadeSame, AcceptedSame,
     AnsweredSame, HookedSame, RecordMadeSame, RecordFailsSame DEF Continues
<1>3. ASSUME NEW a \in Attempt, Takes(a)
      PROVE  SameInv'
  BY <1>3, JoinedSame, RelayOpensSame, PeerJoinedSame, AwaySame, IceSame, OfferComesSame,
     AnswerComesSame DEF Takes
<1>4. ASSUME NEW a \in Attempt, Listens(a)
      PROVE  SameInv'
  BY <1>4, HelloComesSame, HelloAgainSame, WelcomeComesSame, ProfileSame, RecordComesSame,
     ReadyComesSame, AwaySame, UnheardSame DEF Listens
<1>5. ASSUME NEW a \in Attempt,
             \/ IceGathered(a) \/ Opens(a) \/ LinkCloses(a) \/ RelayCloses(a)
             \/ SocketBreaks(a) \/ HelloRetried(a) \/ HandshakeTimesOut(a)
      PROVE  SameInv'
  BY <1>5, IceSame, OpensSame, LinkClosesSame, AwaySame, SocketBreaksSame, HelloRetriedSame
<1>6. CASE UNCHANGED vars
  <2>1. UNCHANGED <<app, work, link, driver, mode, room, sock, up, down, inbox>>
    BY <1>6 DEF vars, roomVars, peerVars
  <2>2. Rooms' /\ InRoom' /\ Queues' /\ InboxTrue /\ UpTrue /\ DownTrue
    BY <2>1, SilentQueues
  <2> QED
    BY <2>1, <2>2, QuietSame
<1> QED
  BY <1>1, <1>2, <1>3, <1>4, <1>5, <1>6, PairSame, RoomActsSame DEF Next

\* Both sides play, and will report, the same match, however often the players try and
\* whatever fails: the same seed under the same token, once both play, and the record of
\* the match that is played (hello, welcome and cityMatch of driver.ts and main.ts).
THEOREM SameMatchHolds == Spec => []SameMatch
<1>1. SameInv /\ shown \subseteq Code /\ LobbyInv /\ LobbyInv' /\ [Next]_vars
        => (SameInv /\ shown \subseteq Code)'
  BY SameNext, ShownStep
<1> QED
  BY <1>1, SameInit, LobbyInvariant, SameMatchFollows, PTL DEF Spec
=============================================================================
