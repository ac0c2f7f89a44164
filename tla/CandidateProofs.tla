-------------------------- MODULE CandidateProofs ---------------------------
(***************************************************************************)
(* Proof that the lobby loses no ICE candidate, for any number of attempts *)
(* and of faults.                                                          *)
(*                                                                         *)
(* A candidate is sent before or after the offer or the answer, and comes  *)
(* before or after there is a transport, or a remote description, to apply *)
(* it to.  The invariant says where the candidate of each attempt can be,  *)
(* by how far its peer has come, and that whatever is sent by an attempt   *)
(* that is still current is for the peer that has it.                      *)
(***************************************************************************)
EXTENDS LobbyProofs

Opened(a) == sock[a].phase # "idle"
Past(a) == sock[a].phase \notin {"idle", "opening"}
PeerOf(a) == app[a[1]].peer
Neg(a) == app[a[1]].neg
Together(s, o) == Opened(s) /\ Opened(o) /\ sock[o].code = sock[s].code
OpenedIn(c) == {s \in Attempt : Opened(s) /\ sock[s].code = c}

\* In a room are sockets that were opened for it, and of the hosts only its own.
RoomsFit ==
  /\ \A c \in Code : room[c].sessions \in Seq(OpenedIn(c))
  /\ \A h \in HostAttempt : Opened(h) => sock[h].code = h
  /\ \A a \in Attempt : <<a, "create">> \in work => ~Opened(a)

\* A signal is for the peer of its sender; it comes from whoever has for its peer the one
\* that hears it.
Addressed(s, m) ==
  m.t = "signal" => Past(s) /\ (Current(s) => m.to # None /\ m.to = PeerOf(s))
Delivered(s, m) ==
  /\ m.t = "signaled" =>
       /\ m.from \in Attempt /\ Past(m.from) /\ Together(s, m.from)
       /\ Current(m.from) => PeerOf(m.from) = s
  /\ m.t = "peer-joined" => m.peer \in Attempt \ {s} /\ Together(s, m.peer)
LettersFit ==
  \A a \in Attempt :
    /\ \E S : up[a] \in Seq(S) /\ \A m \in S : Addressed(a, m)
    /\ \E S : down[a] \in Seq(S) /\ \A m \in S : Delivered(a, m)

\* How far a current attempt has come.
LocalFits(a) ==
  Current(a) =>
    /\ Opened(a) \/ <<a, "create">> \in work => app[a[1]].sig = a
    /\ PeerOf(a) = None => Neg(a) = None /\ <<a, "offer">> \notin work
    /\ <<a, "offer">> \in work => Neg(a) = None
    /\ link[a].remote => Neg(a) = a
    /\ ~Hosting(a) /\ Neg(a) # None => link[a].remote
    /\ app[a[1]].screen \in {"lobby", "netready", "match"}
    /\ app[a[1]].screen # "lobby" =>
         app[a[1]].net # None /\ driver[app[a[1]].net].state # "handshake"

\* Its peer is in the same room, and the host that a guest has for its peer has the guest.
PeerFits(a) ==
  Current(a) =>
    /\ PeerOf(a) \in Or(IF Hosting(a) THEN Guests ELSE HostAttempt)
    /\ \A b \in Attempt : PeerOf(a) = b =>
         Together(a, b) /\ (~Hosting(a) /\ Current(b) => PeerOf(b) = a)

\* An attempt with a transport, or a candidate, has had its socket and its peer.
Gathered(a) ==
  link[a].state \in {"connecting", "open"} \/ cand[a] # "none" =>
    Past(a) /\ (Current(a) => PeerOf(a) # None)

\* The candidate of a is queued while its peer b has no transport, and pending while it
\* has no remote description.
HeldFor(a, b) ==
  /\ Neg(b) = b => cand[a] # "queued"
  /\ Neg(b) # b => cand[a] # "pending"
  /\ link[b].remote => cand[a] # "pending"
Held(a) ==
  Current(a) => \A b \in Attempt : PeerOf(a) = b /\ Current(b) => HeldFor(a, b)

\* It is dropped only by a peer that is past its lobby.
Dropped(a) ==
  Current(a) /\ CanSignal(a) /\ cand[a] = "dropped" =>
    \A b \in Attempt : PeerOf(a) = b => ~InLobby(b)

CandFits(a) == LocalFits(a) /\ PeerFits(a) /\ Gathered(a) /\ Held(a) /\ Dropped(a)

\* Opponents who were paired have no peer to signal to.
Met == \A p \in Player : app[p].peer # None => mode = "friend" /\ app[p].at # None

CandInv ==
  /\ Met
  /\ mode = "friend" =>
       RoomsFit /\ LettersFit /\ DOMAIN cand = Attempt /\ \A a \in Attempt : CandFits(a)

\* What the invariant is for.
LEMMA NoCandidateLostFollows == LobbyInv /\ CandInv => NoCandidateLost
<1> SUFFICES ASSUME LobbyInv, CandInv, NEW a \in Attempt, NEW b \in Attempt, Paired(a, b)
             PROVE  /\ cand[a] = "dropped" => ~CanSignal(a)
                    /\ link[b].remote => cand[a] \notin {"queued", "pending"}
  BY DEF NoCandidateLost
<1>1. /\ Current(a) /\ Current(b) /\ InLobby(b) /\ PeerOf(a) = b
      /\ a[1] \in Player /\ b # None
  BY Attempts DEF Paired, InLobby, PeerOf
<1>2. CandFits(a) /\ CandFits(b)
  BY <1>1 DEF CandInv, Met, PeerOf
<1>3. cand[a] = "dropped" => ~CanSignal(a)
  BY <1>1, <1>2 DEF CandFits, Dropped
<1>4. HeldFor(a, b)
  BY <1>1, <1>2 DEF CandFits, Held
<1>5. link[b].remote => Neg(b) = b
  BY <1>1, <1>2 DEF CandFits, LocalFits
<1> QED
  BY <1>3, <1>4, <1>5 DEF HeldFor

-----------------------------------------------------------------------------
(***************************************************************************)
(* What any step may do to pages and sockets, of friends, and what stays.  *)
(***************************************************************************)
\* A page keeps its attempt and its peer, or gets one; or it is left; or it begins anew.
Life(p) ==
  \/ /\ app'[p].at = app[p].at
     /\ app'[p].peer = app[p].peer \/ (app[p].peer = None /\ app[p].at # None)
  \/ app'[p].at = None /\ app'[p].peer = None
  \/ /\ app'[p].peer = None
     /\ \A a \in Attempt : app'[p].at = a => ~Opened(a)

\* A socket is opened once.
Onward(a) ==
  Opened(a) =>
    /\ Opened(a)' /\ sock'[a].code = sock[a].code
    /\ sock'[a].phase = "opening" => sock[a].phase = "opening"
    /\ sock'[a].phase = "live" => sock[a].phase \in {"opening", "live"}

Stable ==
  /\ LobbyInv /\ LobbyInv' /\ SameInv /\ CandInv /\ mode = "friend" /\ mode' = mode
  /\ \A p \in Player : Life(p)
  /\ \A a \in Attempt : Onward(a)
  /\ DOMAIN cand' = Attempt

\* What is current and was opened was current before, and keeps the peer it had.
LEMMA StaysCurrent ==
  ASSUME Stable, NEW a \in Attempt, Opened(a)
  PROVE  /\ Opened(a)' /\ sock'[a].code = sock[a].code
         /\ Past(a) => Past(a)'
         /\ Current(a)' => Current(a) /\ (PeerOf(a) # None => PeerOf(a)' = PeerOf(a))
<1>1. Onward(a) /\ Life(a[1]) /\ a # None
  BY Attempts DEF Stable
<1> QED
  BY <1>1 DEF Onward, Life, Current, PeerOf, Opened, Past

\* Who is in a room with whom stays.
LEMMA TogetherKept ==
  ASSUME Stable, NEW a \in Attempt, NEW b \in Attempt, Together(a, b)
  PROVE  Together(a, b)'
BY StaysCurrent DEF Together

\* What was said stays addressed.
LEMMA LetterKept ==
  ASSUME Stable, NEW s \in Attempt, NEW m
  PROVE  /\ Addressed(s, m) => Addressed(s, m)'
         /\ Delivered(s, m) => Delivered(s, m)'
<1>1. Addressed(s, m) => Addressed(s, m)'
  BY StaysCurrent DEF Addressed, Past, Opened
<1>2. ASSUME NEW o \in Attempt, o = m.from, Past(o), Together(s, o),
             Current(o) => PeerOf(o) = s
      PROVE  Past(o)' /\ Together(s, o)' /\ (Current(o)' => PeerOf(o)' = s)
  BY <1>2, StaysCurrent, TogetherKept, Attempts DEF Together
<1>3. ASSUME NEW o \in Attempt, Together(s, o)
      PROVE  Together(s, o)'
  BY <1>3, TogetherKept
<1>4. ASSUME Delivered(s, m), m.t = "signaled"
      PROVE  m.from \in Attempt /\ Past(m.from)' /\ Together(s, m.from)'
             /\ (Current(m.from)' => PeerOf(m.from)' = s)
  <2>1. PICK o \in Attempt : o = m.from
    BY <1>4 DEF Delivered
  <2> QED
    BY <1>2, <1>4, <2>1 DEF Delivered
<1>5. ASSUME Delivered(s, m), m.t = "peer-joined"
      PROVE  m.peer \in Attempt \ {s} /\ Together(s, m.peer)'
  BY <1>3, <1>5 DEF Delivered
<1> QED
  BY <1>1, <1>4, <1>5 DEF Delivered

\* What comes into the queues fits.
UpFits ==
  \A a \in Attempt : \E R : Grows(up'[a], up[a], R) /\ \A m \in R : Addressed(a, m)'
DownFits ==
  \A a \in Attempt : \E R : Grows(down'[a], down[a], R) /\ \A m \in R : Delivered(a, m)'

\* What is under way stays addressed.
LEMMA LettersStep ==
  ASSUME Stable, UpFits, DownFits
  PROVE  LettersFit'
<1>1. ASSUME NEW a \in Attempt
      PROVE  \E S : up'[a] \in Seq(S) /\ \A m \in S : Addressed(a, m)'
  <2>1. PICK S : up[a] \in Seq(S) /\ \A m \in S : Addressed(a, m)
    BY DEF Stable, CandInv, LettersFit
  <2>2. PICK R : Grows(up'[a], up[a], R) /\ \A m \in R : Addressed(a, m)'
    BY DEF UpFits
  <2>3. up'[a] \in Seq(S \cup R)
    BY <2>1, <2>2 DEF Grows
  <2>4. \A m \in S \cup R : Addressed(a, m)'
    BY <2>1, <2>2, LetterKept
  <2> QED
    BY <2>3, <2>4
<1>2. ASSUME NEW a \in Attempt
      PROVE  \E S : down'[a] \in Seq(S) /\ \A m \in S : Delivered(a, m)'
  <2>1. PICK S : down[a] \in Seq(S) /\ \A m \in S : Delivered(a, m)
    BY DEF Stable, CandInv, LettersFit
  <2>2. PICK R : Grows(down'[a], down[a], R) /\ \A m \in R : Delivered(a, m)'
    BY DEF DownFits
  <2>3. down'[a] \in Seq(S \cup R)
    BY <2>1, <2>2 DEF Grows
  <2>4. \A m \in S \cup R : Delivered(a, m)'
    BY <2>1, <2>2, LetterKept
  <2> QED
    BY <2>3, <2>4
<1> QED
  BY <1>1, <1>2 DEF LettersFit

\* The head of a queue is one of what is under way.
LEMMA HeadFits ==
  ASSUME LettersFit, NEW a \in Attempt
  PROVE  /\ up[a] # <<>> => Addressed(a, Head(up[a]))
         /\ down[a] # <<>> => Delivered(a, Head(down[a]))
<1>1. ASSUME NEW q, NEW S, q \in Seq(S), q # <<>>
      PROVE  Head(q) \in S
  BY <1>1
<1> QED
  BY <1>1 DEF LettersFit

\* Queues from which something was taken, or that were emptied.
LEMMA QueuesShrink ==
  ASSUME NEW a \in Attempt
  PROVE  /\ \/ up'[a] = up[a] \/ up'[a] = <<>> \/ (up[a] # <<>> /\ up'[a] = Tail(up[a]))
            => \E R : Grows(up'[a], up[a], R) /\ \A m \in R : Addressed(a, m)'
         /\ \/ down'[a] = down[a] \/ down'[a] = <<>>
            \/ (down[a] # <<>> /\ down'[a] = Tail(down[a]))
            => \E R : Grows(down'[a], down[a], R) /\ \A m \in R : Delivered(a, m)'
<1>1. \A q : Grows(q, q, {}) /\ Grows(<<>>, q, {}) /\ (q # <<>> => Grows(Tail(q), q, {}))
  BY Growing
<1>2. \/ up'[a] = up[a] \/ up'[a] = <<>> \/ (up[a] # <<>> /\ up'[a] = Tail(up[a]))
      => Grows(up'[a], up[a], {})
  BY <1>1
<1>3. \/ down'[a] = down[a] \/ down'[a] = <<>> \/ (down[a] # <<>> /\ down'[a] = Tail(down[a]))
      => Grows(down'[a], down[a], {})
  BY <1>1
<1> QED
  BY <1>2, <1>3

-----------------------------------------------------------------------------
(***************************************************************************)
(* What stays of one attempt when a step has to do with others.            *)
(***************************************************************************)
\* The peer that an attempt had before still is one that it may have.
LEMMA PeerKept ==
  ASSUME Stable, NEW a \in Attempt, Current(a)' /\ PeerOf(a)' # None =>
                                      Current(a) /\ PeerOf(a) # None
  PROVE  PeerFits(a)'
<1>0. /\ None \notin Attempt /\ PeerFits(a) /\ Life(a[1]) /\ a[1] \in Player /\ a # None
      /\ HostFacts
  BY Hosts, Attempts DEF Stable, CandInv, CandFits, HostFacts
<1>1. ASSUME Current(a)', PeerOf(a)' # None
      PROVE  Current(a) /\ PeerOf(a) # None /\ PeerOf(a)' = PeerOf(a)
  BY <1>0, <1>1 DEF Life, PeerOf, Current
<1>2. ASSUME Current(a)'
      PROVE  PeerOf(a)' \in Or(IF Hosting(a) THEN Guests ELSE HostAttempt)
  <2>1. CASE PeerOf(a)' = None
    BY <2>1 DEF Or
  <2>2. CASE PeerOf(a)' # None
    BY <1>0, <1>1, <1>2, <2>2 DEF PeerFits
  <2> QED
    BY <2>1, <2>2
<1>3. ASSUME NEW b \in Attempt, Current(a)', PeerOf(a)' = b
      PROVE  Together(a, b)' /\ (~Hosting(a) /\ Current(b)' => PeerOf(b)' = a)
  <2>1. Current(a) /\ PeerOf(a) = b
    BY <1>0, <1>1, <1>3
  <2>2. Together(a, b) /\ (~Hosting(a) /\ Current(b) => PeerOf(b) = a)
    BY <1>0, <2>1 DEF PeerFits
  <2> QED
    BY <1>0, <2>2, StaysCurrent, TogetherKept DEF Together
<1> QED
  BY <1>2, <1>3 DEF PeerFits, Hosting

\* No transport, no candidate comes of an attempt that had none.
LEMMA GatheredKept ==
  ASSUME Stable, NEW a \in Attempt,
         link'[a].state \in {"connecting", "open"} \/ cand'[a] # "none" =>
           link[a].state \in {"connecting", "open"} \/ cand[a] # "none"
  PROVE  Gathered(a)'
<1>1. Gathered(a) /\ Onward(a)
  BY DEF Stable, CandInv, CandFits
<1>2. ASSUME link'[a].state \in {"connecting", "open"} \/ cand'[a] # "none"
      PROVE  Past(a)' /\ (Current(a)' => PeerOf(a)' # None)
  <2>1. Opened(a) /\ Past(a) /\ (Current(a) => PeerOf(a) # None)
    BY <1>1, <1>2 DEF Gathered, Opened, Past
  <2> QED
    BY <2>1, StaysCurrent
<1> QED
  BY <1>2 DEF Gathered

\* An attempt that had no peer had no candidate either.
LEMMA NoneYet ==
  ASSUME CandInv, mode = "friend", NEW a \in Attempt, Current(a), PeerOf(a) = None
  PROVE  cand[a] = "none" /\ link[a].state \notin {"connecting", "open"}
BY DEF CandInv, CandFits, Gathered

\* A candidate stays where it may be.
LEMMA HeldKept ==
  ASSUME Stable, NEW a \in Attempt, Current(a)' => Current(a),
         PeerOf(a) = None => cand'[a] = cand[a],
         \A b \in Attempt :
           Current(a) /\ PeerOf(a) = b /\ Current(b) /\ Current(b)' /\ HeldFor(a, b)
             => HeldFor(a, b)'
  PROVE  Held(a)'
<1>0. Held(a) /\ Life(a[1]) /\ a[1] \in Player /\ a # None /\ None \notin Attempt
  BY Attempts, Hosts DEF Stable, CandInv, CandFits, HostFacts
<1>1. ASSUME NEW b \in Attempt, Current(a)', PeerOf(a)' = b, Current(b)'
      PROVE  HeldFor(a, b)'
  <2>1. Current(a)
    BY <1>1
  <2>2. CASE PeerOf(a) = None
    <3>1. cand'[a] = "none"
      BY <2>1, <2>2, NoneYet DEF Stable
    <3> QED
      BY <3>1 DEF HeldFor
  <2>3. CASE PeerOf(a) # None
    <3>1. PeerOf(a) = b
      BY <1>0, <1>1, <2>3 DEF Life, PeerOf, Current
    <3>2. Opened(b)
      BY <2>1, <3>1 DEF Stable, CandInv, CandFits, PeerFits, Together
    <3>3. Current(b)
      BY <1>1, <3>2, StaysCurrent
    <3> QED
      BY <1>0, <1>1, <2>1, <3>1, <3>3 DEF Held
  <2> QED
    BY <2>2, <2>3
<1> QED
  BY <1>1 DEF Held

\* No candidate is dropped, and nobody comes back to the lobby.
LEMMA DroppedKept ==
  ASSUME Stable, NEW a \in Attempt, cand'[a] = "dropped" => cand[a] = "dropped",
         \A b \in Attempt : Opened(b) /\ InLobby(b)' => InLobby(b)
  PROVE  Dropped(a)'
<1>0. Dropped(a) /\ Gathered(a) /\ PeerFits(a) /\ Onward(a)
  BY DEF Stable, CandInv, CandFits
<1>1. ASSUME Current(a)', CanSignal(a)', cand'[a] = "dropped",
             NEW b \in Attempt, PeerOf(a)' = b, InLobby(b)'
      PROVE  FALSE
  <2>1. cand[a] = "dropped" /\ Opened(a) /\ sock[a].phase # "opening"
        /\ (Current(a) => PeerOf(a) # None)
    BY <1>0, <1>1 DEF Gathered, Opened, Past
  <2>2. CanSignal(a)
    BY <1>0, <1>1, <2>1 DEF Onward, CanSignal
  <2>3. Current(a) /\ PeerOf(a) = b
    BY <1>1, <2>1, StaysCurrent
  <2>4. Opened(b)
    BY <1>0, <2>3 DEF PeerFits, Together
  <2> QED
    BY <1>0, <1>1, <2>1, <2>2, <2>3, <2>4 DEF Dropped
<1> QED
  BY <1>1 DEF Dropped

SessionsFit ==
  \A c \in Code : \E R : /\ Grows(room'[c].sessions, room[c].sessions, R)
                         /\ R \subseteq OpenedIn(c)

\* Rooms that are as they were.
LEMMA SameSessions == room' = room => SessionsFit
<1> SUFFICES ASSUME room' = room
             PROVE  SessionsFit
  OBVIOUS
<1>1. \A c \in Code : Grows(room'[c].sessions, room[c].sessions, {})
  BY Growing
<1> QED
  BY <1>1 DEF SessionsFit

\* The rooms get only sockets that were opened for them.
LEMMA SessionsKept ==
  ASSUME Stable, SessionsFit, NEW c \in Code
  PROVE  room'[c].sessions \in Seq(OpenedIn(c)')
<1>1. PICK R : Grows(room'[c].sessions, room[c].sessions, R) /\ R \subseteq OpenedIn(c)
  BY DEF SessionsFit
<1>2. room'[c].sessions \in Seq(OpenedIn(c) \cup R)
  BY <1>1 DEF Grows, Stable, CandInv, RoomsFit
<1>3. OpenedIn(c) \subseteq OpenedIn(c)'
  BY StaysCurrent DEF OpenedIn
<1> QED
  BY <1>1, <1>2, <1>3, WiderSeq

\* No socket is opened.
LEMMA RoomsKept ==
  ASSUME Stable, SessionsFit, \A a \in Attempt : Opened(a)' => Opened(a),
         \A a \in Attempt : <<a, "create">> \in work' => <<a, "create">> \in work
  PROVE  RoomsFit'
<1>0. RoomsFit /\ HostFacts
  BY Hosts DEF Stable, CandInv
<1>1. \A h \in HostAttempt : Opened(h)' => sock'[h].code = h
  BY <1>0, StaysCurrent DEF RoomsFit, HostFacts
<1>2. \A a \in Attempt : <<a, "create">> \in work' => ~(Opened(a)')
  BY <1>0 DEF RoomsFit
<1> QED
  BY <1>1, <1>2, SessionsKept DEF RoomsFit

\* A page that keeps its place: it takes over no transport, and does not go back.
Still(p) ==
  /\ app'[p].at = app[p].at /\ app'[p].peer = app[p].peer
  /\ app'[p].neg = app[p].neg /\ app'[p].sig = app[p].sig
  /\ app'[p].screen \in {"lobby", "netready", "match"}
  /\ app[p].screen = "match" => app'[p].screen = "match"
  /\ app'[p].screen # "lobby" =>
       app'[p].net # None /\ driver'[app'[p].net].state # "handshake"
Out(p) == app'[p].at = None /\ app'[p].peer = None

\* A socket that is neither opened nor forgotten.
SocketOn(a) ==
  /\ sock'[a].phase = "idle" <=> sock[a].phase = "idle"
  /\ sock'[a].code = sock[a].code
  /\ sock'[a].phase = "opening" => sock[a].phase = "opening"
  /\ sock'[a].phase = "live" => sock[a].phase \in {"opening", "live"}
LinkOn(a) ==
  /\ link'[a].remote = link[a].remote
  /\ link'[a].state \in {"connecting", "open"} => link[a].state \in {"connecting", "open"}
WorkOn(a) ==
  \A s \in {"offer", "create"} : <<a, s>> \in work' => <<a, s>> \in work

\* An attempt whose page keeps its place.
LEMMA LocalKept ==
  ASSUME CandInv, mode = "friend", NEW a \in Attempt, Still(a[1]) \/ Out(a[1]), LinkOn(a),
         WorkOn(a), Opened(a)' => Opened(a)
  PROVE  LocalFits(a)'
<1>0. LocalFits(a) /\ a # None
  BY Attempts DEF CandInv, CandFits
<1>1. CASE Out(a[1])
  BY <1>0, <1>1 DEF Out, LocalFits, Current
<1>2. CASE Still(a[1])
  BY <1>0, <1>2 DEF Still, LocalFits, Current, LinkOn, WorkOn, PeerOf, Neg
<1> QED
  BY <1>1, <1>2

\* Any page that keeps its place, or is left, goes on as pages do.
LEMMA LifeGoesOn ==
  ASSUME NEW p \in Player, Still(p) \/ Out(p)
  PROVE  Life(p)
BY DEF Still, Out, Life

\* Everything together.
LEMMA CandStep ==
  ASSUME Stable, RoomsFit', UpFits, DownFits, \A a \in Attempt : CandFits(a)'
  PROVE  CandInv'
<1>1. Met'
  BY DEF Stable, CandInv, Met, Life
<1> QED
  BY <1>1, LettersStep DEF CandInv, Stable

\* A step in which pages keep their places or are left, and no candidate moves.
LEMMA QuietStep ==
  ASSUME LobbyInv, LobbyInv', SameInv, CandInv, mode = "friend", mode' = mode,
         \A p \in Player : Still(p) \/ Out(p),
         \A a \in Attempt : SocketOn(a) /\ LinkOn(a) /\ WorkOn(a), cand' = cand,
         UpFits, DownFits, SessionsFit
  PROVE  CandInv'
<1>0. \A a \in Attempt : a[1] \in Player /\ a # None
  BY Attempts
<1>1. \A a \in Attempt : Onward(a) /\ (Opened(a)' => Opened(a))
  BY DEF SocketOn, Onward, Opened
<1>2. Stable
  BY <1>1, LifeGoesOn DEF Stable, CandInv
<1>3. RoomsFit'
  BY <1>1, <1>2, RoomsKept DEF WorkOn
<1>4. ASSUME NEW a \in Attempt
      PROVE  CandFits(a)'
  <2>1. LocalFits(a)'
    BY <1>0, <1>1, LocalKept
  <2>2. Current(a)' => Current(a) /\ PeerOf(a)' = PeerOf(a)
    BY <1>0 DEF Still, Out, Current, PeerOf
  <2>3. PeerFits(a)'
    BY <1>2, <2>2, PeerKept
  <2>4. Gathered(a)'
    BY <1>2, GatheredKept DEF LinkOn
  <2>5. Held(a)'
    <3>1. ASSUME NEW b \in Attempt, Current(b)', HeldFor(a, b)
          PROVE  HeldFor(a, b)'
      BY <1>0, <3>1 DEF HeldFor, Neg, LinkOn, Still, Out, Current
    <3> QED
      BY <1>2, <2>2, <3>1, HeldKept
  <2>6. Dropped(a)'
    <3>1. ASSUME NEW b \in Attempt, InLobby(b)'
          PROVE  InLobby(b)
      <4>1. Current(b) /\ Still(b[1])
        BY <1>0, <3>1 DEF InLobby, Current, Still, Out
      <4>2. LocalFits(b)
        BY DEF CandInv, CandFits
      <4> QED
        BY <3>1, <4>1, <4>2 DEF InLobby, Screen, Still, LocalFits
    <3> QED
      BY <1>2, <3>1, DroppedKept
  <2> QED
    BY <2>1, <2>3, <2>4, <2>5, <2>6 DEF CandFits
<1> QED
  BY <1>2, <1>3, <1>4, CandStep

-----------------------------------------------------------------------------
(***************************************************************************)
(* The steps in which no candidate moves.                                  *)
(***************************************************************************)
\* A driver goes back to its handshake only when it is hooked.
NoHandshake(p) ==
  \A b \in Attempt : b[1] = p /\ driver'[b].state = "handshake" => driver[b].state = "handshake"

\* A page as it was keeps its place.
LEMMA SameStill ==
  ASSUME LobbyInv, CandInv, mode = "friend", NEW p \in Player, app'[p] = app[p], NoHandshake(p)
  PROVE  Still(p) \/ Out(p)
<1>0. /\ app[p].at \in Or(OfPlayer(p)) /\ app[p].net \in {app[p].at, None}
      /\ app[p].peer # None => app[p].at # None
  BY DEF LobbyInv, Own, CandInv, Met
<1>1. CASE app[p].at = None
  BY <1>0, <1>1 DEF Out
<1>2. CASE app[p].at # None
  <2>1. PICK a \in Attempt : a = app[p].at /\ a[1] = p
    BY <1>0, <1>2, Attempts DEF Or
  <2>2. Current(a) /\ LocalFits(a)
    BY <2>1 DEF Current, CandInv, CandFits
  <2>3. app[p].net # None => app[p].net = a
    BY <1>0, <2>1
  <2> QED
    BY <2>1, <2>2, <2>3 DEF Still, LocalFits, NoHandshake
<1> QED
  BY <1>1, <1>2

\* One page is set, and keeps its place.
LEMMA PageStill ==
  ASSUME LobbyInv, CandInv, mode = "friend", NEW a \in Attempt, NEW r,
         app' = [app EXCEPT ![a[1]] = r], r.at = app[a[1]].at, r.peer = app[a[1]].peer,
         r.neg = app[a[1]].neg, r.sig = app[a[1]].sig, r.net = app[a[1]].net,
         \/ r.screen = app[a[1]].screen
         \/ /\ r.screen \in {"netready", "match"} /\ app[a[1]].screen \in {"lobby", "netready"}
            /\ app[a[1]].net # None /\ driver'[app[a[1]].net].state # "handshake",
         \A p \in Player : NoHandshake(p)
  PROVE  \A p \in Player : Still(p) \/ Out(p)
<1>0. /\ a[1] \in Player /\ app[a[1]].net \in {app[a[1]].at, None}
      /\ app[a[1]].at \in Or(OfPlayer(a[1]))
      /\ app[a[1]].peer # None => app[a[1]].at # None
      /\ NoHandshake(a[1])
  BY Attempts DEF LobbyInv, Own, CandInv, Met
<1>1. app'[a[1]] = r /\ \A q \in Player \ {a[1]} : app'[q] = app[q]
  BY <1>0 DEF LobbyInv, Shaped, Pages
<1>2. Still(a[1]) \/ Out(a[1])
  <2>1. CASE app[a[1]].at = None
    BY <1>0, <1>1, <2>1 DEF Out
  <2>2. CASE app[a[1]].at # None
    <3>1. PICK b \in Attempt : b = app[a[1]].at /\ b[1] = a[1]
      <4>1. app[a[1]].at \in OfPlayer(a[1])
        BY <1>0, <2>2 DEF Or
      <4> QED
        BY <1>0, <4>1, Attempts
    <3>2. Current(b) /\ LocalFits(b)
      BY <3>1 DEF Current, CandInv, CandFits
    <3>3. CASE r.screen = app[a[1]].screen
      BY <1>0, <1>1, <3>1, <3>2, <3>3 DEF Still, LocalFits, NoHandshake
    <3>4. CASE /\ r.screen \in {"netready", "match"} /\ app[a[1]].screen \in {"lobby", "netready"}
               /\ app[a[1]].net # None /\ driver'[app[a[1]].net].state # "handshake"
      BY <1>0, <1>1, <3>4 DEF Still
    <3> QED
      BY <3>3, <3>4
  <2> QED
    BY <2>1, <2>2
<1> QED
  BY <1>1, <1>2, SameStill

\* A field that says nothing of transports and peers.
LEMMA FieldStill ==
  ASSUME LobbyInv, CandInv, mode = "friend", NEW a \in Attempt,
         NEW f \in {"token", "sdp", "record", "busy"}, NEW v, app' = Set(a, f, v),
         \A p \in Player : NoHandshake(p)
  PROVE  \A p \in Player : Still(p) \/ Out(p)
<1> DEFINE r == [app[a[1]] EXCEPT ![f] = v]
<1>1. DOMAIN app[a[1]] = PageField /\ app' = [app EXCEPT ![a[1]] = r]
  BY Attempts DEF LobbyInv, Shaped, Pages, Set
<1>2. /\ r.at = app[a[1]].at /\ r.peer = app[a[1]].peer /\ r.neg = app[a[1]].neg
      /\ r.sig = app[a[1]].sig /\ r.net = app[a[1]].net /\ r.screen = app[a[1]].screen
  BY <1>1 DEF PageField
<1> HIDE DEF r
<1> QED
  BY <1>1, <1>2, PageStill

\* A page goes on to another screen, once its driver is past the handshake.
LEMMA ScreenStill ==
  ASSUME LobbyInv, CandInv, mode = "friend", NEW a \in Attempt, NEW screen,
         app' = Page(a, screen),
         \/ screen = app[a[1]].screen
         \/ /\ screen \in {"netready", "match"} /\ app[a[1]].screen \in {"lobby", "netready"}
            /\ app[a[1]].net # None /\ driver'[app[a[1]].net].state # "handshake",
         \A p \in Player : NoHandshake(p)
  PROVE  \A p \in Player : Still(p) \/ Out(p)
<1> DEFINE r == [app[a[1]] EXCEPT !.screen = screen, !.busy = app[a[1]].busy \/ Asks(a)]
<1>1. DOMAIN app[a[1]] = PageField /\ app' = [app EXCEPT ![a[1]] = r]
  BY Attempts DEF LobbyInv, Shaped, Pages, Page
<1>2. /\ r.at = app[a[1]].at /\ r.peer = app[a[1]].peer /\ r.neg = app[a[1]].neg
      /\ r.sig = app[a[1]].sig /\ r.net = app[a[1]].net /\ r.screen = screen
  BY <1>1 DEF PageField
<1> HIDE DEF r
<1> QED
  BY <1>1, <1>2, PageStill

\* Only the record is awaited anew.
LEMMA WorkLess ==
  ASSUME NEW a \in Attempt, work' \subseteq work \cup {<<a, "record">>, <<a, "answer">>}
  PROVE  \A b \in Attempt : WorkOn(b)
BY DEF WorkOn

\* The rooms, the sockets and the queues are as they were, but for what one has taken.
LEMMA PageStep ==
  ASSUME LobbyInv, LobbyInv', SameInv, CandInv, mode = "friend", mode' = mode,
         \A p \in Player : Still(p) \/ Out(p), \A a \in Attempt : LinkOn(a) /\ WorkOn(a),
         UNCHANGED <<room, sock, up, cand>>,
         down' = down \/ \E a \in Attempt : down[a] # <<>> /\ down' = Heard(a)
  PROVE  CandInv'
<1>0. Queues
  BY DEF SameInv
<1>1. SessionsFit
  BY SameSessions
<1>2. UpFits
  BY QueuesShrink DEF UpFits
<1>3. DownFits
  <2>1. ASSUME NEW b \in Attempt
        PROVE  \/ down'[b] = down[b] \/ down'[b] = <<>>
               \/ (down[b] # <<>> /\ down'[b] = Tail(down[b]))
    BY <1>0 DEF Heard, Queues
  <2> QED
    BY <2>1, QueuesShrink DEF DownFits
<1>4. \A a \in Attempt : SocketOn(a)
  BY DEF SocketOn
<1> QED
  BY <1>1, <1>2, <1>3, <1>4, QuietStep

\* A socket is hung up, with nothing said or that the room is left.
LEMMA HangUpFits ==
  ASSUME Sockets, Queues, NEW s \in Attempt, NEW ms \in Seq({[t |-> "leave-room"]}), HangUp(s, ms)
  PROVE  UpFits /\ DownFits /\ \A a \in Attempt : SocketOn(a)
<1> DEFINE R == {[t |-> "leave-room"]}
<1>1. UpFits
  <2>1. \A a \in Attempt : up'[a] = up[a] \/ up'[a] = up[a] \o ms
    BY DEF HangUp, Queues
  <2>2. \A a \in Attempt : Grows(up'[a], up[a], R)
    BY <2>1, Growing
  <2>3. \A a \in Attempt : \A m \in R : Addressed(a, m)'
    BY DEF Addressed
  <2> QED
    BY <2>2, <2>3 DEF UpFits
<1>2. DownFits
  <2>1. \A a \in Attempt : down'[a] = down[a] \/ down'[a] = <<>>
    BY DEF HangUp, Queues
  <2> QED
    BY <2>1, QueuesShrink DEF DownFits
<1>3. \A a \in Attempt : SocketOn(a)
  <2> DEFINE after == CASE sock[s].phase = "opening" -> "aborted"
                        [] sock[s].phase = "live" -> "left"
                        [] OTHER -> sock[s].phase
  <2>1. sock' = [sock EXCEPT ![s] = [sock[s] EXCEPT !.phase = after]]
    BY DEF HangUp, Sockets
  <2>2. (after = "idle" <=> sock[s].phase = "idle") /\ after \notin {"opening", "live"}
    OBVIOUS
  <2> HIDE DEF after
  <2>3. sock'[s].phase = after /\ sock'[s].code = sock[s].code
    BY <2>1 DEF Sockets
  <2>4. \A b \in Attempt \ {s} : sock'[b] = sock[b]
    BY <2>1 DEF Sockets
  <2> QED
    BY <2>2, <2>3, <2>4 DEF SocketOn
<1> QED
  BY <1>1, <1>2, <1>3

\* Links that are as they were, but for one that closes.
LEMMA LinksOn ==
  ASSUME Links, link' = link \/ \E a \in Attempt : link' = [link EXCEPT ![a].state = "closed"]
  PROVE  \A b \in Attempt : LinkOn(b)
<1>1. CASE link' = link
  BY <1>1 DEF LinkOn
<1>2. ASSUME NEW a \in Attempt, link' = [link EXCEPT ![a].state = "closed"]
      PROVE  \A b \in Attempt : LinkOn(b)
  BY <1>2, LinkState DEF LinkOn
<1> QED
  BY <1>1, <1>2

\* Every way out.
LEMMA OutFits ==
  ASSUME LobbyInv, LobbyInv', SameInv, CandInv, mode = "friend", mode' = mode,
         NEW p \in Player, NEW busy, NEW words, app' = Menu(p, busy), Down(p, words),
         work' \subseteq work
  PROVE  CandInv'
<1> DEFINE d == app[p].net
           t == IF d # None THEN d ELSE app[p].neg
<1>0. /\ d # None => d \in Attempt
      /\ app[p].neg # None => app[p].neg \in Attempt
      /\ app[p].sig # None => app[p].sig \in Attempt
      /\ Drivers /\ Sockets /\ Links /\ Queues /\ Pages
  BY PageTransport DEF LobbyInv, Shaped, SameInv
<1>1. \A b \in Attempt : LinkOn(b)
  <2>1. link' = IF t = None THEN link ELSE LinkClosed(t)
    BY DEF Down, CloseTransport
  <2>2. link' = link \/ \E a \in Attempt : link' = [link EXCEPT ![a].state = "closed"]
    BY <1>0, <2>1 DEF LinkClosed
  <2> QED
    BY <1>0, <2>2, LinksOn
<1>2. \A q \in Player : NoHandshake(q)
  <2>1. driver' = driver \/ (d \in Attempt /\ driver' = [driver EXCEPT ![d].state = "closed"])
    BY <1>0 DEF Down, CloseTransport
  <2> HIDE DEF d
  <2>2. \A b \in Attempt : driver'[b].state = "handshake" => driver[b].state = "handshake"
    BY <1>0, <2>1, DriverCloses
  <2> QED
    BY <2>2 DEF NoHandshake
<1>3. \A q \in Player : Still(q) \/ Out(q)
  <2> DEFINE page == [Idle EXCEPT !.busy = busy, !.tries = app[p].tries]
  <2>1. app' = [app EXCEPT ![p] = page]
    BY DEF Menu
  <2>2. page.at = None /\ page.peer = None
    BY DEF Idle
  <2> HIDE DEF page
  <2>3. Out(p) /\ \A q \in Player \ {p} : app'[q] = app[q]
    BY <1>0, <2>1, <2>2 DEF Out, Pages
  <2> QED
    BY <1>2, <2>3, SameStill
<1>4. UpFits /\ DownFits /\ \A a \in Attempt : SocketOn(a)
  <2>1. CASE app[p].sig # None
    <3> DEFINE ms == <<[t |-> "leave-room"]>>
    <3>1. PICK s \in Attempt : s = app[p].sig
      BY <1>0, <2>1
    <3>2. HangUp(s, ms) /\ ms \in Seq({[t |-> "leave-room"]})
      BY <2>1, <3>1 DEF Down, CloseSocket
    <3> HIDE DEF ms
    <3> QED
      BY <1>0, <3>2, HangUpFits
  <2>2. CASE app[p].sig = None
    <3>1. UNCHANGED <<sock, up, down>>
      BY <2>2 DEF Down, CloseSocket
    <3> QED
      BY <3>1, QueuesShrink DEF UpFits, DownFits, SocketOn
  <2> QED
    BY <2>1, <2>2
<1>5. SessionsFit /\ cand' = cand
  BY SameSessions DEF Down
<1>6. \A a \in Attempt : WorkOn(a)
  BY DEF WorkOn
<1> QED
  BY <1>1, <1>3, <1>4, <1>5, <1>6, QuietStep

\* closeNet(), in each of its uses.
LEMMA ClosesFits ==
  ASSUME LobbyInv, LobbyInv', SameInv, CandInv, mode = "friend", mode' = mode,
         NEW p \in Player, CloseNet(p) \/ CloseNetOnDrop(p), work' \subseteq work
  PROVE  CandInv'
BY OutFits DEF CloseNet, CloseNetOnDrop

\* A driver that begins, or notes who is ready, makes no handshake.
LEMMA BegunStill ==
  ASSUME Drivers, NEW a \in Attempt
  PROVE  /\ \A seed : driver' = Begun(a, seed) =>
              driver'[a].state = "playing" /\ \A p \in Player : NoHandshake(p)
         /\ \A d : DOMAIN d = DriverField /\ d.state = driver[a].state /\ driver' = Gated(a, d) =>
              driver'[a].state = driver[a].state /\ \A p \in Player : NoHandshake(p)
         /\ driver' = driver => \A p \in Player : NoHandshake(p)
<1>1. ASSUME NEW seed, driver' = Begun(a, seed)
      PROVE  driver'[a].state = "playing" /\ \A p \in Player : NoHandshake(p)
  <2> DEFINE r == [driver[a] EXCEPT !.state = "playing", !.seed = seed]
  <2>1. driver' = [driver EXCEPT ![a] = r] /\ DOMAIN r = DriverField /\ r.state = "playing"
    BY <1>1 DEF Begun, Drivers, DriverField
  <2> HIDE DEF r
  <2> QED
    BY <2>1, DriverSet DEF NoHandshake
<1>2. ASSUME NEW d, DOMAIN d = DriverField, d.state = driver[a].state, driver' = Gated(a, d)
      PROVE  driver'[a].state = driver[a].state /\ \A p \in Player : NoHandshake(p)
  <2> DEFINE r == [d EXCEPT !.started = d.started \/ Starts(a, d)]
  <2>1. driver' = [driver EXCEPT ![a] = r] /\ DOMAIN r = DriverField /\ r.state = driver[a].state
    BY <1>2 DEF Gated, DriverField
  <2> HIDE DEF r
  <2> QED
    BY <2>1, DriverSet DEF NoHandshake
<1>3. ASSUME driver' = driver
      PROVE  \A p \in Player : NoHandshake(p)
  BY <1>3 DEF NoHandshake
<1> QED
  BY <1>1, <1>2, <1>3

\* A driver in its handshake or playing is that of the page, which is in the lobby while
\* the handshake lasts.
LEMMA DriverPage ==
  ASSUME LobbyInv, CandInv, mode = "friend", NEW a \in Attempt,
         driver[a].state \in {"handshake", "playing"}
  PROVE  /\ app[a[1]].net = a /\ a # None /\ Current(a)
         /\ app[a[1]].screen \in {"lobby", "netready", "match"}
         /\ driver[a].state = "handshake" => app[a[1]].screen = "lobby"
<1>1. app[a[1]].net = a /\ a # None /\ Current(a)
  BY HearsAsPage, Attempts DEF LobbyInv, Own, Current
<1>2. LocalFits(a)
  BY DEF CandInv, CandFits
<1> QED
  BY <1>1, <1>2 DEF LocalFits

\* hello and welcome.
LEMMA BeginFits ==
  ASSUME LobbyInv, LobbyInv', SameInv, CandInv, mode = "friend", NEW a \in Attempt,
         HelloComes(a) \/ WelcomeComes(a)
  PROVE  CandInv'
<1>0. driver[a].state = "handshake" /\ mode' = mode /\ Drivers /\ a[1] \in Player /\ Links
  BY Attempts DEF HelloComes, WelcomeComes, Hears, LobbyInv, Shaped, SameInv
<1>1. CASE CloseNet(a[1]) /\ work' = work
  BY <1>0, <1>1, ClosesFits
<1>2. CASE ~(CloseNet(a[1]) /\ work' = work)
  <2>1. /\ \E seed : driver' = Begun(a, seed)
        /\ \E ms : Exchange(a, ms)
        /\ app' = Page(a, "netready") /\ work' \subseteq work \cup Asked(a)
        /\ UNCHANGED <<room, sock, link, cand>>
    BY <1>2 DEF HelloComes, WelcomeComes
  <2>2. UNCHANGED <<up, down>>
    BY <2>1 DEF Exchange
  <2>3. driver'[a].state = "playing" /\ \A p \in Player : NoHandshake(p)
    BY <1>0, <2>1, BegunStill
  <2>4. app[a[1]].net = a /\ a # None /\ app[a[1]].screen = "lobby"
    BY <1>0, DriverPage
  <2>5. \A p \in Player : Still(p) \/ Out(p)
    BY <2>1, <2>3, <2>4, ScreenStill
  <2>6. \A b \in Attempt : LinkOn(b) /\ WorkOn(b)
    BY <1>0, <2>1, LinksOn, WorkLess DEF Asked
  <2> QED
    BY <1>0, <2>1, <2>2, <2>5, <2>6, PageStep
<1> QED
  BY <1>1, <1>2

\* profile, city-match, ready, and what changes nothing.
LEMMA HearsFits ==
  ASSUME LobbyInv, LobbyInv', SameInv, CandInv, mode = "friend", NEW a \in Attempt,
         ProfileComes(a) \/ RecordComes(a) \/ ReadyComes(a) \/ HelloAgain(a) \/ Unheard(a)
  PROVE  CandInv'
<1>0. /\ mode' = mode /\ Drivers /\ a[1] \in Player /\ Links
      /\ UNCHANGED <<room, sock, link, cand>> /\ \E ms : Exchange(a, ms)
  BY Attempts DEF ProfileComes, RecordComes, ReadyComes, HelloAgain, Unheard, LobbyInv, Shaped,
     SameInv
<1>1. UNCHANGED <<up, down>>
  BY <1>0 DEF Exchange
<1>2. \A b \in Attempt : LinkOn(b) /\ WorkOn(b)
  <2>1. work' \subseteq work \cup Asked(a)
    BY DEF ProfileComes, RecordComes, ReadyComes, HelloAgain, Unheard
  <2> QED
    BY <1>0, <2>1, LinksOn, WorkLess DEF Asked
<1>3. \A p \in Player : Still(p) \/ Out(p)
  <2>1. CASE ProfileComes(a)
    BY <1>0, <2>1, BegunStill, ScreenStill DEF ProfileComes, Screen
  <2>2. CASE RecordComes(a)
    <3>1. driver' = driver /\ (app' = app \/ \E v : app' = Set(a, "record", v))
      BY <2>2 DEF RecordComes
    <3> QED
      BY <1>0, <3>1, BegunStill, FieldStill, SameStill
  <2>3. CASE ReadyComes(a)
    <3> DEFINE d == [driver[a] EXCEPT !.mate = TRUE]
    <3>1. driver[a].state = "playing" /\ driver' = Gated(a, d)
          /\ (app' = app \/ app' = Page(a, "match"))
      BY <2>3 DEF ReadyComes, Hears
    <3>2. DOMAIN d = DriverField /\ d.state = driver[a].state
      BY <1>0 DEF Drivers, DriverField
    <3> HIDE DEF d
    <3>3. driver'[a].state = "playing" /\ \A p \in Player : NoHandshake(p)
      BY <1>0, <3>1, <3>2, BegunStill
    <3>4. app[a[1]].net = a /\ a # None /\ app[a[1]].screen \in {"lobby", "netready", "match"}
      BY <3>1, DriverPage
    <3>5. CASE app' = app
      BY <3>3, <3>5, SameStill
    <3>6. CASE app' = Page(a, "match")
      BY <3>3, <3>4, <3>6, ScreenStill
    <3> QED
      BY <3>1, <3>5, <3>6
  <2>4. CASE HelloAgain(a) \/ Unheard(a)
    <3>1. driver' = driver /\ app' = app
      BY <2>4 DEF HelloAgain, Unheard
    <3> QED
      BY <1>0, <3>1, BegunStill, SameStill
  <2> QED
    BY <2>1, <2>2, <2>3, <2>4
<1> QED
  BY <1>0, <1>1, <1>2, <1>3, PageStep

\* Whatever a driver hears.
LEMMA ListensFits ==
  ASSUME LobbyInv, LobbyInv', SameInv, CandInv, mode = "friend", NEW a \in Attempt, Listens(a)
  PROVE  CandInv'
<1>1. CASE QuitComes(a)
  BY <1>1, ClosesFits, Attempts DEF QuitComes
<1> QED
  BY <1>1, BeginFits, HearsFits DEF Listens

\* Ready, pressed.
LEMMA ReadyFits ==
  ASSUME LobbyInv, LobbyInv', SameInv, CandInv, mode = "friend", NEW p \in Player, Ready(p)
  PROVE  CandInv'
<1>0. PICK a \in Attempt : a = app[p].net /\ a[1] = p /\ a = app[p].at
  BY PageTransport DEF Ready
<1> DEFINE d == [driver[a] EXCEPT !.local = TRUE]
<1>1. /\ mode' = mode /\ Drivers /\ Links /\ UNCHANGED <<room, sock, link, cand, down>>
      /\ app[p].screen = "netready" /\ a # None /\ driver' = Gated(a, d)
      /\ app' = app \/ app' = Page(a, "match")
      /\ work' \subseteq work \cup Asked(a)
      /\ \E ms : Sent(a, ms)
  BY <1>0 DEF Ready, LobbyInv, Shaped, SameInv
<1>2. up' = up
  BY <1>1 DEF Sent
<1>3. DOMAIN d = DriverField /\ d.state = driver[a].state
  BY <1>1 DEF Drivers, DriverField
<1> HIDE DEF d
<1>4. driver'[a].state = driver[a].state /\ \A q \in Player : NoHandshake(q)
  BY <1>1, <1>3, BegunStill
<1>5. driver[a].state # "handshake"
  <2>1. Current(a) /\ LocalFits(a)
    BY <1>0 DEF Current, CandInv, CandFits
  <2> QED
    BY <1>0, <1>1, <2>1 DEF LocalFits
<1>6. \A q \in Player : Still(q) \/ Out(q)
  <2>1. CASE app' = app
    BY <1>4, <2>1, SameStill
  <2>2. CASE app' = Page(a, "match")
    BY <1>0, <1>1, <1>4, <1>5, <2>2, ScreenStill
  <2> QED
    BY <1>1, <2>1, <2>2
<1>7. \A b \in Attempt : LinkOn(b) /\ WorkOn(b)
  BY <1>1, LinksOn, WorkLess DEF Asked
<1> QED
  BY <1>1, <1>2, <1>6, <1>7, PageStep

\* Leaving, being left, and what times out or breaks.
LEMMA AwayFits ==
  ASSUME LobbyInv, LobbyInv', SameInv, CandInv, mode = "friend"
  PROVE  /\ \A p \in Player : Leave(p) => CandInv'
         /\ \A a \in Attempt : PeerLeft(a) \/ HandshakeTimesOut(a) \/ RelayCloses(a) => CandInv'
<1>1. \A a \in Attempt : ~RelayCloses(a)
  BY DEF RelayCloses
<1>2. ASSUME NEW p \in Player, Leave(p)
      PROVE  CandInv'
  BY <1>2, ClosesFits DEF Leave
<1>3. ASSUME NEW a \in Attempt, PeerLeft(a) \/ HandshakeTimesOut(a)
      PROVE  CandInv'
  BY <1>3, ClosesFits, Attempts DEF PeerLeft, HandshakeTimesOut
<1> QED
  BY <1>1, <1>2, <1>3

\* Only pages, links and what is awaited change, and what the driver of a says.
LEMMA OwnFits ==
  ASSUME LobbyInv, LobbyInv', SameInv, CandInv, mode = "friend", NEW a \in Attempt
  PROVE  /\ HelloRetried(a) => CandInv'
         /\ RecordMade(a) => CandInv'
         /\ RecordFails(a) => CandInv'
         /\ Opens(a) => CandInv'
         /\ LinkCloses(a) => CandInv'
<1>0. Drivers /\ Links /\ a[1] \in Player
  BY Attempts DEF LobbyInv, Shaped, SameInv
<1>1. ASSUME HelloRetried(a)
      PROVE  CandInv'
  <2>1. /\ UNCHANGED <<room, sock, down, mode, app, work, link, driver, cand>>
        /\ \E ms : Sent(a, ms)
    BY <1>1 DEF HelloRetried
  <2>2. up' = up
    BY <2>1 DEF Sent
  <2>3. \A p \in Player : Still(p) \/ Out(p)
    BY <1>0, <2>1, BegunStill, SameStill
  <2>4. \A b \in Attempt : LinkOn(b) /\ WorkOn(b)
    BY <2>1 DEF LinkOn, WorkOn
  <2> QED
    BY <2>1, <2>2, <2>3, <2>4, PageStep
<1>2. ASSUME RecordMade(a) \/ RecordFails(a)
      PROVE  CandInv'
  <2> DEFINE r == [app[a[1]] EXCEPT !.busy = FALSE, !.record = a]
  <2>1. /\ UNCHANGED <<room, sock, down, mode, link, driver, cand>> /\ work' \subseteq work
        /\ app' = Set(a, "busy", FALSE) \/ app' = [app EXCEPT ![a[1]] = r]
        /\ up' = up
    BY <1>2 DEF RecordMade, RecordFails, Done, Sent, roomVars, peerVars
  <2>2. DOMAIN app[a[1]] = PageField
    BY <1>0 DEF LobbyInv, Shaped, Pages
  <2>3. /\ r.at = app[a[1]].at /\ r.peer = app[a[1]].peer /\ r.neg = app[a[1]].neg
        /\ r.sig = app[a[1]].sig /\ r.net = app[a[1]].net /\ r.screen = app[a[1]].screen
    BY <2>2 DEF PageField
  <2> HIDE DEF r
  <2>4. \A p \in Player : NoHandshake(p)
    BY <1>0, <2>1, BegunStill
  <2>5. \A p \in Player : Still(p) \/ Out(p)
    BY <2>1, <2>3, <2>4, FieldStill, PageStill
  <2>6. \A b \in Attempt : LinkOn(b) /\ WorkOn(b)
    BY <2>1 DEF LinkOn, WorkOn
  <2> QED
    BY <2>1, <2>5, <2>6, PageStep
<1>3. ASSUME Opens(a) \/ LinkCloses(a), ~CloseNetOnDrop(a[1])
      PROVE  CandInv'
  <2>1. /\ UNCHANGED <<roomVars, mode, app, work, driver, cand>>
        /\ \/ link' = [link EXCEPT ![a].state = "closed"]
           \/ link[a].state = "connecting" /\ link' = [link EXCEPT ![a].state = "open"]
    BY <1>3 DEF Opens, LinkCloses
  <2>2. \A p \in Player : Still(p) \/ Out(p)
    BY <1>0, <2>1, BegunStill, SameStill
  <2>3. \A b \in Attempt : LinkOn(b) /\ WorkOn(b)
    BY <1>0, <2>1, LinkState DEF LinkOn, WorkOn
  <2> QED
    BY <2>1, <2>2, <2>3, PageStep DEF roomVars
<1>4. ASSUME LinkCloses(a), CloseNetOnDrop(a[1])
      PROVE  CandInv'
  BY <1>0, <1>4, ClosesFits DEF LinkCloses
<1>5. ASSUME Opens(a)
      PROVE  CandInv'
  <2>1. CASE ~CloseNetOnDrop(a[1])
    BY <1>3, <1>5, <2>1
  <2>2. CASE CloseNetOnDrop(a[1])
    BY <1>0, <1>5, <2>2, ClosesFits DEF Opens
  <2> QED
    BY <2>1, <2>2
<1>6. LinkCloses(a) => CandInv'
  BY <1>3, <1>4
<1> QED
  BY <1>1, <1>2, <1>5, <1>6

\* A break of the signalling socket.
LEMMA BreaksFits ==
  ASSUME LobbyInv, LobbyInv', SameInv, CandInv, mode = "friend", NEW a \in Attempt,
         SocketBreaks(a)
  PROVE  CandInv'
<1>0. /\ Drivers /\ Links /\ Sockets /\ Queues /\ Break(a)
      /\ UNCHANGED <<app, link, driver, room, mode, work, cand>>
  BY DEF LobbyInv, Shaped, SameInv, SocketBreaks
<1>1. \A p \in Player : Still(p) \/ Out(p)
  BY <1>0, BegunStill, SameStill
<1>2. UpFits /\ DownFits
  <2>1. /\ \A b \in Attempt : up'[b] = up[b] \/ up'[b] = <<>>
        /\ \A b \in Attempt : down'[b] = down[b] \/ down'[b] = <<>>
    BY <1>0 DEF Break, Queues
  <2> QED
    BY <2>1, QueuesShrink DEF UpFits, DownFits
<1>3. \A b \in Attempt : SocketOn(b)
  <2>1. sock[a].phase = "live" /\ sock' = [sock EXCEPT ![a] = [sock[a] EXCEPT !.phase = "left"]]
    BY <1>0 DEF Break, Sockets
  <2>2. sock'[a].phase = "left" /\ sock'[a].code = sock[a].code
    BY <1>0, <2>1 DEF Sockets
  <2>3. \A b \in Attempt \ {a} : sock'[b] = sock[b]
    BY <1>0, <2>1 DEF Sockets
  <2> QED
    BY <2>1, <2>2, <2>3 DEF SocketOn
<1>4. SessionsFit
  BY <1>0, SameSessions
<1>5. \A b \in Attempt : LinkOn(b) /\ WorkOn(b)
  BY <1>0 DEF LinkOn, WorkOn
<1> QED
  BY <1>0, <1>1, <1>2, <1>3, <1>4, <1>5, QuietStep

\* Nothing but what is awaited changes.
LEMMA IdleFits ==
  ASSUME LobbyInv, LobbyInv', SameInv, CandInv, mode = "friend", mode' = mode,
         UNCHANGED <<room, sock, up, down, app, link, driver, cand>>,
         \A a \in Attempt : WorkOn(a)
  PROVE  CandInv'
<1>1. \A p \in Player : Still(p) \/ Out(p)
  BY BegunStill, SameStill DEF LobbyInv, Shaped, NoHandshake
<1>2. \A b \in Attempt : LinkOn(b)
  BY DEF LinkOn
<1> QED
  BY <1>1, <1>2, PageStep

\* room-joined and the answer: nothing of the peer is learned.
LEMMA JoinedFits ==
  ASSUME LobbyInv, LobbyInv', SameInv, CandInv, mode = "friend", NEW a \in Attempt,
         Joined(a) \/ AnswerComes(a)
  PROVE  CandInv'
<1>0. /\ Drivers /\ Links /\ Sockets /\ Queues /\ UNCHANGED <<room, mode, driver, link, cand>>
      /\ down[a] # <<>> /\ work' \subseteq work \cup {<<a, "answer">>}
  BY DEF LobbyInv, Shaped, SameInv, Joined, AnswerComes, peerVars, Coming, WantsAnswer, Signal
<1>1. \A b \in Attempt : LinkOn(b) /\ WorkOn(b)
  BY <1>0 DEF LinkOn, WorkOn
<1>2. CASE HangUp(a, <<[t |-> "leave-room"]>>) /\ app' = app
  <2> DEFINE ms == <<[t |-> "leave-room"]>>
  <2>1. HangUp(a, ms) /\ ms \in Seq({[t |-> "leave-room"]})
    BY <1>2
  <2> HIDE DEF ms
  <2>2. UpFits /\ DownFits /\ \A b \in Attempt : SocketOn(b)
    BY <1>0, <2>1, HangUpFits
  <2>3. \A p \in Player : Still(p) \/ Out(p)
    BY <1>0, <1>2, BegunStill, SameStill
  <2>4. SessionsFit
    BY <1>0, SameSessions
  <2> QED
    BY <1>0, <1>1, <2>2, <2>3, <2>4, QuietStep
<1>3. CASE ~(HangUp(a, <<[t |-> "leave-room"]>>) /\ app' = app)
  <2>1. /\ (\E v : app' = Set(a, "token", v)) \/ (\E v : app' = Set(a, "sdp", v))
        /\ down' = Heard(a) /\ UNCHANGED <<sock, up>>
    BY <1>3 DEF Joined, AnswerComes
  <2>2. \A p \in Player : NoHandshake(p)
    BY <1>0, BegunStill
  <2>3. \A p \in Player : Still(p) \/ Out(p)
    BY <2>1, <2>2, FieldStill
  <2> QED
    BY <1>0, <1>1, <2>1, <2>3, PageStep
<1> QED
  BY <1>2, <1>3

\* The host's driver is hooked, in the lobby.
LEMMA HookedFits ==
  ASSUME LobbyInv, LobbyInv', SameInv, CandInv, mode = "friend", NEW a \in Attempt, Hooked(a)
  PROVE  CandInv'
<1>0. /\ Drivers /\ Pages /\ UNCHANGED <<roomVars, mode, link, cand>> /\ work' \subseteq work
      /\ a[1] \in Player
  BY Attempts DEF LobbyInv, Shaped, SameInv, Hooked, Done
<1>1. \A b \in Attempt : LinkOn(b) /\ WorkOn(b)
  BY <1>0 DEF LinkOn, WorkOn
<1>2. CASE Alive(a)
  <2> DEFINE r == [app[a[1]] EXCEPT !.net = a]
             d == [NoDriver EXCEPT !.state = "handshake", !.token = app[a[1]].token]
  <2>1. app' = [app EXCEPT ![a[1]] = r] /\ driver' = [driver EXCEPT ![a] = d]
    BY <1>2 DEF Hooked, Set, Hook
  <2>2. DOMAIN d = DriverField
    BY DEF NoDriver, DriverField
  <2>3. /\ r.at = app[a[1]].at /\ r.peer = app[a[1]].peer /\ r.neg = app[a[1]].neg
        /\ r.sig = app[a[1]].sig /\ r.screen = app[a[1]].screen
    BY <1>0 DEF Pages, PageField
  <2> HIDE DEF r, d
  <2>4. app'[a[1]] = r /\ \A q \in Player \ {a[1]} : app'[q] = app[q]
    BY <1>0, <2>1 DEF Pages
  <2>5. \A q \in Player \ {a[1]} : NoHandshake(q)
    BY <1>0, <2>1, <2>2, DriverSet DEF NoHandshake
  <2>6. Still(a[1])
    BY <1>2, <2>3, <2>4 DEF Still, Alive, Screen
  <2>7. \A p \in Player : Still(p) \/ Out(p)
    BY <2>4, <2>5, <2>6, SameStill
  <2> QED
    BY <1>0, <1>1, <2>7, PageStep DEF roomVars
<1>3. CASE ~Alive(a)
  BY <1>0, <1>1, <1>3, IdleFits DEF Hooked, roomVars
<1> QED
  BY <1>2, <1>3

\* A call of the start fails.
LEMMA StartFailsFits ==
  ASSUME LobbyInv, LobbyInv', SameInv, CandInv, mode = "friend", NEW a \in Attempt, StartFails(a)
  PROVE  CandInv'
<1>0. work' \subseteq work /\ mode' = mode /\ a[1] \in Player
  BY Attempts DEF StartFails
<1>1. CASE Alive(a)
  BY <1>0, <1>1, ClosesFits DEF StartFails
<1>2. CASE ~Alive(a)
  <2>1. UNCHANGED <<room, sock, up, down, app, link, driver, cand>>
    BY <1>2 DEF StartFails, peerVars
  <2> QED
    BY <1>0, <2>1, IdleFits DEF WorkOn
<1> QED
  BY <1>1, <1>2

\* The offer or the answer of an attempt that is over, or that cannot be sent.
LEMMA NothingSentFits ==
  ASSUME LobbyInv, LobbyInv', SameInv, CandInv, mode = "friend", NEW a \in Attempt,
         OfferMade(a) \/ Accepted(a), ~(Alive(a) /\ CanSignal(a))
  PROVE  CandInv'
<1>0. work' \subseteq work /\ mode' = mode /\ a[1] \in Player
  BY Attempts DEF OfferMade, Accepted, Done
<1>1. CASE Alive(a)
  BY <1>0, <1>1, ClosesFits DEF OfferMade, Accepted
<1>2. CASE ~Alive(a)
  <2>1. UNCHANGED <<room, sock, up, down, app, link, driver, cand>>
    BY <1>2 DEF OfferMade, Accepted, peerVars, roomVars
  <2> QED
    BY <1>0, <2>1, IdleFits DEF WorkOn
<1> QED
  BY <1>1, <1>2

-----------------------------------------------------------------------------
(***************************************************************************)
(* The start.                                                              *)
(***************************************************************************)
\* What a step that moves no candidate and no transport leaves to show of one attempt.
LEMMA OwnPart ==
  ASSUME Stable, NEW a \in Attempt, LocalFits(a)', cand' = cand, link' = link,
         Current(a)' /\ PeerOf(a)' # None => Current(a) /\ PeerOf(a) # None,
         Held(a)', \A b \in Attempt : Opened(b) /\ InLobby(b)' => InLobby(b)
  PROVE  CandFits(a)'
<1>1. PeerFits(a)' /\ Gathered(a)' /\ Dropped(a)'
  BY PeerKept, GatheredKept, DroppedKept
<1> QED
  BY <1>1 DEF CandFits

\* Links and candidates as they were stay as they may be.
LEMMA HeldSame ==
  ASSUME Stable, NEW a \in Attempt, cand' = cand, link' = link, Current(a)' => Current(a),
         \A b \in Attempt : Current(b) /\ Current(b)' => Neg(b)' = Neg(b)
  PROVE  Held(a)'
<1>1. ASSUME NEW b \in Attempt, Current(b), Current(b)', HeldFor(a, b)
      PROVE  HeldFor(a, b)'
  BY <1>1 DEF HeldFor
<1> QED
  BY <1>1, HeldKept

\* A friend starts.
LEMMA StartFits ==
  ASSUME LobbyInv, LobbyInv', SameInv, CandInv, mode = "friend", NEW p \in Player, Start(p)
  PROVE  CandInv'
<1>0. PICK s \in Attempt : s = <<p, app[p].tries + 1>>
  BY DEF Start, Begin
<1> DEFINE n == app[p].tries + 1
           r == [app[p] EXCEPT !.screen = "lobby", !.at = s, !.tries = n]
<1>1. /\ app[p].screen = "menu" /\ work' = work \cup {<<s, "connect">>}
      /\ app' = [app EXCEPT ![p] = r]
      /\ UNCHANGED <<room, sock, up, down, mode, link, driver, cand>>
  <2>1. s[2] = n
    BY <1>0
  <2> QED
    BY <1>0, <2>1 DEF Start, Begin, roomVars, peerVars
<1>2. /\ app[p].tries \in Nat /\ n \in Nat /\ n > app[p].tries /\ s[1] = p /\ s[2] = n
      /\ Pages /\ DOMAIN app[p] = PageField /\ s # None
  BY <1>0, Attempts DEF LobbyInv, Own, Shaped, Pages
<1>3. /\ r.at = s /\ r.peer = app[p].peer /\ r.neg = app[p].neg /\ r.screen = "lobby"
  BY <1>2 DEF PageField
<1> HIDE DEF r, n
<1>4. app'[p] = r /\ \A q \in Player \ {p} : app'[q] = app[q]
  BY <1>1, <1>2 DEF Pages
<1>5. /\ app[p].at = None /\ app[p].neg = None /\ app[p].peer = None
      /\ sock[s].phase = "idle" /\ \A w \in work : w[1] # s
  BY <1>1, <1>2, MenuIsEmpty DEF CandInv, Met
<1>6. ~link[s].remote
  <2>1. OnceOf(s) /\ s[2] > app[s[1]].tries
    BY <1>1, <1>2 DEF SameInv, Once
  <2> QED
    BY <2>1 DEF OnceOf, Fresh
<1>7. \A a \in Attempt : Current(a)' <=> (a = s \/ (a[1] # p /\ Current(a)))
  BY <1>2, <1>3, <1>4, Attempts DEF Current
<1>8. Stable
  <2>1. \A a \in Attempt : app'[p].at = a => ~Opened(a)
    BY <1>3, <1>4, <1>5 DEF Opened
  <2>2. \A q \in Player : Life(q)
    BY <1>3, <1>4, <1>5, <2>1 DEF Life
  <2>3. \A a \in Attempt : Onward(a)
    BY <1>1 DEF Onward, Opened
  <2> QED
    BY <1>1, <2>2, <2>3 DEF Stable, CandInv
<1>9. \A a \in Attempt : Opened(a)' <=> Opened(a)
  BY <1>1 DEF Opened
<1>10. RoomsFit'
  <2>1. \A a \in Attempt : <<a, "create">> \in work' => <<a, "create">> \in work
    BY <1>1
  <2> QED
    BY <1>1, <1>8, <1>9, <2>1, RoomsKept, SameSessions
<1>11. UpFits /\ DownFits
  BY <1>1, QueuesShrink DEF UpFits, DownFits
<1>12. CandFits(s)'
  <2>1. PeerOf(s)' = None /\ Neg(s)' = None
    BY <1>2, <1>3, <1>4, <1>5 DEF PeerOf, Neg
  <2>2. LocalFits(s)'
    BY <1>1, <1>2, <1>3, <1>4, <1>5, <1>6, <1>9, <2>1 DEF LocalFits, Opened
  <2>3. PeerFits(s)' /\ Held(s)' /\ Dropped(s)'
    BY <1>2, <2>1, Attempts DEF PeerFits, Held, Dropped, Or
  <2>4. Gathered(s)'
    <3>1. Gathered(s)
      BY <1>1 DEF CandInv, CandFits
    <3> QED
      <4>1. ~Past(s)
        BY <1>5 DEF Past
      <4>2. link'[s] = link[s] /\ cand'[s] = cand[s]
        BY <1>1
      <4> QED
        BY <3>1, <4>1, <4>2 DEF Gathered
  <2> QED
    BY <2>2, <2>3, <2>4 DEF CandFits
<1>13. ASSUME NEW a \in Attempt, a # s
       PROVE  CandFits(a)'
  <2>1. Current(a)' => Current(a) /\ a[1] # p
    BY <1>7, <1>13
  <2>2. a[1] \in Player /\ PeerOf(a)' = PeerOf(a) /\ Neg(a)' = Neg(a)
    BY <1>3, <1>4, <1>5, Attempts DEF PeerOf, Neg
  <2>3. LocalFits(a)'
    <3>1. LocalFits(a)
      BY <1>8 DEF Stable, CandInv, CandFits
    <3>2. \A step : <<a, step>> \in work' => <<a, step>> \in work \/ <<a, step>> = <<s, "connect">>
      BY <1>1
    <3>3. <<a, "create">> \in work' => <<a, "create">> \in work
      BY <1>13, <3>2
    <3>4. <<a, "offer">> \in work' => <<a, "offer">> \in work
      BY <1>13, <3>2
    <3>5. Current(a)' => app'[a[1]] = app[a[1]]
      BY <1>4, <2>1, <2>2
    <3> QED
      BY <1>1, <1>9, <2>1, <2>2, <3>1, <3>3, <3>4, <3>5 DEF LocalFits
  <2>4. Held(a)'
    <3>1. \A b \in Attempt : Current(b) /\ Current(b)' => Neg(b)' = Neg(b)
      BY <1>4, <1>5, <1>7, Attempts DEF Current, Neg
    <3> QED
      BY <1>1, <1>8, <2>1, <3>1, HeldSame
  <2>5. \A b \in Attempt : Opened(b) /\ InLobby(b)' => InLobby(b)
    BY <1>4, <1>5, <1>7, Attempts DEF Opened, InLobby, Screen
  <2> QED
    BY <1>1, <1>8, <2>1, <2>2, <2>3, <2>4, <2>5, OwnPart
<1> QED
  BY <1>8, <1>10, <1>11, <1>12, <1>13, CandStep

\* A socket is opened, or a room is asked for, by an attempt that has its signalling client.
LEMMA OpeningFits ==
  ASSUME LobbyInv, LobbyInv', SameInv, CandInv, mode = "friend", mode' = mode,
         NEW a \in Attempt, ~Opened(a), app' = app \/ (Current(a) /\ app' = Set(a, "sig", a)),
         sock'[a] = sock[a] \/ (Hosting(a) => sock'[a].code = a),
         \A b \in Attempt \ {a} : sock'[b] = sock[b],
         \A w \in work' \ work : w[1] = a /\ w[2] # "offer",
         <<a, "create">> \in work' => ~(Opened(a)'),
         Current(a) /\ (Opened(a)' \/ <<a, "create">> \in work') => app'[a[1]].sig = a,
         UNCHANGED <<up, down, link, driver, cand>>, SessionsFit
  PROVE  CandInv'
<1>0. a[1] \in Player /\ Pages /\ DOMAIN app[a[1]] = PageField /\ HostFacts
  BY Attempts, Hosts DEF LobbyInv, Shaped, Pages
<1>1. \A p \in Player :
        /\ app'[p].at = app[p].at /\ app'[p].peer = app[p].peer /\ app'[p].neg = app[p].neg
        /\ app'[p].screen = app[p].screen /\ app'[p].net = app[p].net
        /\ app'[p].sig = app[p].sig \/ (p = a[1] /\ Current(a) /\ app'[p].sig = a)
  <2>1. CASE app' = app
    BY <2>1
  <2>2. CASE Current(a) /\ app' = Set(a, "sig", a)
    <3> DEFINE r == [app[a[1]] EXCEPT !.sig = a]
    <3>1. app' = [app EXCEPT ![a[1]] = r]
      BY <2>2 DEF Set
    <3>2. /\ r.at = app[a[1]].at /\ r.peer = app[a[1]].peer /\ r.neg = app[a[1]].neg
          /\ r.net = app[a[1]].net /\ r.screen = app[a[1]].screen /\ r.sig = a
      BY <1>0 DEF PageField
    <3> HIDE DEF r
    <3>3. app'[a[1]] = r /\ \A q \in Player \ {a[1]} : app'[q] = app[q]
      BY <1>0, <3>1 DEF Pages
    <3> QED
      BY <2>2, <3>2, <3>3
  <2> QED
    BY <2>1, <2>2
<1>2. Stable
  <2>1. \A p \in Player : Life(p)
    BY <1>1 DEF Life
  <2>2. \A b \in Attempt : Onward(b)
    BY DEF Onward, Opened
  <2> QED
    BY <2>1, <2>2 DEF Stable, CandInv
<1>3. RoomsFit'
  <2>0. RoomsFit
    BY DEF CandInv
  <2>1. ASSUME NEW h \in HostAttempt, Opened(h)'
        PROVE  sock'[h].code = h
    <3>1. h \in Attempt /\ Hosting(h)
      BY <1>0 DEF HostFacts, Hosting
    <3> QED
      BY <2>0, <2>1, <3>1 DEF RoomsFit, Opened
  <2>2. ASSUME NEW b \in Attempt, <<b, "create">> \in work'
        PROVE  ~(Opened(b)')
    <3>1. b # a => <<b, "create">> \in work
      BY <2>2
    <3> QED
      BY <2>0, <2>2, <3>1 DEF RoomsFit, Opened
  <2> QED
    BY <1>2, <2>1, <2>2, SessionsKept DEF RoomsFit
<1>4. UpFits /\ DownFits
  BY QueuesShrink DEF UpFits, DownFits
<1>5. ASSUME NEW b \in Attempt
      PROVE  CandFits(b)'
  <2>1. /\ b[1] \in Player /\ Current(b)' = Current(b) /\ PeerOf(b)' = PeerOf(b)
        /\ Neg(b)' = Neg(b)
    BY <1>1, Attempts DEF Current, PeerOf, Neg
  <2>2. LocalFits(b)'
    <3>1. LocalFits(b)
      BY DEF CandInv, CandFits
    <3>2. <<b, "offer">> \in work' => <<b, "offer">> \in work
      OBVIOUS
    <3>3. Current(b) /\ (Opened(b)' \/ <<b, "create">> \in work') => app'[b[1]].sig = b
      <4>1. CASE b = a
        BY <4>1
      <4>2. CASE b # a
        <5>1. Opened(b)' => Opened(b)
          BY <4>2 DEF Opened
        <5>2. <<b, "create">> \in work' => <<b, "create">> \in work
          BY <4>2
        <5>3. Current(b) => app'[b[1]].sig = app[b[1]].sig
          BY <1>1, <2>1, <4>2 DEF Current
        <5> QED
          BY <3>1, <5>1, <5>2, <5>3 DEF LocalFits
      <4> QED
        BY <4>1, <4>2
    <3>4. app'[b[1]].screen = app[b[1]].screen /\ app'[b[1]].net = app[b[1]].net
      BY <1>1, <2>1
    <3> QED
      BY <2>1, <3>1, <3>2, <3>3, <3>4 DEF LocalFits
  <2>3. Held(b)'
    <3>1. \A x \in Attempt : Neg(x)' = Neg(x)
      BY <1>1, Attempts DEF Neg
    <3> QED
      BY <1>2, <2>1, <3>1, HeldSame
  <2>4. \A x \in Attempt : InLobby(x)' => InLobby(x)
    BY <1>1, Attempts DEF InLobby, Current, Screen
  <2> QED
    BY <1>2, <2>1, <2>2, <2>3, <2>4, OwnPart
<1> QED
  BY <1>2, <1>3, <1>4, <1>5, CandStep

\* connectSignal() has answered.
LEMMA ConnectedFits ==
  ASSUME LobbyInv, LobbyInv', SameInv, CandInv, mode = "friend", NEW a \in Attempt, Connected(a)
  PROVE  CandInv'
<1>0. /\ <<a, "connect">> \in work /\ UNCHANGED <<up, down, room, mode, link, driver, cand>>
      /\ ~Opened(a) /\ Sockets
  BY DEF Connected, Connecting, peerVars, roomVars, OpenSocket, LobbyInv, Calling, Opened, Shaped
<1>1. CASE ~Alive(a)
  <2>1. UNCHANGED <<app, sock>> /\ work' \subseteq work
    BY <1>1 DEF Connected, roomVars
  <2> QED
    BY <1>0, <2>1, IdleFits DEF WorkOn
<1>2. CASE Alive(a) /\ Hosting(a)
  <2>1. /\ app' = Set(a, "sig", a) /\ sock' = sock
        /\ work' = (work \ {<<a, "connect">>}) \cup {<<a, "create">>}
    BY <1>2 DEF Connected, roomVars
  <2>2. app'[a[1]].sig = a
    BY <2>1, Attempts DEF Set, LobbyInv, Shaped, Pages, PageField
  <2>3. ~(Opened(a)') /\ \A w \in work' \ work : w[1] = a /\ w[2] # "offer"
    <3>1. <<a, "create">>[1] = a /\ <<a, "create">>[2] # "offer"
      OBVIOUS
    <3> QED
      BY <1>0, <2>1, <3>1 DEF Opened
  <2>4. Current(a) /\ SessionsFit /\ mode' = mode /\ \A b \in Attempt \ {a} : sock'[b] = sock[b]
    BY <1>0, <1>2, <2>1, SameSessions DEF Alive
  <2> QED
    BY <1>0, <2>1, <2>2, <2>3, <2>4, OpeningFits
<1>3. CASE Alive(a) /\ ~Hosting(a)
  <2>1. /\ app' = Set(a, "sig", a) /\ \E c \in shown : OpenSocket(a, c)
        /\ work' = (work \ {<<a, "connect">>}) \cup {<<a, "join">>}
    BY <1>3 DEF Connected, roomVars
  <2>2. app'[a[1]].sig = a
    BY <2>1, Attempts DEF Set, LobbyInv, Shaped, Pages, PageField
  <2>3. \A b \in Attempt \ {a} : sock'[b] = sock[b]
    BY <1>0, <2>1 DEF OpenSocket, Sockets
  <2>4. <<a, "create">> \notin work' /\ \A w \in work' \ work : w[1] = a /\ w[2] # "offer"
    <3>1. <<a, "join">>[1] = a /\ <<a, "join">>[2] = "join" /\ <<a, "create">> # <<a, "join">>
      OBVIOUS
    <3>2. <<a, "create">> \notin work
      <4>1. <<a, "create">> \in work => Kind(<<a, "create">>)
        BY DEF SameInv, Kinds
      <4> QED
        BY <1>3, <4>1 DEF Kind
    <3> QED
      BY <2>1, <3>1, <3>2
  <2>5. Current(a) /\ SessionsFit /\ mode' = mode
    BY <1>0, <1>3, <2>1, SameSessions DEF Alive, OpenSocket
  <2> QED
    BY <1>0, <1>3, <2>1, <2>2, <2>3, <2>4, <2>5, OpeningFits
<1> QED
  BY <1>1, <1>2, <1>3

\* The room is there, and the host's socket is opened.
LEMMA CreatedFits ==
  ASSUME LobbyInv, LobbyInv', SameInv, CandInv, mode = "friend", NEW a \in Attempt, Created(a)
  PROVE  CandInv'
<1>0. /\ <<a, "create">> \in work /\ UNCHANGED <<up, down, mode, app, link, driver, cand>>
      /\ work' = (work \ {<<a, "create">>}) \cup {<<a, "join">>}
      /\ Sockets /\ Rooms /\ a \in Code
  <2>1. Hosting(a)
    BY DEF Created, SameInv, Kinds, Kind
  <2> QED
    BY <2>1, LobbyAssumption DEF Created, peerVars, LobbyInv, Shaped, SameInv, Hosting, HostAttempt
<1>1. ~Opened(a) /\ (Current(a) => app[a[1]].sig = a)
  <2>1. RoomsFit /\ LocalFits(a)
    BY DEF CandInv, CandFits
  <2> QED
    BY <1>0, <2>1 DEF RoomsFit, LocalFits
<1>2. sock'[a].code = a /\ \A b \in Attempt \ {a} : sock'[b] = sock[b]
  BY <1>0 DEF Created, Sockets
<1>3. SessionsFit
  <2>1. \A c \in Code : room'[c].sessions = room[c].sessions \/ room'[c].sessions = <<>>
    BY <1>0 DEF Created, Rooms
  <2>2. \A c \in Code : Grows(room'[c].sessions, room[c].sessions, {})
    BY <2>1, Growing
  <2> QED
    BY <2>2 DEF SessionsFit
<1>4. <<a, "create">> \notin work'
  BY <1>0
<1> QED
  BY <1>0, <1>1, <1>2, <1>3, <1>4, OpeningFits

-----------------------------------------------------------------------------
(***************************************************************************)
(* Peers, candidates and transports.                                       *)
(***************************************************************************)
\* A message is taken, or said, and the rooms are as they were.
LEMMA TakenFits ==
  ASSUME Queues, NEW a \in Attempt, down[a] # <<>>, down' = Heard(a), UNCHANGED <<room, up>>
  PROVE  UpFits /\ DownFits /\ SessionsFit
<1>1. \A b \in Attempt : down'[b] = down[b] \/ (down[b] # <<>> /\ down'[b] = Tail(down[b]))
  BY DEF Heard, Queues
<1>2. UpFits /\ DownFits
  BY <1>1, QueuesShrink DEF UpFits, DownFits
<1> QED
  BY <1>2, SameSessions

\* A signal is sent to the peer.
LEMMA SaidFits ==
  ASSUME Stable, Queues, NEW a \in Attempt, Past(a), Current(a), NEW to, NEW body,
         to = PeerOf(a), to # None, up' = Signalled(a, to, body), UNCHANGED <<room, down>>
  PROVE  UpFits /\ DownFits /\ SessionsFit
<1> DEFINE m == [t |-> "signal", to |-> to, body |-> body]
<1>1. up' = Says(a, <<m>>) /\ Addressed(a, m)
  BY DEF Signalled, Addressed
<1> HIDE DEF m
<1>2. Addressed(a, m)'
  BY <1>1, LetterKept
<1>3. ASSUME NEW b \in Attempt
      PROVE  \E R : Grows(up'[b], up[b], R) /\ \A w \in R : Addressed(b, w)'
  <2>1. up'[b] = up[b] \/ (b = a /\ up'[b] = up[b] \o <<m>>)
    BY <1>1 DEF Says, Queues
  <2>2. CASE up'[b] = up[b]
    BY <2>2, QueuesShrink
  <2>3. CASE b = a /\ up'[b] = up[b] \o <<m>>
    <3>1. <<m>> \in Seq({m})
      OBVIOUS
    <3>2. Grows(up'[b], up[b], {m})
      BY <2>3, <3>1, Growing
    <3> QED
      BY <1>2, <2>3, <3>2
  <2> QED
    BY <2>1, <2>2, <2>3
<1>4. DownFits
  BY QueuesShrink DEF DownFits
<1> QED
  BY <1>3, <1>4, SameSessions DEF UpFits

\* The peer of a host is a guest and the other way round, and of each player one attempt
\* is current.
LEMMA OtherSide ==
  ASSUME NEW a \in Attempt, NEW b \in Attempt,
         b \in (IF Hosting(a) THEN Guests ELSE HostAttempt)
  PROVE  /\ a[1] # b[1] /\ a # b
         /\ \A x \in Attempt : x[1] \in {a[1], b[1]}
<1>1. HostFacts /\ \A x \in Attempt : x[1] \in {Host, Guest}
  BY Hosts, Attempts DEF Player
<1> QED
  BY <1>1 DEF HostFacts, Hosting

\* Of two that are in a room with one, and are hosts, neither is another.
LEMMA OneHost ==
  ASSUME RoomsFit, NEW g \in Attempt, NEW h \in HostAttempt, NEW k \in HostAttempt,
         Together(g, h), Together(g, k)
  PROVE  h = k
BY DEF RoomsFit, Together

\* Whoever has a for its peer is the peer of a, or a is a guest that has none yet.
LEMMA PeerOfPeer ==
  ASSUME CandInv, mode = "friend", NEW a \in Attempt, NEW s \in Attempt, Current(a), Current(s),
         PeerOf(s) = a
  PROVE  PeerOf(a) = s \/ (~Hosting(a) /\ PeerOf(a) = None)
<1>0. HostFacts /\ RoomsFit /\ PeerFits(a) /\ PeerFits(s) /\ a # None
  BY Hosts, Attempts DEF CandInv, CandFits
<1>1. a \in (IF Hosting(s) THEN Guests ELSE HostAttempt) /\ Together(s, a)
  BY <1>0 DEF PeerFits, Or
<1>2. CASE Hosting(a)
  <2>1. ~Hosting(s)
    BY <1>0, <1>1, <1>2 DEF HostFacts, Hosting
  <2> QED
    BY <1>0, <2>1 DEF PeerFits
<1>3. CASE ~Hosting(a) /\ PeerOf(a) # None
  <2>1. PeerOf(a) \in HostAttempt
    BY <1>0, <1>3 DEF PeerFits, Or
  <2>2. s \in HostAttempt
    BY <1>0, <1>1, <1>3 DEF HostFacts, Hosting
  <2>3. PICK h \in HostAttempt : h = PeerOf(a)
    BY <2>1
  <2>4. Together(a, h) /\ Together(a, s)
    BY <1>0, <1>1, <2>3 DEF PeerFits, HostFacts, Together
  <2> QED
    BY <1>0, <2>2, <2>3, <2>4, OneHost
<1> QED
  BY <1>2, <1>3

\* A page that has no peer yet learns of it.
LEMMA PeerLearned ==
  ASSUME LobbyInv, LobbyInv', SameInv, CandInv, mode = "friend", mode' = mode,
         NEW a \in Attempt, Current(a), NEW b \in Attempt, PeerOf(a) \in {b, None},
         b \in (IF Hosting(a) THEN Guests ELSE HostAttempt), Together(a, b),
         ~Hosting(a) /\ Current(b) => PeerOf(b) = a,
         NEW r, app' = [app EXCEPT ![a[1]] = r], r.at = app[a[1]].at, r.peer = b,
         r.neg = app[a[1]].neg, r.sig = app[a[1]].sig, r.screen = app[a[1]].screen,
         r.net = app[a[1]].net, NEW s \in {"offer", "accept"}, work' = work \cup {<<a, s>>},
         s = "offer" => PeerOf(a) = None,
         down[a] # <<>>, down' = Heard(a), UNCHANGED <<room, sock, up, link, driver, cand>>
  PROVE  CandInv'
<1>0. /\ a[1] \in Player /\ a # None /\ b # None /\ Pages /\ Queues /\ HostFacts
      /\ a[1] # b[1] /\ a # b
  BY Attempts, Hosts, OtherSide DEF LobbyInv, Shaped, SameInv
<1>1. app'[a[1]] = r /\ \A q \in Player \ {a[1]} : app'[q] = app[q]
  BY <1>0 DEF Pages
<1>2. Stable
  <2>1. \A p \in Player : Life(p)
    BY <1>0, <1>1 DEF Life, Current, PeerOf
  <2>2. \A x \in Attempt : Onward(x)
    BY DEF Onward, Opened
  <2> QED
    BY <2>1, <2>2 DEF Stable, CandInv
<1>3. \A x \in Attempt : /\ Current(x)' <=> Current(x)
                         /\ Neg(x)' = Neg(x) /\ Opened(x)' = Opened(x)
                         /\ Current(x) /\ x # a => x[1] # a[1] /\ app'[x[1]] = app[x[1]]
  BY <1>1, Attempts DEF Current, Neg, Opened
<1>4. \A x, t : <<x, t>> \in work' => <<x, t>> \in work \/ (x = a /\ t = s)
  OBVIOUS
<1>5. RoomsFit'
  BY <1>2, <1>3, <1>4, RoomsKept, SameSessions
<1>6. UpFits /\ DownFits
  BY <1>0, TakenFits
<1>7. \A x \in Attempt : InLobby(x)' => InLobby(x)
  BY <1>1, Attempts DEF InLobby, Current, Screen
<1>8. ASSUME NEW x \in Attempt
      PROVE  Gathered(x)' /\ Held(x)' /\ Dropped(x)'
  <2>1. Gathered(x)' /\ Dropped(x)'
    BY <1>2, <1>7, GatheredKept, DroppedKept
  <2>2. Held(x)'
    BY <1>2, <1>3, HeldSame
  <2> QED
    BY <2>1, <2>2
<1>9. LocalFits(a)' /\ PeerFits(a)'
  <2>1. LocalFits(a)
    BY DEF CandInv, CandFits
  <2>2. PeerOf(a)' = b
    BY <1>1 DEF PeerOf
  <2>3. <<a, "offer">> \in work' => Neg(a) = None
    BY <1>4, <2>1 DEF LocalFits
  <2>4. <<a, "create">> \in work' => <<a, "create">> \in work
    BY <1>4
  <2>5. LocalFits(a)'
    BY <1>0, <1>1, <1>3, <2>1, <2>2, <2>3, <2>4 DEF LocalFits
  <2>6. Together(a, b)'
    BY <1>2, TogetherKept
  <2>7. Current(b)' => PeerOf(b)' = PeerOf(b) /\ Current(b)
    BY <1>0, <1>3 DEF PeerOf
  <2>8. PeerFits(a)'
    BY <2>2, <2>6, <2>7 DEF PeerFits, Or, Hosting
  <2> QED
    BY <2>5, <2>8
<1>10. ASSUME NEW x \in Attempt, x # a
       PROVE  LocalFits(x)' /\ PeerFits(x)'
  <2>1. LocalFits(x)
    BY DEF CandInv, CandFits
  <2>2. Current(x) => PeerOf(x)' = PeerOf(x)
    BY <1>3, <1>10 DEF PeerOf
  <2>3. \A t : <<x, t>> \in work' => <<x, t>> \in work
    BY <1>4, <1>10
  <2>4. LocalFits(x)'
    BY <1>3, <1>10, <2>1, <2>2, <2>3 DEF LocalFits
  <2> QED
    BY <1>2, <1>3, <2>2, <2>4, PeerKept
<1> QED
  BY <1>2, <1>5, <1>6, <1>8, <1>9, <1>10, CandStep DEF CandFits

\* peer-joined: the host learns of its guest.
LEMMA PeerJoinedFits ==
  ASSUME LobbyInv, LobbyInv', SameInv, CandInv, mode = "friend", NEW a \in Attempt, PeerJoined(a)
  PROVE  CandInv'
<1> DEFINE m == Head(down[a])
           r == [app[a[1]] EXCEPT !.peer = m.peer]
<1>0. /\ m.t = "peer-joined" /\ down[a] # <<>> /\ Hosting(a) /\ Current(a) /\ PeerOf(a) = None
      /\ work' = work \cup {<<a, "offer">>} /\ down' = Heard(a) /\ app' = Set(a, "peer", m.peer)
      /\ UNCHANGED <<room, sock, up, link, driver, cand, mode>>
  BY DEF PeerJoined, WantsPeer, Coming, Alive, PeerOf, peerVars
<1>1. HostFacts /\ RoomsFit /\ LettersFit /\ DOMAIN app[a[1]] = PageField
  BY Hosts, Attempts DEF CandInv, LobbyInv, Shaped, Pages
<1>2. m.peer \in Attempt \ {a} /\ Together(a, m.peer)
  BY <1>0, <1>1, HeadFits DEF Delivered
<1>3. app' = [app EXCEPT ![a[1]] = r]
  BY <1>0 DEF Set
<1>4. /\ r.at = app[a[1]].at /\ r.peer = m.peer /\ r.neg = app[a[1]].neg
      /\ r.sig = app[a[1]].sig /\ r.screen = app[a[1]].screen /\ r.net = app[a[1]].net
  BY <1>1 DEF PageField
<1> HIDE DEF r
<1>5. PICK b \in Attempt : b = m.peer
  BY <1>2
<1>6. b \in Guests
  BY <1>0, <1>1, <1>2, <1>5 DEF RoomsFit, Together, HostFacts, Hosting
<1> QED
  BY <1>0, <1>2, <1>3, <1>4, <1>5, <1>6, PeerLearned

\* The offer: the guest learns of its host.
LEMMA OfferComesFits ==
  ASSUME LobbyInv, LobbyInv', SameInv, CandInv, mode = "friend", NEW a \in Attempt, OfferComes(a)
  PROVE  CandInv'
<1> DEFINE m == Head(down[a])
           r == [app[a[1]] EXCEPT !.sdp = TRUE, !.peer = m.from]
<1>0. /\ m.t = "signaled" /\ m.body = "offer" /\ down[a] # <<>> /\ ~Hosting(a) /\ Current(a)
      /\ PeerOf(a) \in {m.from, None}
      /\ work' = work \cup {<<a, "accept">>} /\ down' = Heard(a)
      /\ UNCHANGED <<room, sock, up, link, driver, cand, mode>>
  BY DEF OfferComes, WantsOffer, Signal, Coming, Alive, PeerOf, FromPeer, Sender, peerVars
<1>1. HostFacts /\ LettersFit /\ DOMAIN app[a[1]] = PageField
  BY Hosts, Attempts DEF CandInv, LobbyInv, Shaped, Pages
<1>2. m.from \in HostAttempt
  BY <1>0, HeadTrue DEF TrueHeard, SameInv
<1>3. Together(a, m.from) /\ (Current(m.from) => PeerOf(m.from) = a)
  BY <1>0, <1>1, HeadFits DEF Delivered
<1>4. app' = [app EXCEPT ![a[1]] = r]
  BY DEF OfferComes, Sender
<1>5. /\ r.at = app[a[1]].at /\ r.peer = m.from /\ r.neg = app[a[1]].neg
      /\ r.sig = app[a[1]].sig /\ r.screen = app[a[1]].screen /\ r.net = app[a[1]].net
  BY <1>1 DEF PageField
<1> HIDE DEF r
<1>6. PICK b \in Attempt : b = m.from
  BY <1>1, <1>2 DEF HostFacts
<1> QED
  BY <1>0, <1>2, <1>3, <1>4, <1>5, <1>6, PeerLearned

\* One candidate moves, and nothing else but what is taken or said.
LEMMA OneCandidate ==
  ASSUME LobbyInv, LobbyInv', SameInv, CandInv, mode = "friend", mode' = mode,
         UNCHANGED <<room, sock, app, link, driver, work>>, UpFits, DownFits,
         NEW s \in Attempt, NEW v, cand' = [cand EXCEPT ![s] = v], Past(s),
         Current(s) => PeerOf(s) # None,
         \A b \in Attempt : Current(s) /\ PeerOf(s) = b /\ Current(b) => HeldFor(s, b)',
         Dropped(s)'
  PROVE  CandInv'
<1>0. DOMAIN cand = Attempt /\ \A x \in Attempt : CandFits(x)
  BY DEF CandInv
<1>1. Stable
  <2>1. \A p \in Player : Life(p)
    BY DEF Life
  <2>2. \A x \in Attempt : Onward(x)
    BY DEF Onward, Opened
  <2> QED
    BY <1>0, <2>1, <2>2 DEF Stable
<1>2. \A x \in Attempt : /\ Current(x)' = Current(x) /\ PeerOf(x)' = PeerOf(x)
                         /\ Neg(x)' = Neg(x) /\ Opened(x)' = Opened(x) /\ InLobby(x)' = InLobby(x)
                         /\ Past(x)' = Past(x)
  BY DEF Current, PeerOf, Neg, Opened, InLobby, Screen, Past
<1>3. RoomsFit'
  BY <1>1, <1>2, RoomsKept, SameSessions
<1>4. ASSUME NEW x \in Attempt
      PROVE  LocalFits(x)' /\ PeerFits(x)'
  <2>1. LocalFits(x)'
    BY <1>0, <1>2 DEF CandFits, LocalFits
  <2> QED
    BY <1>1, <1>2, <2>1, PeerKept
<1>5. ASSUME NEW x \in Attempt, x # s
      PROVE  Gathered(x)' /\ Held(x)' /\ Dropped(x)'
  <2>1. cand'[x] = cand[x]
    BY <1>0, <1>5
  <2>2. Gathered(x)' /\ Dropped(x)'
    BY <1>1, <1>2, <2>1, GatheredKept, DroppedKept
  <2>3. \A b \in Attempt : HeldFor(x, b) => HeldFor(x, b)'
    BY <1>2, <2>1 DEF HeldFor
  <2> QED
    BY <1>1, <1>2, <2>1, <2>2, <2>3, HeldKept
<1>6. Gathered(s)' /\ Held(s)'
  BY <1>2 DEF Gathered, Held
<1> QED
  BY <1>1, <1>3, <1>4, <1>5, <1>6, CandStep DEF CandFits

\* A candidate comes, and is taken by a lobby or dropped.
LEMMA IceFits ==
  ASSUME LobbyInv, LobbyInv', SameInv, CandInv, mode = "friend", NEW a \in Attempt,
         IceComes(a) \/ (Ignored(a) /\ Signal(a, "ice"))
  PROVE  CandInv'
<1> DEFINE m == Head(down[a])
<1>0. /\ m.t = "signaled" /\ Signal(a, "ice") /\ down[a] # <<>> /\ down' = Heard(a)
      /\ UNCHANGED <<room, sock, up, mode, app, link, driver, work>>
      /\ Queues /\ LettersFit /\ DOMAIN cand = Attempt
  BY DEF IceComes, WantsIce, Ignored, Signal, Coming, SameInv, CandInv
<1>1. /\ m.from \in Attempt /\ Past(m.from) /\ Together(a, m.from)
      /\ Current(m.from) => PeerOf(m.from) = a
  BY <1>0, HeadFits DEF Delivered
<1> HIDE DEF m
<1>2. PICK s \in Attempt : s = m.from
  BY <1>1
<1>3. UpFits /\ DownFits
  BY <1>0, TakenFits
<1>4. /\ LocalFits(a) /\ a # None /\ Past(s) /\ (Current(s) => PeerOf(s) # None) /\ Opened(a)
      /\ Current(s) => PeerOf(s) = a
  BY <1>1, <1>2, Attempts DEF CandInv, CandFits, Together
<1>5. CASE IceComes(a)
  <2>1. cand' = [cand EXCEPT ![s] = Ingested(a)]
    BY <1>2, <1>5 DEF IceComes, Sender, m
  <2>2. Current(a)
    BY <1>5 DEF IceComes, WantsIce, InLobby
  <2>3. cand'[s] = Ingested(a) /\ Ingested(a) # "dropped"
    BY <1>0, <2>1 DEF Ingested
  <2>4. HeldFor(s, a)'
    BY <1>0, <1>4, <2>2, <2>3 DEF HeldFor, Ingested, LocalFits, Neg
  <2>5. Dropped(s)'
    BY <2>3 DEF Dropped
  <2>6. \A b \in Attempt : Current(s) /\ PeerOf(s) = b /\ Current(b) => HeldFor(s, b)'
    BY <1>4, <2>4
  <2> HIDE DEF CandInv
  <2> QED
    BY <1>0, <1>3, <1>4, <2>1, <2>5, <2>6, OneCandidate
<1>6. CASE Ignored(a) /\ Signal(a, "ice")
  <2>1. cand' = [cand EXCEPT ![s] = "dropped"] /\ ~WantsIce(a)
    BY <1>2, <1>6 DEF Ignored, Sender, m
  <2>2. cand'[s] = "dropped"
    BY <1>0, <2>1
  <2>3. \A b \in Attempt : HeldFor(s, b)'
    BY <2>2 DEF HeldFor
  <2>4. ASSUME Current(s), InLobby(a)
        PROVE  FALSE
    <3>1. Current(a)
      BY <2>4 DEF InLobby
    <3>2. Attached(a)
      BY <1>4, <3>1 DEF LocalFits, Attached
    <3>3. FromPeer(a)
      BY <1>2, <1>4, <2>4, <3>1, PeerOfPeer DEF FromPeer, Sender, PeerOf, m
    <3> QED
      BY <1>0, <2>1, <2>4, <3>2, <3>3 DEF WantsIce
  <2>5. Dropped(s)'
    <3>1. /\ Current(s)' = Current(s) /\ PeerOf(s)' = PeerOf(s) /\ InLobby(a)' = InLobby(a)
      BY <1>0 DEF Current, PeerOf, InLobby, Screen
    <3> QED
      BY <1>4, <2>4, <3>1 DEF Dropped
  <2> QED
    BY <1>0, <1>3, <1>4, <2>1, <2>3, <2>5, OneCandidate
<1> QED
  BY <1>5, <1>6

\* Whatever else is not for this stage.
LEMMA IgnoredFits ==
  ASSUME LobbyInv, LobbyInv', SameInv, CandInv, mode = "friend", NEW a \in Attempt, Ignored(a)
  PROVE  CandInv'
<1>1. CASE Signal(a, "ice")
  BY <1>1, IceFits
<1>2. CASE ~Signal(a, "ice")
  <2>1. /\ down[a] # <<>> /\ down' = Heard(a)
        /\ UNCHANGED <<room, sock, up, mode, app, link, driver, work, cand>>
    BY <1>2 DEF Ignored
  <2>2. \A p \in Player : Still(p) \/ Out(p)
    BY <2>1, BegunStill, SameStill DEF LobbyInv, Shaped, NoHandshake
  <2>3. \A b \in Attempt : LinkOn(b) /\ WorkOn(b)
    BY <2>1 DEF LinkOn, WorkOn
  <2> QED
    BY <2>1, <2>2, <2>3, PageStep
<1> QED
  BY <1>1, <1>2

\* A candidate of its own goes to the peer.
LEMMA IceGatheredFits ==
  ASSUME LobbyInv, LobbyInv', SameInv, CandInv, mode = "friend", NEW a \in Attempt,
         IceGathered(a)
  PROVE  CandInv'
<1>0. /\ link[a].state \in {"connecting", "open"} /\ Queues /\ DOMAIN cand = Attempt
      /\ UNCHANGED <<room, sock, down, mode, app, work, link, driver>>
      /\ Gathered(a)
  BY DEF IceGathered, SameInv, CandInv, CandFits
<1>1. Past(a) /\ (Current(a) => PeerOf(a) # None)
  BY <1>0 DEF Gathered
<1>2. CASE Current(a) /\ CanSignal(a)
  <2>1. up' = Signalled(a, PeerOf(a), "ice") /\ cand' = [cand EXCEPT ![a] = "sent"]
    BY <1>2 DEF IceGathered, PeerOf
  <2>2. Stable
    <3>1. \A p \in Player : Life(p)
      BY <1>0 DEF Life
    <3>2. \A x \in Attempt : Onward(x)
      BY <1>0 DEF Onward, Opened
    <3> QED
      BY <1>0, <2>1, <3>1, <3>2 DEF Stable
  <2>3. UpFits /\ DownFits
    BY <1>0, <1>1, <1>2, <2>1, <2>2, SaidFits
  <2>4. cand'[a] = "sent"
    BY <1>0, <2>1
  <2>5. Dropped(a)' /\ \A b \in Attempt : HeldFor(a, b)'
    BY <2>4 DEF Dropped, HeldFor
  <2> QED
    BY <1>0, <1>1, <2>1, <2>3, <2>5, OneCandidate
<1>3. CASE ~(Current(a) /\ CanSignal(a))
  <2>1. up' = up /\ cand' = [cand EXCEPT ![a] = "dropped"]
    BY <1>3 DEF IceGathered
  <2>2. UpFits /\ DownFits
    BY <1>0, <2>1, QueuesShrink DEF UpFits, DownFits
  <2>3. cand'[a] = "dropped"
    BY <1>0, <2>1
  <2>4. \A b \in Attempt : HeldFor(a, b)'
    BY <2>3 DEF HeldFor
  <2>5. Dropped(a)'
    BY <1>0, <1>3 DEF Dropped, Current, CanSignal
  <2> QED
    BY <1>0, <1>1, <2>1, <2>2, <2>4, <2>5, OneCandidate
<1> QED
  BY <1>2, <1>3

-----------------------------------------------------------------------------
(***************************************************************************)
(* The negotiation.                                                        *)
(***************************************************************************)
\* An attempt takes over its transport: the candidates of its peer that were queued go to
\* it, and to its remote description if it is there.
LEMMA NegotiatedFits ==
  ASSUME LobbyInv, LobbyInv', SameInv, CandInv, mode = "friend", mode' = mode,
         NEW a \in Attempt, Alive(a), CanSignal(a), PeerOf(a) # None, Neg(a) # a,
         <<a, "offer">> \notin work', work' \subseteq work,
         NEW r, app' = [app EXCEPT ![a[1]] = r], r.at = app[a[1]].at, r.peer = app[a[1]].peer,
         r.neg = a, r.sig = app[a[1]].sig, r.screen = app[a[1]].screen,
         \A b \in Attempt \ {a} : link'[b] = link[b] /\ driver'[b] = driver[b],
         NEW to \in {"pending", "applied"}, cand' = Flushed(a, to),
         link'[a].remote => to = "applied", ~Hosting(a) => link'[a].remote,
         NEW body, up' = Signalled(a, PeerOf(a), body), UNCHANGED <<room, sock, down>>
  PROVE  CandInv'
<1>0. /\ a[1] \in Player /\ a # None /\ Pages /\ Queues /\ HostFacts /\ Current(a)
      /\ Past(a) /\ Screen(a) = "lobby" /\ DOMAIN cand = Attempt
      /\ \A x \in Attempt : CandFits(x)
  BY Attempts, Hosts DEF LobbyInv, Shaped, SameInv, CandInv, Alive, CanSignal, Past
<1>1. PICK b \in Attempt : b = PeerOf(a) /\ b \in (IF Hosting(a) THEN Guests ELSE HostAttempt)
  BY <1>0 DEF CandFits, PeerFits, Or, HostFacts
<1>2. a[1] # b[1] /\ a # b /\ \A x \in Attempt : x[1] \in {a[1], b[1]}
  BY <1>1, OtherSide
<1>3. app'[a[1]] = r /\ \A q \in Player \ {a[1]} : app'[q] = app[q]
  BY <1>0 DEF Pages
<1>4. Stable
  <2>1. \A p \in Player : Life(p)
    BY <1>3 DEF Life
  <2>2. \A x \in Attempt : Onward(x)
    BY DEF Onward, Opened
  <2>3. DOMAIN cand' = Attempt
    BY DEF Flushed
  <2> QED
    BY <2>1, <2>2, <2>3 DEF Stable
<1>5. \A x \in Attempt : /\ Current(x)' = Current(x) /\ PeerOf(x)' = PeerOf(x)
                         /\ Opened(x)' = Opened(x) /\ InLobby(x)' = InLobby(x)
                         /\ Past(x)' = Past(x)
  BY <1>0, <1>3, Attempts DEF Current, PeerOf, Opened, InLobby, Screen, Past
<1>6. \A x \in Attempt : Current(x) /\ x # a => x[1] # a[1] /\ app'[x[1]] = app[x[1]]
  BY <1>0, <1>3, Attempts DEF Current
<1>7. RoomsFit'
  BY <1>4, <1>5, RoomsKept, SameSessions
<1>8. UpFits /\ DownFits
  BY <1>0, <1>4, SaidFits
<1>9. \A x \in Attempt : cand'[x] = IF x = b /\ cand[x] = "queued" THEN to ELSE cand[x]
  BY <1>1 DEF Flushed, PeerOf
<1>10. ASSUME NEW x \in Attempt
       PROVE  LocalFits(x)'
  <2>1. CASE x = a
    <3>1. LocalFits(a)
      BY <1>0 DEF CandFits
    <3>2. <<a, "create">> \in work' => <<a, "create">> \in work
      OBVIOUS
    <3> QED
      BY <1>0, <1>3, <1>5, <2>1, <3>1, <3>2 DEF LocalFits, Neg, Screen, PeerOf, Hosting
  <2>2. CASE x # a
    <3>1. LocalFits(x)
      BY <1>0 DEF CandFits
    <3>2. Current(x) /\ app[x[1]].screen # "lobby" =>
            driver'[app[x[1]].net] = driver[app[x[1]].net]
      <4>1. ASSUME Current(x), app[x[1]].net # None
            PROVE  driver'[app[x[1]].net] = driver[app[x[1]].net]
        <5>1. app[x[1]].net = x
          BY <4>1, PageTransport, Attempts DEF Current
        <5> QED
          BY <2>2, <5>1
      <4> QED
        BY <3>1, <4>1 DEF LocalFits
    <3> QED
      BY <1>5, <1>6, <2>2, <3>1, <3>2 DEF LocalFits, Neg, PeerOf
  <2> QED
    BY <2>1, <2>2
<1>11. ASSUME NEW x \in Attempt
       PROVE  PeerFits(x)' /\ Dropped(x)'
  BY <1>4, <1>5, <1>9, PeerKept, DroppedKept
<1>12. ASSUME NEW x \in Attempt
       PROVE  Gathered(x)'
  <2>1. CASE x = a
    BY <1>0, <1>5, <2>1 DEF Gathered
  <2>2. CASE x # a
    BY <1>4, <1>9, <2>2, GatheredKept
  <2> QED
    BY <2>1, <2>2
<1>13. ASSUME NEW x \in Attempt
       PROVE  Held(x)'
  <2>1. ASSUME NEW y \in Attempt, Current(x), PeerOf(x) = y, Current(y), HeldFor(x, y)
        PROVE  HeldFor(x, y)'
    <3>1. CASE y = a
      <4>1. x = b
        BY <1>0, <1>1, <2>1, <3>1, PeerOfPeer
      <4>2. Neg(a)' = a
        BY <1>3 DEF Neg
      <4>3. cand[b] # "pending"
        BY <2>1, <3>1, <4>1 DEF HeldFor
      <4>4. cand'[b] = IF cand[b] = "queued" THEN to ELSE cand[b]
        BY <1>9
      <4>5. cand'[b] # "queued" /\ (link'[a].remote => cand'[b] # "pending")
        BY <4>3, <4>4
      <4> QED
        BY <3>1, <4>1, <4>2, <4>5 DEF HeldFor
    <3>2. CASE y # a
      <4>1. y[1] # a[1] /\ Neg(y)' = Neg(y) /\ link'[y] = link[y]
        BY <1>6, <2>1, <3>2 DEF Neg
      <4>2. x # b
        <5>1. ASSUME x = b
              PROVE  FALSE
          <6>1. y \in (IF Hosting(b) THEN Guests ELSE HostAttempt)
            BY <1>0, <2>1, <5>1, Attempts DEF CandFits, PeerFits, Or
          <6>2. y[1] # b[1]
            BY <6>1, OtherSide
          <6> QED
            BY <1>2, <4>1, <6>2
        <5> QED
          BY <5>1
      <4>3. cand'[x] = cand[x]
        BY <1>9, <4>2
      <4> QED
        BY <2>1, <4>1, <4>3 DEF HeldFor
    <3> QED
      BY <3>1, <3>2
  <2>2. PeerOf(x) = None /\ Current(x) => cand'[x] = cand[x]
    <3>1. Current(x) /\ PeerOf(x) = None => cand[x] = "none"
      BY NoneYet
    <3> QED
      BY <1>9, <3>1
  <2>3. CASE Current(x)
    BY <1>4, <1>5, <2>1, <2>2, <2>3, HeldKept
  <2>4. CASE ~Current(x)
    BY <1>5, <2>4 DEF Held
  <2> QED
    BY <2>3, <2>4
<1> QED
  BY <1>4, <1>7, <1>8, <1>10, <1>11, <1>12, <1>13, CandStep DEF CandFits

\* The host's transport is there, and its offer goes out.
LEMMA OfferMadeFits ==
  ASSUME LobbyInv, LobbyInv', SameInv, CandInv, mode = "friend", NEW a \in Attempt, OfferMade(a)
  PROVE  CandInv'
<1>1. CASE ~(Alive(a) /\ CanSignal(a))
  BY <1>1, NothingSentFits
<1>2. CASE Alive(a) /\ CanSignal(a)
  <2> DEFINE r == [app[a[1]] EXCEPT !.neg = a]
             l == [link[a] EXCEPT !.state = "connecting"]
  <2>1. /\ <<a, "offer">> \in work /\ work' = work \ {<<a, "offer">>} /\ mode' = mode
        /\ app' = [app EXCEPT ![a[1]] = r] /\ link' = [link EXCEPT ![a].state = "connecting"]
        /\ cand' = Flushed(a, "pending") /\ up' = Signalled(a, PeerOf(a), "offer")
        /\ UNCHANGED <<room, sock, down, driver>>
    BY <1>2 DEF OfferMade, Done, Set, PeerOf
  <2>2. Links /\ DOMAIN app[a[1]] = PageField /\ LocalFits(a) /\ Current(a) /\ a # None
    BY <1>2, Attempts DEF SameInv, LobbyInv, Shaped, Pages, CandInv, CandFits, Alive
  <2>3. Hosting(a)
    <3>1. Kind(<<a, "offer">>)
      BY <2>1 DEF SameInv, Kinds
    <3> QED
      BY <3>1 DEF Kind
  <2>4. PeerOf(a) # None /\ Neg(a) = None /\ ~link[a].remote
    BY <2>1, <2>2 DEF LocalFits
  <2>5. /\ r.at = app[a[1]].at /\ r.peer = app[a[1]].peer /\ r.neg = a
        /\ r.sig = app[a[1]].sig /\ r.screen = app[a[1]].screen
    BY <2>2 DEF PageField
  <2> HIDE DEF r
  <2>6. /\ link'[a].remote = link[a].remote
        /\ \A b \in Attempt \ {a} : link'[b] = link[b] /\ driver'[b] = driver[b]
    BY <2>1, <2>2, LinkState
  <2>7. <<a, "offer">> \notin work' /\ work' \subseteq work /\ Neg(a) # a /\ ~link'[a].remote
    BY <2>1, <2>2, <2>4, <2>6
  <2> QED
    BY <1>2, <2>1, <2>3, <2>4, <2>5, <2>6, <2>7, NegotiatedFits
<1> QED
  BY <1>1, <1>2

\* The guest's transport is there, with the offer, and its answer goes out.
LEMMA AcceptedFits ==
  ASSUME LobbyInv, LobbyInv', SameInv, CandInv, mode = "friend", NEW a \in Attempt, Accepted(a)
  PROVE  CandInv'
<1>1. CASE ~(Alive(a) /\ CanSignal(a))
  BY <1>1, NothingSentFits
<1>2. CASE Alive(a) /\ CanSignal(a)
  <2> DEFINE r == [app[a[1]] EXCEPT !.neg = a, !.net = a]
             l == [state |-> "connecting", mate |-> app[a[1]].peer, remote |-> TRUE]
             d == [NoDriver EXCEPT !.state = "handshake", !.token = app[a[1]].token]
  <2>1. /\ <<a, "accept">> \in work /\ work' = work \ {<<a, "accept">>} /\ mode' = mode
        /\ app' = [app EXCEPT ![a[1]] = r] /\ link' = [link EXCEPT ![a] = l]
        /\ driver' = [driver EXCEPT ![a] = d]
        /\ cand' = Flushed(a, "applied") /\ up' = Signalled(a, PeerOf(a), "answer")
        /\ UNCHANGED <<room, sock, down>>
    BY <1>2 DEF Accepted, Done, OfferAccepted, Hook, PeerOf
  <2>2. /\ Links /\ Drivers /\ DOMAIN app[a[1]] = PageField /\ LocalFits(a) /\ Current(a)
        /\ a # None /\ OnceOf(a) /\ NegotiatedOf(a) /\ None \notin Attempt /\ HostFacts
    BY <1>2, Attempts, Hosts DEF SameInv, LobbyInv, Shaped, Pages, CandInv, CandFits, Alive, Once,
       Negotiated, HostFacts
  <2>3. ~Hosting(a)
    <3>1. Kind(<<a, "accept">>)
      BY <2>1 DEF SameInv, Kinds
    <3> QED
      BY <3>1 DEF Kind
  <2>4. PeerOf(a) # None /\ Neg(a) # a
    <3>1. PeerOf(a) \in HostAttempt /\ Mate(a) = None
      BY <2>1, <2>2 DEF NegotiatedOf, OnceOf, PeerOf
    <3>2. ~link[a].remote
      BY <2>2, <3>1 DEF OnceOf
    <3> QED
      BY <2>2, <2>3, <3>1, <3>2 DEF LocalFits, HostFacts
  <2>5. /\ r.at = app[a[1]].at /\ r.peer = app[a[1]].peer /\ r.neg = a
        /\ r.sig = app[a[1]].sig /\ r.screen = app[a[1]].screen
    BY <2>2 DEF PageField
  <2>6. l.remote
    OBVIOUS
  <2> HIDE DEF r, l, d
  <2>7. link'[a] = l /\ \A b \in Attempt \ {a} : link'[b] = link[b] /\ driver'[b] = driver[b]
    BY <2>1, <2>2 DEF Links, Drivers
  <2>8. <<a, "offer">> \notin work' /\ work' \subseteq work
    <3>1. <<a, "offer">> \in work => Kind(<<a, "offer">>)
      BY DEF SameInv, Kinds
    <3> QED
      BY <2>1, <2>3, <3>1 DEF Kind
  <2> QED
    BY <1>2, <2>1, <2>4, <2>5, <2>6, <2>7, <2>8, NegotiatedFits
<1> QED
  BY <1>1, <1>2

\* The host's transport has its remote description, and so have the candidates held for it.
LEMMA AnsweredFits ==
  ASSUME LobbyInv, LobbyInv', SameInv, CandInv, mode = "friend", NEW a \in Attempt, Answered(a)
  PROVE  CandInv'
<1>0. /\ <<a, "answer">> \in work /\ work' = (work \ {<<a, "answer">>}) \cup {<<a, "hook">>}
      /\ UNCHANGED <<room, sock, up, down, mode, app, driver>> /\ cand' = RemoteFlushed(a)
      /\ Links /\ HostFacts /\ NegotiatedOf(a) /\ a # None
      /\ \A x \in Attempt : CandFits(x)
  BY Hosts, Attempts DEF Answered, roomVars, SameInv, Negotiated, CandInv
<1>1. /\ \A x \in Attempt \ {a} : link'[x] = link[x]
      /\ link'[a].state = link[a].state
      /\ link'[a].remote => link[a].remote \/ Current(a)
  <2>1. CASE link' = link
    BY <2>1
  <2>2. CASE link[a].state # "closed"
    <3> DEFINE l == [link[a] EXCEPT !.mate = app[a[1]].peer, !.remote = TRUE]
    <3>1. link' = [link EXCEPT ![a] = l]
      BY <1>0, <2>2 DEF Answered, Links, LinkField
    <3>2. l.state = link[a].state
      BY <1>0 DEF Links, LinkField
    <3> HIDE DEF l
    <3>3. link'[a] = l /\ \A x \in Attempt \ {a} : link'[x] = link[x]
      BY <1>0, <3>1 DEF Links
    <3> QED
      BY <1>0, <2>2, <3>2, <3>3 DEF NegotiatedOf
  <2> QED
    BY <2>1, <2>2 DEF Answered
<1>2. Current(a) => Neg(a) = a /\ PeerOf(a) \in Guests
  BY <1>0 DEF NegotiatedOf, Neg, PeerOf
<1>3. \A x \in Attempt : /\ Current(x)' = Current(x) /\ PeerOf(x)' = PeerOf(x)
                         /\ Neg(x)' = Neg(x) /\ Opened(x)' = Opened(x) /\ InLobby(x)' = InLobby(x)
                         /\ Past(x)' = Past(x)
  BY <1>0 DEF Current, PeerOf, Neg, Opened, InLobby, Screen, Past
<1>4. \A x \in Attempt :
        cand'[x] = IF x = app[a[1]].peer /\ cand[x] = "pending" THEN "applied" ELSE cand[x]
  BY <1>0 DEF RemoteFlushed
<1>5. Stable
  <2>1. \A p \in Player : Life(p)
    BY <1>0 DEF Life
  <2>2. \A x \in Attempt : Onward(x)
    BY <1>0 DEF Onward, Opened
  <2>3. DOMAIN cand' = Attempt
    BY <1>0 DEF RemoteFlushed
  <2> QED
    BY <1>0, <2>1, <2>2, <2>3 DEF Stable
<1>6. \A x \in Attempt, s \in {"offer", "create"} : <<x, s>> \in work' => <<x, s>> \in work
  BY <1>0
<1>7. RoomsFit'
  BY <1>0, <1>3, <1>5, <1>6, RoomsKept, SameSessions
<1>8. UpFits /\ DownFits
  BY <1>0, QueuesShrink DEF UpFits, DownFits
<1>9. ASSUME NEW x \in Attempt
      PROVE  LocalFits(x)'
  <2>1. LocalFits(x)
    BY <1>0 DEF CandFits
  <2>2. /\ <<x, "create">> \in work' => <<x, "create">> \in work
        /\ <<x, "offer">> \in work' => <<x, "offer">> \in work
    BY <1>6
  <2>3. Current(x) /\ link'[x].remote => Neg(x) = x
    BY <1>1, <1>2, <2>1 DEF LocalFits
  <2>4. link[x].remote => link'[x].remote
    BY <1>0, <1>1 DEF Answered, Links, LinkField
  <2> QED
    BY <1>0, <1>3, <2>1, <2>2, <2>3, <2>4 DEF LocalFits
<1>10. ASSUME NEW x \in Attempt
       PROVE  PeerFits(x)' /\ Gathered(x)' /\ Dropped(x)'
  <2>1. link'[x].state = link[x].state
    BY <1>1
  <2>2. (cand'[x] # "none" => cand[x] # "none") /\ (cand'[x] = "dropped" => cand[x] = "dropped")
    BY <1>4
  <2> QED
    BY <1>3, <1>5, <2>1, <2>2, PeerKept, GatheredKept, DroppedKept
<1>11. ASSUME NEW x \in Attempt
       PROVE  Held(x)'
  <2>1. ASSUME NEW y \in Attempt, Current(x), PeerOf(x) = y, Current(y), HeldFor(x, y)
        PROVE  HeldFor(x, y)'
    <3>1. cand'[x] \in {cand[x], "applied"}
      BY <1>4
    <3>2. CASE y = a
      <4>1. x = PeerOf(a)
        BY <1>0, <1>2, <2>1, <3>2, PeerOfPeer DEF HostFacts
      <4>2. cand'[x] # "pending"
        BY <1>4, <4>1 DEF PeerOf
      <4> QED
        BY <1>3, <2>1, <3>1, <4>2 DEF HeldFor
    <3>3. CASE y # a
      <4>1. link'[y] = link[y]
        BY <1>1, <3>3
      <4> QED
        BY <1>3, <2>1, <3>1, <4>1 DEF HeldFor
    <3> QED
      BY <3>2, <3>3
  <2>2. Current(x) /\ PeerOf(x) = None => cand'[x] = cand[x]
    <3>1. Current(x) /\ PeerOf(x) = None => cand[x] = "none"
      BY NoneYet
    <3> QED
      BY <1>4, <3>1
  <2>3. CASE Current(x)
    BY <1>3, <1>5, <2>1, <2>2, <2>3, HeldKept
  <2>4. CASE ~Current(x)
    BY <1>3, <2>4 DEF Held
  <2> QED
    BY <2>3, <2>4
<1> QED
  BY <1>5, <1>7, <1>8, <1>9, <1>10, <1>11, CandStep DEF CandFits

-----------------------------------------------------------------------------
(***************************************************************************)
(* The rooms pass on what is for the one it is for.                        *)
(***************************************************************************)
\* Rooms that are as they were, or that lose sessions.
LEMMA SessionsShrink ==
  ASSUME Rooms, NEW c \in Code,
         \/ room' = room
         \/ room' = Destroyed(c)
         \/ \E p, ss : Grows(ss, room[c].sessions, {}) /\ room' = WithoutPeer(c, p, ss)
  PROVE  SessionsFit
<1>1. ASSUME NEW r, NEW d \in Code, room' = [room EXCEPT ![c] = r],
             Grows(r.sessions, room[c].sessions, {})
      PROVE  Grows(room'[d].sessions, room[d].sessions, {})
  <2>1. Grows(room[d].sessions, room[d].sessions, {})
    BY Growing
  <2>2. room'[d] = IF d = c THEN r ELSE room[d]
    BY <1>1 DEF Rooms
  <2> QED
    BY <1>1, <2>1, <2>2
<1>2. CASE room' = room
  BY <1>2, SameSessions
<1>3. CASE room' = Destroyed(c)
  <2> DEFINE r == [NoRoom EXCEPT !.status = "gone"]
  <2>1. room' = [room EXCEPT ![c] = r] /\ r.sessions = <<>>
    BY <1>3 DEF Destroyed, NoRoom
  <2> HIDE DEF r
  <2>2. Grows(r.sessions, room[c].sessions, {})
    BY <2>1, Growing
  <2> QED
    <3>1. \A d \in Code : Grows(room'[d].sessions, room[d].sessions, {})
      BY <1>1, <2>1, <2>2
    <3> QED
      BY <3>1 DEF SessionsFit
<1>4. ASSUME NEW p, NEW ss, Grows(ss, room[c].sessions, {}), room' = WithoutPeer(c, p, ss),
             ~Empties(c, p, ss)
      PROVE  SessionsFit
  <2> DEFINE ms == IF StillHere(p, ss) THEN room[c].members ELSE Rest(c, p)
             r == [room[c] EXCEPT !.members = ms, !.sessions = ss]
  <2>1. room' = [room EXCEPT ![c].members = ms, ![c].sessions = ss]
    BY <1>4 DEF WithoutPeer
  <2> HIDE DEF ms
  <2>2. room' = [room EXCEPT ![c] = r] /\ r.sessions = ss
    BY <2>1 DEF Rooms, RoomField
  <2> HIDE DEF r
  <2> QED
    <3>1. \A d \in Code : Grows(room'[d].sessions, room[d].sessions, {})
      BY <1>1, <1>4, <2>2
    <3> QED
      BY <3>1 DEF SessionsFit
<1> QED
  BY <1>2, <1>3, <1>4 DEF WithoutPeer

\* A step of the rooms, which leaves pages and transports alone.
LEMMA RoomStable ==
  ASSUME LobbyInv, LobbyInv', SameInv, CandInv, mode = "friend", GoneOn(sock'),
         UNCHANGED <<app, mode, cand>>
  PROVE  Stable
<1>1. \A p \in Player : Life(p)
  BY DEF Life
<1>2. \A x \in Attempt : Onward(x)
  BY DEF Onward, Opened, GoneOn
<1> QED
  BY <1>1, <1>2 DEF Stable, CandInv

\* What the rooms may do.
LEMMA RoomQuiet ==
  ASSUME LobbyInv, LobbyInv', SameInv, CandInv, mode = "friend", GoneOn(sock'), SessionsFit,
         UpFits, DownFits, UNCHANGED <<app, work, link, driver, mode, cand>>
  PROVE  CandInv'
<1>1. \A p \in Player : Still(p) \/ Out(p)
  BY BegunStill, SameStill DEF LobbyInv, Shaped, NoHandshake
<1>2. \A b \in Attempt : SocketOn(b) /\ LinkOn(b) /\ WorkOn(b)
  BY DEF SocketOn, GoneOn, LinkOn, WorkOn
<1> QED
  BY <1>1, <1>2, QuietStep

\* What the object tells the sockets ss.
LEMMA ToldFits ==
  ASSUME Stable, NEW ss, NEW m, down' = Told(ss, m),
         \A o \in Attempt : o \in ss => Delivered(o, m)
  PROVE  DownFits
<1>1. ASSUME NEW o \in Attempt
      PROVE  \E R : Grows(down'[o], down[o], R) /\ \A w \in R : Delivered(o, w)'
  <2>1. down'[o] = down[o] \/ (o \in ss /\ down'[o] = Append(down[o], m))
    BY Attempts DEF Told
  <2>2. CASE down'[o] = down[o]
    BY <2>2, QueuesShrink
  <2>3. CASE o \in ss /\ down'[o] = Append(down[o], m)
    <3>1. Grows(down'[o], down[o], {m})
      BY <2>3, Growing
    <3>2. Delivered(o, m)'
      BY <2>3, LetterKept
    <3> QED
      BY <3>1, <3>2
  <2> QED
    BY <2>1, <2>2, <2>3
<1> QED
  BY <1>1 DEF DownFits

\* What names nobody.
Nameless(m) == m.t \notin {"signaled", "peer-joined"}

\* Such words, of which are those of leaving, of the welcome, of packets and of errors, fit.
LEMMA NamelessFits ==
  /\ \A p : Nameless([t |-> "peer-left", peer |-> p])
  /\ \A ps : Nameless([t |-> "room-joined", peers |-> ps])
  /\ \A b : Nameless([t |-> "packet", body |-> b])
  /\ Nameless([t |-> "error"])
  /\ \A m : Nameless(m) => \A o \in Attempt : Delivered(o, m)
BY DEF Nameless, Delivered

\* One queue of a socket gets its first words, or is emptied.
LEMMA FirstFits ==
  ASSUME Stable, NEW s \in Attempt, NEW q, DOMAIN q = Attempt, NEW m, Nameless(m),
         \A a \in Attempt : \E R : Grows(q[a], down[a], R) /\ \A w \in R : Delivered(a, w)',
         down' = [q EXCEPT ![s] = <<>>] \/ down' = [q EXCEPT ![s] = <<m>>]
  PROVE  DownFits
<1>1. /\ \A a \in Attempt \ {s} : down'[a] = q[a]
      /\ down'[s] = <<>> \/ down'[s] = <<m>>
  OBVIOUS
<1>2. ASSUME NEW S
      PROVE  <<>> \in Seq(S \cup {m}) /\ <<m>> \in Seq(S \cup {m})
  OBVIOUS
<1>3. Grows(down'[s], down[s], {m})
  BY <1>1, <1>2 DEF Grows
<1>4. Delivered(s, m)'
  BY NamelessFits, LetterKept
<1>5. ASSUME NEW a \in Attempt
      PROVE  \E R : Grows(down'[a], down[a], R) /\ \A w \in R : Delivered(a, w)'
  <2>1. CASE a = s
    BY <1>3, <1>4, <2>1
  <2>2. CASE a # s
    BY <1>1, <2>2
  <2> QED
    BY <2>1, <2>2
<1> QED
  BY <1>5 DEF DownFits

\* The others are told that somebody left, if anybody.
LEMMA LeavingFits ==
  ASSUME Stable, Queues, NEW c, NEW p, NEW ss, down' = down \/ down' = ToldOfLeaving(c, p, ss)
  PROVE  DownFits
<1> DEFINE m == [t |-> "peer-left", peer |-> p]
<1>1. \A o \in Attempt : Delivered(o, m)
  BY NamelessFits
<1>2. down' = down \/ \E os : down' = Told(os, m)
  BY DEF ToldOfLeaving
<1> HIDE DEF m
<1>3. down' = down => DownFits
  BY QueuesShrink DEF DownFits
<1> QED
  BY <1>1, <1>2, <1>3, ToldFits

\* The rooms' sockets were opened for them.
LEMMA InTheRoom ==
  ASSUME CandInv, mode = "friend", NEW c \in Code
  PROVE  /\ \A o \in Sessions(c) : o \in Attempt /\ Opened(o) /\ sock[o].code = c
         /\ room[c].sessions \in Seq(Socket)
<1>1. room[c].sessions \in Seq(OpenedIn(c)) /\ OpenedIn(c) \subseteq Socket
  BY Attempts DEF CandInv, RoomsFit, OpenedIn
<1>2. \A o \in Sessions(c) : o \in OpenedIn(c)
  BY <1>1 DEF Sessions, ToSet
<1> QED
  BY <1>1, <1>2, WiderSeq DEF OpenedIn

\* Refuse.
LEMMA RefuseFits ==
  ASSUME LobbyInv, LobbyInv', SameInv, CandInv, mode = "friend", NEW s \in Attempt, Refuse(s),
         UNCHANGED <<app, work, link, driver, mode, cand>>
  PROVE  CandInv'
<1> DEFINE c == sock[s].code
           m == [t |-> "error"]
<1>0. c \in Code /\ Rooms /\ Queues
  BY InItsRoom DEF Refuse, SameInv
<1>1. /\ room' = room \/ room' = Destroyed(c)
      /\ down' = [down EXCEPT ![s] = <<>>] \/ down' = [down EXCEPT ![s] = <<m>>]
      /\ up' = up
  BY DEF Refuse
<1>2. GoneOn(sock')
  BY RoomStepGoesOn DEF RoomStep, LobbyInv, Shaped
<1>3. Stable
  BY <1>2, RoomStable
<1>4. Nameless(m)
  BY NamelessFits
<1> HIDE DEF c, m
<1>5. SessionsFit
  BY <1>0, <1>1, SessionsShrink
<1>6. UpFits
  BY <1>1, QueuesShrink DEF UpFits
<1>7. \A a \in Attempt : Grows(down[a], down[a], {})
  BY Growing
<1>8. \A a \in Attempt : \E R : Grows(down[a], down[a], R) /\ \A w \in R : Delivered(a, w)'
  BY <1>7
<1>9. DownFits
  BY <1>0, <1>1, <1>3, <1>4, <1>8, FirstFits DEF Queues
<1> QED
  BY <1>2, <1>5, <1>6, <1>9, RoomQuiet

\* Admit.
LEMMA AdmitFits ==
  ASSUME LobbyInv, LobbyInv', SameInv, CandInv, mode = "friend", NEW s \in Attempt, Admit(s),
         UNCHANGED <<app, work, link, driver, mode, cand>>
  PROVE  CandInv'
<1> DEFINE c == sock[s].code
           p == Holder[s]
           joined == [t |-> "room-joined", peers |-> Members(c) \ {p}]
           came == [t |-> "peer-joined", peer |-> s]
           news == Told(Others(c, p), came)
           ms == IF p \in Members(c) THEN room[c].members ELSE Append(room[c].members, p)
           ss == Append(room[c].sessions, s)
           r == [room[c] EXCEPT !.members = ms, !.sessions = ss]
<1>0. c \in Code /\ Rooms /\ Queues /\ p = s /\ Opened(s)
  BY InItsRoom DEF Admit, SameInv, Opened
<1>1. /\ room' = [room EXCEPT ![c].members = ms, ![c].sessions = ss]
      /\ down' = [news EXCEPT ![s] = <<>>] \/ down' = [news EXCEPT ![s] = <<joined>>]
      /\ up' = up
  BY <1>0 DEF Admit
<1>2. GoneOn(sock')
  BY RoomStepGoesOn DEF RoomStep, LobbyInv, Shaped
<1>3. Stable
  BY <1>2, RoomStable
<1>4. SessionsFit
  <2>1. s \in OpenedIn(c)
    BY <1>0 DEF OpenedIn
  <2> HIDE DEF ms, c
  <2>2. Grows(ss, room[c].sessions, {s})
    BY Growing
  <2> HIDE DEF ss
  <2>3. room' = [room EXCEPT ![c] = r] /\ r.sessions = ss
    BY <1>0, <1>1 DEF Rooms, RoomField
  <2> HIDE DEF r
  <2>4. ASSUME NEW d \in Code
        PROVE  \E R : Grows(room'[d].sessions, room[d].sessions, R) /\ R \subseteq OpenedIn(d)
    <3>1. room'[d] = IF d = c THEN r ELSE room[d]
      BY <1>0, <2>3 DEF Rooms
    <3>2. Grows(room[d].sessions, room[d].sessions, {}) /\ {} \subseteq OpenedIn(d)
      BY Growing
    <3>3. {s} \subseteq OpenedIn(c)
      BY <2>1
    <3>4. CASE d = c
      BY <2>2, <2>3, <3>1, <3>3, <3>4
    <3>5. CASE d # c
      BY <3>1, <3>2, <3>5
    <3> QED
      BY <3>4, <3>5
  <2> QED
    BY <2>4 DEF SessionsFit
<1>5. \A o \in Attempt : o \in Others(c, p) => Delivered(o, came)
  <2>1. ASSUME NEW o \in Attempt, o \in Others(c, p)
        PROVE  Delivered(o, came)
    <3>1. o # s /\ Opened(o) /\ sock[o].code = c
      BY <1>0, <2>1, InTheRoom, LobbyAssumption DEF Others, Self
    <3> QED
      BY <1>0, <3>1 DEF Delivered, Together
  <2> QED
    BY <2>1
<1>6. DownFits
  <2>1. DOMAIN news = Attempt
    BY Attempts DEF Told
  <2>2. Nameless(joined)
    BY NamelessFits
  <2>3. ASSUME NEW a \in Attempt
        PROVE  \E R : Grows(news[a], down[a], R) /\ \A w \in R : Delivered(a, w)'
    <3>1. news[a] = down[a] \/ (a \in Others(c, p) /\ news[a] = Append(down[a], came))
      BY Attempts DEF Told
    <3> HIDE DEF news, came, c, p
    <3>2. CASE news[a] = down[a]
      <4>1. Grows(news[a], down[a], {})
        BY <3>2, Growing
      <4> QED
        BY <4>1
    <3>3. CASE a \in Others(c, p) /\ news[a] = Append(down[a], came)
      <4>1. Grows(news[a], down[a], {came})
        BY <3>3, Growing
      <4>2. Delivered(a, came)'
        BY <1>3, <1>5, <3>3, LetterKept
      <4> QED
        BY <4>1, <4>2
    <3> QED
      BY <3>1, <3>2, <3>3
  <2> HIDE DEF news, joined
  <2> QED
    BY <1>1, <1>3, <2>1, <2>2, <2>3, FirstFits
<1>7. UpFits
  BY <1>1, QueuesShrink DEF UpFits
<1> QED
  BY <1>2, <1>4, <1>6, <1>7, RoomQuiet

\* Close.
LEMMA CloseFits ==
  ASSUME LobbyInv, LobbyInv', SameInv, CandInv, mode = "friend", NEW s \in Attempt, Close(s),
         UNCHANGED <<app, work, link, driver, mode, cand>>
  PROVE  CandInv'
<1> DEFINE c == sock[s].code
           ss == RemoveFirst(room[c].sessions, s)
<1>0. c \in Code /\ Rooms /\ Queues
  BY InItsRoom DEF Close, SameInv
<1>1. /\ room' = room \/ room' = WithoutPeer(c, Holder[s], ss)
      /\ down' = down \/ down' = ToldOfLeaving(c, Holder[s], ss)
      /\ up' = up
  BY DEF Close
<1>2. Grows(ss, room[c].sessions, {})
  <2>1. ASSUME NEW S, room[c].sessions \in Seq(S)
        PROVE  ss \in Seq(S \cup {})
    BY <2>1, RemoveFirstSeq
  <2> QED
    BY <2>1 DEF Grows
<1> HIDE DEF ss, c
<1>3. SessionsFit
  BY <1>0, <1>1, <1>2, SessionsShrink
<1>4. GoneOn(sock')
  BY RoomStepGoesOn DEF RoomStep, LobbyInv, Shaped
<1>5. Stable
  BY <1>4, RoomStable
<1>6. DownFits
  BY <1>0, <1>1, <1>5, LeavingFits
<1>7. UpFits
  BY <1>1, QueuesShrink DEF UpFits
<1> QED
  BY <1>3, <1>4, <1>6, <1>7, RoomQuiet

\* A signal goes to the one it is for, which is the peer of its sender.
LEMMA PassesFit ==
  ASSUME Stable, NEW s \in Attempt, Opened(s), NEW m, Addressed(s, m),
         \/ m.t = "signal" /\ Relay(sock[s].code, s, m)
         \/ m.t \in {"packet", "flood"} /\ Packet(sock[s].code, s, m)
  PROVE  DownFits
<1> DEFINE c == sock[s].code
<1>0. c \in Code /\ Holder[s] = s /\ CandInv /\ mode = "friend"
  BY InItsRoom DEF Stable, Opened
<1>1. CASE m.t = "signal" /\ Relay(c, s, m)
  <2> DEFINE w == [t |-> "signaled", from |-> s, body |-> m.body]
  <2>1. \/ /\ \E o \in Sessions(c) : Holder[o] = m.to
           /\ down' = Told({SocketFor(c, m.to)}, w)
        \/ down' = Told({s}, [t |-> "error"])
    BY <1>0, <1>1 DEF Relay
  <2>2. CASE /\ \E o \in Sessions(c) : Holder[o] = m.to
             /\ down' = Told({SocketFor(c, m.to)}, w)
    <3>1. SocketFor(c, m.to) \in Socket /\ Holder[SocketFor(c, m.to)] = m.to
      BY <1>0, <2>2, InTheRoom, SocketForPeer
    <3>2. SocketFor(c, m.to) = m.to
      BY <3>1, LobbyAssumption DEF Self
    <3>3. m.to \in Sessions(c)
      BY <1>0, <2>2, InTheRoom, LobbyAssumption DEF Self
    <3>4. m.to \in Attempt /\ Opened(m.to) /\ sock[m.to].code = c
      BY <1>0, <3>3, InTheRoom
    <3>5. ASSUME NEW o \in Attempt, o \in {SocketFor(c, m.to)}
          PROVE  Delivered(o, w)
      <4>1. o = m.to /\ Past(s) /\ Together(o, s) /\ (Current(s) => PeerOf(s) = o)
        BY <1>1, <3>2, <3>4, <3>5 DEF Addressed, Together
      <4> QED
        BY <4>1 DEF Delivered
    <3> HIDE DEF w
    <3> QED
      BY <2>2, <3>5, ToldFits
  <2>3. CASE down' = Told({s}, [t |-> "error"])
    <3> DEFINE e == [t |-> "error"]
    <3>1. \A o \in Attempt : Delivered(o, e)
      BY NamelessFits
    <3>2. down' = Told({s}, e)
      BY <2>3
    <3> HIDE DEF e
    <3> QED
      BY <3>1, <3>2, ToldFits
  <2> QED
    BY <2>1, <2>2, <2>3
<1>2. CASE m.t \in {"packet", "flood"} /\ Packet(c, s, m)
  <2> DEFINE w == [t |-> "packet", body |-> m.body]
  <2>1. \A o \in Attempt : Delivered(o, w)
    BY NamelessFits
  <2>2. down' = down \/ \E os : down' = Told(os, w)
    BY <1>2 DEF Packet
  <2> HIDE DEF w
  <2>3. down' = down => DownFits
    BY QueuesShrink DEF DownFits
  <2> QED
    BY <2>1, <2>2, <2>3, ToldFits
<1> QED
  BY <1>1, <1>2

\* Serve.
LEMMA ServeFits ==
  ASSUME LobbyInv, LobbyInv', SameInv, CandInv, mode = "friend", NEW s \in Attempt, Serve(s),
         UNCHANGED <<app, work, link, driver, mode, cand>>
  PROVE  CandInv'
<1> DEFINE c == sock[s].code
           ss == room[c].sessions
           p == Holder[s]
<1>0. /\ Opened(s) /\ up[s] # <<>> /\ up' = [up EXCEPT ![s] = Tail(@)]
      /\ c \in Code /\ Rooms /\ Queues /\ LettersFit
  BY InItsRoom DEF Serve, SameInv, Opened, CandInv
<1>1. GoneOn(sock')
  BY RoomStepGoesOn DEF RoomStep, LobbyInv, Shaped
<1>2. Stable
  BY <1>1, RoomStable
<1>3. UpFits
  <2>1. \A a \in Attempt : up'[a] = up[a] \/ (up[a] # <<>> /\ up'[a] = Tail(up[a]))
    BY <1>0 DEF Queues
  <2> QED
    BY <2>1, QueuesShrink DEF UpFits
<1>4. CASE ServeClosed(s, c)
  <2>1. (room' = room \/ room' = Destroyed(c)) /\ down' = down
    BY <1>4 DEF ServeClosed
  <2> HIDE DEF c
  <2>2. SessionsFit /\ DownFits
    BY <1>0, <2>1, SessionsShrink, QueuesShrink DEF DownFits
  <2> QED
    BY <1>1, <1>3, <2>2, RoomQuiet
<1>5. CASE room' = WithoutPeer(c, p, ss) /\ down' = ToldOfLeaving(c, p, ss)
  <2>1. Grows(ss, room[c].sessions, {})
    BY Growing
  <2> HIDE DEF ss, c
  <2>2. SessionsFit /\ DownFits
    BY <1>0, <1>2, <1>5, <2>1, SessionsShrink, LeavingFits
  <2> QED
    BY <1>1, <1>3, <2>2, RoomQuiet
<1>6. CASE \E m : /\ m = Head(up[s]) /\ room' = room
                  /\ \/ m.t = "signal" /\ Relay(c, s, m)
                     \/ m.t \in {"packet", "flood"} /\ Packet(c, s, m)
  <2>1. PICK m : /\ m = Head(up[s]) /\ room' = room
                 /\ \/ m.t = "signal" /\ Relay(c, s, m)
                    \/ m.t \in {"packet", "flood"} /\ Packet(c, s, m)
    BY <1>6
  <2>2. Addressed(s, m)
    BY <1>0, <2>1, HeadFits
  <2>3. DownFits
    BY <1>0, <1>2, <2>1, <2>2, PassesFit
  <2>4. SessionsFit
    BY <2>1, SameSessions
  <2> QED
    BY <1>1, <1>3, <2>3, <2>4, RoomQuiet
<1>7. \/ ServeClosed(s, c)
      \/ room' = WithoutPeer(c, p, ss) /\ down' = ToldOfLeaving(c, p, ss)
      \/ \E m : /\ m = Head(up[s]) /\ room' = room
                /\ \/ m.t = "signal" /\ Relay(c, s, m)
                   \/ m.t \in {"packet", "flood"} /\ Packet(c, s, m)
  <2>1. Relay(c, s, Head(up[s])) \/ Packet(c, s, Head(up[s])) => room' = room
    BY DEF Relay, Packet
  <2> QED
    BY <2>1 DEF Serve
<1> QED
  BY <1>4, <1>5, <1>6, <1>7

\* The rooms and their time.
LEMMA RoomActsFit ==
  ASSUME LobbyInv, LobbyInv', SameInv, CandInv, mode = "friend", RoomActs \/ RoomExpires
  PROVE  CandInv'
<1>0. /\ UNCHANGED <<app, work, link, driver, mode, cand>> /\ Rooms /\ Sockets /\ Queues
  BY DEF RoomActs, RoomExpires, peerVars, SameInv, LobbyInv, Shaped
<1>1. ASSUME NEW s \in Socket, RoomStep(s)
      PROVE  CandInv'
  BY <1>0, <1>1, Attempts, RefuseFits, AdmitFits, ServeFits, CloseFits DEF RoomStep
<1>2. ASSUME NEW c \in Code, Alarm(c)
      PROVE  CandInv'
  <2>1. GoneOn(sock') /\ SessionsFit
    BY <1>0, <1>2, ClosingGoesOn, SessionsShrink DEF Alarm
  <2>2. UpFits /\ DownFits
    BY <1>2, QueuesShrink DEF Alarm, UpFits, DownFits
  <2> QED
    BY <1>0, <2>1, <2>2, RoomQuiet
<1>3. ASSUME NEW c \in Code, Expire(c)
      PROVE  CandInv'
  <2>1. \A d \in Code : room'[d].sessions = room[d].sessions
    BY <1>0, <1>3 DEF Expire, Rooms, RoomField
  <2>2. \A d \in Code : Grows(room'[d].sessions, room[d].sessions, {})
    BY <2>1, Growing
  <2>3. UpFits /\ DownFits
    BY <1>3, QueuesShrink DEF Expire, UpFits, DownFits
  <2>4. GoneOn(sock')
    BY <1>0, <1>3, ClosingGoesOn DEF Expire
  <2> QED
    BY <1>0, <2>2, <2>3, <2>4, RoomQuiet DEF SessionsFit
<1> QED
  BY <1>1, <1>2, <1>3 DEF RoomActs, RoomExpires

-----------------------------------------------------------------------------
(***************************************************************************)
(* Opponents, the first state, and every step.                             *)
(***************************************************************************)
\* A page that is set keeps its peer, or is left without one.
LEMMA PeerSame ==
  ASSUME LobbyInv, mode = "ranked", mode' = mode, CandInv, NEW p \in Player, NEW r,
         app' = [app EXCEPT ![p] = r], r.peer \in {app[p].peer, None}
  PROVE  CandInv'
<1>1. \A q \in Player : app[q].peer = None
  BY DEF CandInv, Met
<1>2. \A q \in Player : app'[q].peer = None
  BY <1>1 DEF LobbyInv, Shaped, Pages
<1> QED
  BY <1>2 DEF CandInv, Met

\* Every way out leaves the peer.
LEMMA MenuPeer ==
  ASSUME LobbyInv, mode = "ranked", mode' = mode, CandInv, NEW p \in Player,
         (\E busy : app' = Menu(p, busy)) \/ CloseNet(p) \/ CloseNetOnDrop(p)
  PROVE  CandInv'
<1>1. PICK busy : app' = Menu(p, busy)
  BY DEF CloseNet, CloseNetOnDrop
<1> DEFINE r == [Idle EXCEPT !.busy = busy, !.tries = app[p].tries]
<1>2. app' = [app EXCEPT ![p] = r] /\ r.peer = None
  BY <1>1 DEF Menu, Idle
<1> HIDE DEF r
<1> QED
  BY <1>2, PeerSame

\* Another field is set.
LEMMA FieldPeer ==
  ASSUME LobbyInv, mode = "ranked", mode' = mode, CandInv, NEW a \in Attempt,
         \/ app' = app
         \/ \E f \in PageField \ {"peer"} : \E v : app' = Set(a, f, v)
         \/ \E screen : app' = Page(a, screen)
         \/ \E v, w : app' = [app EXCEPT ![a[1]] = [app[a[1]] EXCEPT !.screen = v, !.at = w]]
         \/ \E v, w : app' = [app EXCEPT ![a[1]] = [app[a[1]] EXCEPT !.token = v, !.net = w]]
         \/ \E v, w : app' = [app EXCEPT ![a[1]] = [app[a[1]] EXCEPT !.neg = v, !.net = w]]
         \/ \E v, w : app' = [app EXCEPT ![a[1]] = [app[a[1]] EXCEPT !.busy = v, !.record = w]]
  PROVE  CandInv'
<1>0. a[1] \in Player /\ DOMAIN app[a[1]] = PageField
  BY Attempts DEF LobbyInv, Shaped, Pages
<1>1. CASE app' = app
  BY <1>1 DEF CandInv, Met
<1>2. ASSUME NEW f \in PageField \ {"peer"}, NEW v, app' = Set(a, f, v)
      PROVE  CandInv'
  <2> DEFINE r == [app[a[1]] EXCEPT ![f] = v]
  <2>1. app' = [app EXCEPT ![a[1]] = r] /\ r.peer = app[a[1]].peer
    BY <1>0, <1>2 DEF Set, PageField
  <2> HIDE DEF r
  <2> QED
    BY <1>0, <2>1, PeerSame
<1>3. ASSUME NEW screen, app' = Page(a, screen)
      PROVE  CandInv'
  <2> DEFINE r == [app[a[1]] EXCEPT !.screen = screen, !.busy = app[a[1]].busy \/ Asks(a)]
  <2>1. app' = [app EXCEPT ![a[1]] = r] /\ r.peer = app[a[1]].peer
    BY <1>0, <1>3 DEF Page, PageField
  <2> HIDE DEF r
  <2> QED
    BY <1>0, <2>1, PeerSame
<1>4. ASSUME NEW f \in PageField \ {"peer"}, NEW g \in PageField \ {"peer"}, NEW v, NEW w,
             app' = [app EXCEPT ![a[1]] = [app[a[1]] EXCEPT ![f] = v, ![g] = w]]
      PROVE  CandInv'
  <2> DEFINE r == [app[a[1]] EXCEPT ![f] = v, ![g] = w]
  <2>1. app' = [app EXCEPT ![a[1]] = r] /\ r.peer = app[a[1]].peer
    BY <1>0, <1>4 DEF PageField
  <2> HIDE DEF r
  <2> QED
    BY <1>0, <2>1, PeerSame
<1>5. {"screen", "at", "token", "net", "neg", "busy", "record"} \subseteq PageField \ {"peer"}
  BY DEF PageField
<1> QED
  BY <1>1, <1>2, <1>3, <1>4, <1>5

\* Opponents have no peers, whatever happens.
LEMMA RankedNext ==
  ASSUME LobbyInv, LobbyInv', SameInv, CandInv, mode = "ranked", [Next]_vars
  PROVE  CandInv'
<1>0. \A a \in Attempt : a[1] \in Player
  BY Attempts
<1>1. ASSUME NEW p \in Player, Start(p) \/ Ready(p) \/ Leave(p)
      PROVE  CandInv'
  <2>1. CASE Ready(p)
    <3>1. PICK a \in Attempt : a = app[p].net /\ a[1] = p
      BY <2>1, PageTransport DEF Ready
    <3>2. (app' = app \/ app' = Page(a, "match")) /\ mode' = mode
      BY <2>1, <3>1 DEF Ready
    <3> QED
      BY <3>2, FieldPeer
  <2>2. CASE Leave(p)
    BY <2>2, MenuPeer DEF Leave
  <2>3. ~Start(p)
    BY DEF Start
  <2> QED
    BY <1>1, <2>1, <2>2, <2>3
<1>2. CASE Pair
  <2>1. /\ \A p \in Player : app'[p] = [app[p] EXCEPT !.tries = @ + 1]
        /\ mode' = mode
    BY <1>2 DEF Pair
  <2>2. \A p \in Player : app'[p].peer = app[p].peer
    BY <2>1 DEF LobbyInv, Shaped, Pages, PageField
  <2> QED
    BY <2>1, <2>2 DEF CandInv, Met
<1>3. ASSUME NEW a \in Attempt, Continues(a)
      PROVE  CandInv'
  <2>1. CASE Assigned(a)
    <3>1. /\ mode' = mode
          /\ \/ app' = app
             \/ app' = [app EXCEPT ![a[1]] = [app[a[1]] EXCEPT !.screen = "lobby", !.at = a]]
      BY <2>1 DEF Assigned
    <3> QED
      BY <3>1, FieldPeer
  <2>2. CASE Connected(a) \/ Created(a) \/ Answered(a)
    <3>1. mode' = mode /\ (app' = app \/ app' = Set(a, "sig", a))
      BY <2>2 DEF Connected, Created, Answered
    <3>2. "sig" \in PageField \ {"peer"}
      BY DEF PageField
    <3> QED
      BY <3>1, <3>2, FieldPeer
  <2>3. CASE StartFails(a)
    <3>1. mode' = mode /\ (CloseNet(a[1]) \/ app' = app)
      BY <2>3 DEF StartFails
    <3> QED
      BY <1>0, <3>1, MenuPeer, FieldPeer
  <2>4. CASE OfferMade(a) \/ Hooked(a)
    <3>1. mode' = mode
          /\ (CloseNet(a[1]) \/ app' = app \/ app' = Set(a, "neg", a) \/ app' = Set(a, "net", a))
      BY <2>4 DEF OfferMade, Hooked
    <3>2. {"neg", "net"} \subseteq PageField \ {"peer"}
      BY DEF PageField
    <3> QED
      BY <1>0, <3>1, <3>2, MenuPeer, FieldPeer
  <2>5. CASE Accepted(a)
    <3>1. /\ mode' = mode
          /\ \/ CloseNet(a[1]) \/ app' = app
             \/ app' = [app EXCEPT ![a[1]] = [app[a[1]] EXCEPT !.neg = a, !.net = a]]
      BY <2>5 DEF Accepted
    <3> QED
      BY <1>0, <3>1, MenuPeer, FieldPeer
  <2>6. CASE RecordMade(a) \/ RecordFails(a)
    <3>1. /\ mode' = mode
          /\ \/ app' = Menu(a[1], FALSE) \/ app' = Set(a, "busy", FALSE)
             \/ app' = [app EXCEPT ![a[1]] = [app[a[1]] EXCEPT !.busy = FALSE, !.record = a]]
      BY <2>6 DEF RecordMade, RecordFails
    <3>2. "busy" \in PageField \ {"peer"}
      BY DEF PageField
    <3> QED
      BY <1>0, <3>1, <3>2, MenuPeer, FieldPeer
  <2> QED
    BY <1>3, <2>1, <2>2, <2>3, <2>4, <2>5, <2>6 DEF Continues
<1>4. ASSUME NEW a \in Attempt, Takes(a)
      PROVE  CandInv'
  <2>1. CASE RelayOpens(a)
    <3>1. /\ mode' = mode
          /\ \/ app' = app
             \/ \E v : app' = [app EXCEPT ![a[1]] = [app[a[1]] EXCEPT !.token = v, !.net = a]]
      BY <2>1 DEF RelayOpens
    <3> QED
      BY <3>1, FieldPeer
  <2>2. CASE Ignored(a)
    BY <2>2, FieldPeer DEF Ignored
  <2>3. ~Joined(a) /\ ~PeerJoined(a) /\ ~PeerLeft(a) /\ ~IceComes(a) /\ ~OfferComes(a)
        /\ ~AnswerComes(a)
    BY DEF Joined, PeerJoined, PeerLeft, IceComes, OfferComes, AnswerComes, WantsPeer,
       SeesLeaving, WantsIce, WantsOffer, WantsAnswer, Attached
  <2> QED
    BY <1>4, <2>1, <2>2, <2>3 DEF Takes
<1>5. ASSUME NEW a \in Attempt, Listens(a)
      PROVE  CandInv'
  <2>1. /\ mode' = mode
        /\ \/ CloseNet(a[1]) \/ app' = app
           \/ \E screen : app' = Page(a, screen)
           \/ \E v : app' = Set(a, "record", v)
    BY <1>5 DEF Listens, HelloComes, HelloAgain, WelcomeComes, ProfileComes, RecordComes,
       ReadyComes, QuitComes, Unheard
  <2>2. "record" \in PageField \ {"peer"}
    BY DEF PageField
  <2> QED
    BY <1>0, <2>1, <2>2, MenuPeer, FieldPeer
<1>6. ASSUME NEW a \in Attempt,
             \/ IceGathered(a) \/ Opens(a) \/ LinkCloses(a) \/ RelayCloses(a)
             \/ SocketBreaks(a) \/ HelloRetried(a) \/ HandshakeTimesOut(a)
      PROVE  CandInv'
  <2>1. /\ mode' = mode
        /\ \/ CloseNet(a[1]) \/ CloseNetOnDrop(a[1])
           \/ (\E busy : app' = Menu(a[1], busy)) \/ app' = app
    BY <1>6 DEF IceGathered, Opens, LinkCloses, RelayCloses, SocketBreaks, HelloRetried,
       HandshakeTimesOut
  <2> QED
    BY <1>0, <2>1, MenuPeer, FieldPeer
<1>7. CASE RoomActs \/ RoomExpires \/ UNCHANGED vars
  <2>1. UNCHANGED <<mode, app>>
    BY <1>7 DEF RoomActs, RoomExpires, vars
  <2> QED
    BY <2>1 DEF CandInv, Met
<1> QED
  BY <1>1, <1>2, <1>3, <1>4, <1>5, <1>6, <1>7 DEF Next

\* It holds at first.
LEMMA CandInit == Init => CandInv
<1> SUFFICES ASSUME Init
             PROVE  CandInv
  OBVIOUS
<1>0. HostFacts /\ \A a \in Attempt : a[1] \in Player /\ a # None
  BY Hosts, Attempts
<1>1. \A p \in Player : app[p].at = None /\ app[p].peer = None
  BY DEF Init, Idle
<1>2. \A a \in Attempt : /\ sock[a].phase = "idle" /\ up[a] = <<>> /\ down[a] = <<>>
                         /\ link[a].state = "none" /\ cand[a] = "none"
  BY Attempts DEF Init, RoomInit, NoLink
<1>3. RoomsFit
  <2>1. \A c \in Code : room[c].sessions = <<>>
    BY DEF Init, RoomInit, NoRoom
  <2>2. \A S : <<>> \in Seq(S)
    OBVIOUS
  <2> QED
    BY <1>0, <1>2, <2>1, <2>2 DEF RoomsFit, Opened, Init, HostFacts
<1>4. LettersFit
  <2>1. <<>> \in Seq({}) /\ \A s, m : m \in {} => Addressed(s, m) /\ Delivered(s, m)
    OBVIOUS
  <2>2. \A a \in Attempt : /\ up[a] \in Seq({}) /\ \A m \in {} : Addressed(a, m)
                           /\ down[a] \in Seq({}) /\ \A m \in {} : Delivered(a, m)
    BY <1>2, <2>1
  <2> QED
    BY <2>2 DEF LettersFit
<1>5. ASSUME NEW a \in Attempt
      PROVE  CandFits(a)
  <2>1. ~Current(a)
    BY <1>0, <1>1 DEF Current
  <2>2. Gathered(a)
    BY <1>2 DEF Gathered
  <2> QED
    BY <2>1, <2>2 DEF CandFits, LocalFits, PeerFits, Held, Dropped
<1> QED
  BY <1>1, <1>3, <1>4, <1>5 DEF CandInv, Met, Init

\* Every step of friends preserves it.
LEMMA FriendNext ==
  ASSUME LobbyInv, LobbyInv', SameInv, CandInv, mode = "friend", [Next]_vars
  PROVE  CandInv'
<1>1. ASSUME NEW p \in Player, Start(p) \/ Ready(p) \/ Leave(p)
      PROVE  CandInv'
  BY <1>1, StartFits, ReadyFits, AwayFits
<1>2. ASSUME NEW a \in Attempt, Continues(a)
      PROVE  CandInv'
  <2>1. ~Assigned(a)
    BY DEF Assigned, LobbyInv, PairedInMenu
  <2> QED
    BY <1>2, <2>1, ConnectedFits, CreatedFits, StartFailsFits, OfferMadeFits, AcceptedFits,
       AnsweredFits, HookedFits, OwnFits DEF Continues
<1>3. ASSUME NEW a \in Attempt, Takes(a)
      PROVE  CandInv'
  <2>1. ~RelayOpens(a)
    BY DEF RelayOpens
  <2> QED
    BY <1>3, <2>1, JoinedFits, PeerJoinedFits, AwayFits, IceFits, OfferComesFits, IgnoredFits
    DEF Takes
<1>4. ASSUME NEW a \in Attempt, Listens(a)
      PROVE  CandInv'
  BY <1>4, ListensFits
<1>5. ASSUME NEW a \in Attempt,
             \/ IceGathered(a) \/ Opens(a) \/ LinkCloses(a) \/ RelayCloses(a)
             \/ SocketBreaks(a) \/ HelloRetried(a) \/ HandshakeTimesOut(a)
      PROVE  CandInv'
  BY <1>5, IceGatheredFits, OwnFits, AwayFits, BreaksFits
<1>6. CASE UNCHANGED vars
  <2>1. UNCHANGED <<room, sock, up, down, app, link, driver, cand, mode>>
        /\ \A a \in Attempt : WorkOn(a)
    BY <1>6 DEF vars, roomVars, peerVars, WorkOn
  <2> QED
    BY <2>1, IdleFits
<1>7. ~Pair
  BY DEF Pair
<1> QED
  BY <1>1, <1>2, <1>3, <1>4, <1>5, <1>6, <1>7, RoomActsFit DEF Next

\* Trickle ICE loses nothing to the timing of offer and answer, however often the friends
\* try and whatever fails: while two of them are in one lobby no candidate is dropped but
\* by one that lost its signalling socket, and none is held back once there is a
\* description to apply it to (ingestRemoteCandidate(), flushRemote() and the early
\* candidates of main.ts and online-session.ts).
THEOREM NoCandidateLostHolds == Spec => []NoCandidateLost
<1>1. mode \in {"friend", "ranked"} /\ SameInv /\ CandInv /\ LobbyInv /\ LobbyInv' /\ [Next]_vars
        => CandInv'
  BY FriendNext, RankedNext
<1>2. LobbyInv => mode \in {"friend", "ranked"}
  BY DEF LobbyInv, Shaped
<1>3. SameInv /\ shown \subseteq Code /\ LobbyInv /\ LobbyInv' /\ [Next]_vars
        => (SameInv /\ shown \subseteq Code)'
  BY SameNext, ShownStep
<1> QED
  BY <1>1, <1>2, <1>3, SameInit, CandInit, LobbyInvariant, NoCandidateLostFollows, PTL DEF Spec
=============================================================================
