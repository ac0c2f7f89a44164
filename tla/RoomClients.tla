---------------------------- MODULE RoomClients ----------------------------
(***************************************************************************)
(* One Room object with clients that may do whatever its protocol lets     *)
(* them: come back on a second socket before the first is gone, leave      *)
(* without waiting, lose the connection, ask for a room that is full or    *)
(* gone.                                                                   *)
(***************************************************************************)
EXTENDS Room

CONSTANTS
  Creator,    \* the peer that creates each room
  Rostered,   \* the two peers of a reserved room
  MaxSaid     \* bound: nothing is said while more than this is under way

VARIABLE sees   \* sees[s]: the others in the room, as s was told and has read

clientVars == <<roomVars, sees>>

ClientsInit ==
  /\ RoomInit
  /\ sees = [s \in Socket |-> {}]

Create(c, roster) == CreateRoom(c, Creator, roster) /\ UNCHANGED sees

Open(s, c) == OpenSocket(s, c) /\ UNCHANGED sees

UnderWay == FoldSet(LAMBDA s, n : n + Len(up[s]) + Len(down[s]), 0, Socket)

Say(s, m) ==
  /\ sock[s].phase = "live" /\ UnderWay < MaxSaid
  /\ up' = Says(s, <<m>>)
  /\ UNCHANGED <<room, sock, down, sees>>

Leave(s) ==
  /\ sock[s].phase \in {"opening", "live"}
  /\ \E last \in {<<>>, <<[t |-> "leave-room"]>>} : HangUp(s, last)
  /\ UNCHANGED <<room, sees>>

LoseConnection(s) == Break(s) /\ UNCHANGED <<room, sees>>

\* What a message does to a client's idea of who is there.
After(view, m) ==
  CASE m.t = "room-joined" -> m.peers
    [] m.t = "peer-joined" -> view \cup {m.peer}
    [] m.t = "peer-left" -> view \ {m.peer}
    [] OTHER -> view

Hear(s) ==
  /\ down[s] # <<>>
  /\ sees' = [sees EXCEPT ![s] = After(@, Head(down[s]))]
  /\ down' = Heard(s)
  /\ UNCHANGED <<room, sock, up>>

Handles(s) == RoomStep(s) /\ UNCHANGED sees
Time(c) == (Expire(c) \/ Alarm(c)) /\ UNCHANGED sees

Messages(s) ==
  {[t |-> "leave-room"], [t |-> "packet", body |-> "input"], [t |-> "flood", body |-> "input"]}
  \cup {[t |-> "signal", to |-> p, body |-> "sdp"] : p \in Peer \ {Holder[s]}}

ClientsNext ==
  \/ \E c \in Code, roster \in {{}, Rostered} : Create(c, roster)
  \/ \E s \in Socket, c \in Code : Open(s, c)
  \/ \E s \in Socket : \E m \in Messages(s) : Say(s, m)
  \/ \E s \in Socket : Leave(s) \/ LoseConnection(s) \/ Hear(s) \/ Handles(s)
  \/ \E c \in Code : Time(c)

ClientsSpec == ClientsInit /\ [][ClientsNext]_clientVars
-----------------------------------------------------------------------------
\* A session, its member: while a socket of a peer is attached the peer is a
\* member, whatever other sockets of the same peer close meanwhile
\* (hasLiveSocketFor).  A seat lost this way would go to a third peer.
SeatKept ==
  \A c \in Code : room[c].status = "open" =>
    \A s \in Sessions(c) : Holder[s] \in Members(c)

\* No ghosts: a member other than the creator, who has its seat before it
\* connects, has a socket; a seat nobody sits on would keep the room full for
\* two hours.
NoGhost ==
  \A c \in Code : \A p \in Members(c) \ {Creator} :
    \E s \in Sessions(c) : Holder[s] = p

\* A peer has a seat if, and but for the creator only if, it has a socket.
SeatIffSocket == SeatKept /\ NoGhost

\* What a client whose view is view will know of p once it has read the messages ms:
\* the last word about p counts.
Known == Peer \cup {Creator}
About(p, ms) ==
  {i \in DOMAIN ms : \/ ms[i].t = "room-joined"
                     \/ ms[i].t \in {"peer-joined", "peer-left"} /\ ms[i].peer = p}
WillSee(p, ms, view) ==
  \/ About(p, ms) = {} /\ p \in view
  \/ \E i \in About(p, ms) : p \in After({}, ms[i]) /\ \A j \in About(p, ms) : j <= i

\* Presence: once a client has read what is under way to it, it knows exactly
\* who else is a member: no join or leave is lost, or overtaken by an older one.
\* A peer that comes back on a second socket is announced again (room.ts:250),
\* which tells the others nothing new.
PresenceAgrees ==
  \A c \in Code : room[c].status = "open" =>
    \A s \in Sessions(c) : sock[s].phase = "live" =>
      {p \in Known : WillSee(p, down[s], sees[s])} = PeersOf(c, Holder[s])
=============================================================================
