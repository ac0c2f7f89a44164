------------------------------- MODULE Room -------------------------------
(***************************************************************************)
(* The Room durable object (worker/room.ts, worker/room-logic.ts): one per *)
(* room code, with at most two members, the sockets that speak for them,   *)
(* and the messages it passes between them.                                *)
(*                                                                         *)
(* A handler awaits nothing but the object's own storage, so it is one     *)
(* step.  A socket is a FIFO to the object and a FIFO back; either end     *)
(* closes it without waiting for the other, which learns of it later.      *)
(*                                                                         *)
(* This module is the object and the socket; who opens sockets and what is *)
(* said on them is RoomClients' and Lobby's.  Operators whose comment      *)
(* starts with "Slip:" are definitions as a plausible mistake would have   *)
(* them.                                                                   *)
(***************************************************************************)
EXTENDS Integers, FiniteSets, SequencesExt

CONSTANTS
  Code,     \* room codes
  Socket,   \* one for each upgrade request a client ever makes
  Holder,   \* Holder[s]: the peer id that s announces in its query string
  None      \* no code

ASSUME RoomAssumption == DOMAIN Holder = Socket /\ None \notin Code

VARIABLES
  room,   \* room[c]: what the object of code c stores, and its session map
  sock,   \* sock[s]: where the socket is in its life, and the code it is for
  up,     \* up[s]: what the client said that the object has not read
  down    \* down[s]: what the object said that the client has not read

roomVars == <<room, sock, up, down>>

Peer == {Holder[s] : s \in Socket}
MaxMembers == 2

\* The sessions of a room are its attached sockets in the order they came.
NoRoom == [status |-> "unused", members |-> <<>>, roster |-> {}, sessions |-> <<>>]

Phase == {"idle", "opening", "aborted", "live", "left", "shut", "done"}

RoomTypeOK ==
  /\ room \in [Code -> [status : {"unused", "open", "stale", "gone"}, members : Seq(Peer),
                        roster : SUBSET Peer, sessions : Seq(Socket)]]
  /\ sock \in [Socket -> [phase : Phase, code : Code \cup {None}]]
  /\ DOMAIN up = Socket /\ DOMAIN down = Socket

RoomInit ==
  /\ room = [c \in Code |-> NoRoom]
  /\ sock = [s \in Socket |-> [phase |-> "idle", code |-> None]]
  /\ up = [s \in Socket |-> <<>>]
  /\ down = [s \in Socket |-> <<>>]

-----------------------------------------------------------------------------
\* Both a room in its time and one whose time is up have a row.
Exists(c) == room[c].status \in {"open", "stale"}
Members(c) == ToSet(room[c].members)
Sessions(c) == ToSet(room[c].sessions)
PeersOf(c, p) == Members(c) \ {p}

In(phase) == {s \in Socket : sock[s].phase = phase}

\* send(): to a socket that is closing nothing goes out.
Told(ss, m) == [s \in Socket |-> IF s \in ss /\ sock[s].phase = "live" THEN Append(down[s], m)
                                 ELSE down[s]]
Others(c, p) == {s \in Sessions(c) : Holder[s] # p}

\* The object closes the sockets ss; a client that closed first is past telling.
Closing(ss) == [s \in Socket |-> IF s \in ss /\ sock[s].phase = "live"
                                 THEN [sock[s] EXCEPT !.phase = "shut"] ELSE sock[s]]

\* destroyRoom()
Destroyed(c) == [room EXCEPT ![c] = [NoRoom EXCEPT !.status = "gone"]]
SocketsOf(c) == {s \in Socket : sock[s].code = c}

-----------------------------------------------------------------------------
\* POST /init: the creator is a member before it has a socket.  A code that is
\* taken is answered 409, and the Worker draws another.
CreateRoom(c, host, roster) ==
  /\ room[c].status = "unused"
  /\ room' = [room EXCEPT ![c] = [status |-> "open", members |-> <<host>>,
                                  roster |-> roster, sessions |-> <<>>]]
  /\ UNCHANGED <<sock, up, down>>

\* The client asks for an upgrade.
OpenSocket(s, c) ==
  /\ sock[s].phase = "idle"
  /\ sock' = [sock EXCEPT ![s] = [phase |-> "opening", code |-> c]]
  /\ UNCHANGED <<room, up, down>>

Full(c, p) == p \notin Members(c) /\ Len(room[c].members) >= MaxMembers
Barred(c, p) == room[c].roster # {} /\ p \notin room[c].roster

\* rejectSocket(): an error and a close, and no membership.  A room found past
\* its time is destroyed first.
Refuse(s) ==
  LET c == sock[s].code
      stale == room[c].status = "stale"
      closed == IF stale THEN Closing(SocketsOf(c)) ELSE sock
  IN /\ sock[s].phase \in {"opening", "aborted"}
     /\ room[c].status # "open" \/ Barred(c, Holder[s]) \/ Full(c, Holder[s])
     /\ room' = IF stale THEN Destroyed(c) ELSE room
     /\ sock' = [closed EXCEPT ![s].phase = IF sock[s].phase = "aborted" THEN "done" ELSE "shut"]
     /\ down' = [down EXCEPT ![s] = IF sock[s].phase = "aborted" THEN <<>>
                                    ELSE <<[t |-> "error"]>>]
     /\ UNCHANGED up

\* The upgrade: membership, the session, room-joined for the newcomer and
\* peer-joined for whoever is there.
Admit(s) ==
  LET c == sock[s].code
      p == Holder[s]
      joined == [t |-> "room-joined", peers |-> Members(c) \ {p}]
      news == Told(Others(c, p), [t |-> "peer-joined", peer |-> p])
  IN /\ sock[s].phase \in {"opening", "aborted"}
     /\ room[c].status = "open" /\ ~Barred(c, p) /\ ~Full(c, p)
     /\ room' = [room EXCEPT ![c].members = IF p \in Members(c) THEN @ ELSE Append(@, p),
                             ![c].sessions = Append(@, s)]
     /\ sock' = [sock EXCEPT ![s].phase = IF @ = "aborted" THEN "left" ELSE "live"]
     /\ down' = [news EXCEPT ![s] = IF sock[s].phase = "aborted" THEN <<>> ELSE <<joined>>]
     /\ UNCHANGED up

-----------------------------------------------------------------------------
(***************************************************************************)
(* removePeer(c, p), with the sessions that are left: the member stays     *)
(* while a socket still speaks for it; the others learn that it left; with *)
(* the last member the room goes, and its sockets are closed.              *)
(***************************************************************************)

StillHere(p, sessions) == \E s \in ToSet(sessions) : Holder[s] = p
Rest(c, p) == RemoveFirst(room[c].members, p)
Empties(c, p, sessions) == ~StillHere(p, sessions) /\ Rest(c, p) = <<>>

\* Slip: the session goes, and the seat is kept.
SeatedStill(c, p, sessions) ==
  IF Empties(c, p, sessions) THEN Destroyed(c) ELSE [room EXCEPT ![c].sessions = sessions]

WithoutPeer(c, p, sessions) ==
  IF Empties(c, p, sessions) THEN Destroyed(c)
  ELSE [room EXCEPT ![c].members = IF StillHere(p, sessions) THEN @ ELSE Rest(c, p),
                    ![c].sessions = sessions]
\* Slip: the row is deleted and the other member is not told.
ToldNothing(c, p, sessions) == down

ToldOfLeaving(c, p, sessions) ==
  IF StillHere(p, sessions) \/ Empties(c, p, sessions) THEN down
  ELSE Told({s \in ToSet(sessions) : Holder[s] # p}, [t |-> "peer-left", peer |-> p])
ClosedByLeaving(c, p, sessions) ==
  Closing(IF Empties(c, p, sessions) THEN SocketsOf(c) ELSE {})

\* socketFor(): the first of a peer's sockets, in the order they came.
SocketFor(c, p) ==
  room[c].sessions[SelectInSeq(room[c].sessions, LAMBDA s : Holder[s] = p)]

\* authorizeRelay(): both ends have a seat, and nothing goes to another room.
Authorized(c, from, to) == {from, to} \subseteq Members(c)

\* A signal: the seat of the one it is for may outlive its last socket.
Relay(c, s, m) ==
  LET known == Authorized(c, Holder[s], m.to)
      online == \E o \in Sessions(c) : Holder[o] = m.to
  IN /\ down' = IF known /\ online
                THEN Told({SocketFor(c, m.to)},
                          [t |-> "signaled", from |-> Holder[s], body |-> m.body])
                ELSE Told({s}, [t |-> "error"])
     /\ UNCHANGED <<room, sock>>

\* A binary packet: rostered rooms only, and no more than the room admits in a
\* second; "flood" is what goes beyond.
Packet(c, s, m) ==
  LET admitted == room[c].roster # {} /\ m.t = "packet"
  IN /\ down' = IF admitted THEN Told(Others(c, Holder[s]), [t |-> "packet", body |-> m.body])
                ELSE down
     /\ sock' = Closing(IF admitted THEN {} ELSE {s})
     /\ UNCHANGED room

\* A message in a room that is gone, or past its time, which goes now.
ServeClosed(s, c) ==
  /\ room[c].status # "open"
  /\ room' = IF Exists(c) THEN Destroyed(c) ELSE room
  /\ sock' = Closing(SocketsOf(c))
  /\ UNCHANGED down

\* webSocketMessage(): the next message of s.
Serve(s) ==
  LET c == sock[s].code
      p == Holder[s]
      m == Head(up[s])
  IN /\ sock[s].phase \in {"live", "left", "shut"} /\ up[s] # <<>>
     /\ up' = [up EXCEPT ![s] = Tail(@)]
     /\ \/ ServeClosed(s, c)
        \/ /\ room[c].status = "open" /\ m.t = "leave-room"
           /\ room' = WithoutPeer(c, p, room[c].sessions)
           /\ down' = ToldOfLeaving(c, p, room[c].sessions)
           /\ sock' = ClosedByLeaving(c, p, room[c].sessions)
        \/ room[c].status = "open" /\ m.t = "signal" /\ Relay(c, s, m)
        \/ room[c].status = "open" /\ m.t \in {"packet", "flood"} /\ Packet(c, s, m)

\* webSocketClose(), webSocketError(): all that the client said has been read,
\* and the socket is no longer listed.
Close(s) ==
  LET c == sock[s].code
      attached == s \in Sessions(c)
      sessions == RemoveFirst(room[c].sessions, s)
  IN /\ sock[s].phase \in {"left", "shut"}
     /\ up[s] = <<>> /\ down[s] = <<>>
     /\ room' = IF attached THEN WithoutPeer(c, Holder[s], sessions) ELSE room
     /\ down' = IF attached THEN ToldOfLeaving(c, Holder[s], sessions) ELSE down
     /\ sock' = [IF attached THEN ClosedByLeaving(c, Holder[s], sessions) ELSE sock
                  EXCEPT ![s].phase = "done"]
     /\ UNCHANGED up

\* The room's two hours are over; its alarm comes at that time or later.
Expire(c) ==
  /\ room[c].status = "open"
  /\ room' = [room EXCEPT ![c].status = "stale"]
  /\ UNCHANGED <<sock, up, down>>

Alarm(c) ==
  /\ room[c].status = "stale"
  /\ room' = Destroyed(c)
  /\ sock' = Closing(SocketsOf(c))
  /\ UNCHANGED <<up, down>>

RoomStep(s) == Refuse(s) \/ Admit(s) \/ Serve(s) \/ Close(s)

-----------------------------------------------------------------------------
(***************************************************************************)
(* The client's end of a socket.                                           *)
(***************************************************************************)
Says(s, ms) == [up EXCEPT ![s] = IF sock[s].phase = "live" THEN @ \o ms ELSE @]

\* close(), after the last words ms; what still comes is not heard.
HangUp(s, ms) ==
  /\ sock' = [sock EXCEPT ![s].phase = CASE @ = "opening" -> "aborted" [] @ = "live" -> "left"
                                         [] OTHER -> @]
  /\ up' = [up EXCEPT ![s] = IF sock[s].phase = "live" THEN @ \o ms ELSE @]
  /\ down' = [down EXCEPT ![s] = <<>>]

\* The connection breaks, with what was under way in it.
Break(s) ==
  /\ sock[s].phase = "live"
  /\ sock' = [sock EXCEPT ![s].phase = "left"]
  /\ up' = [up EXCEPT ![s] = <<>>]
  /\ down' = [down EXCEPT ![s] = <<>>]

\* The client takes the next message.
Heard(s) == [down EXCEPT ![s] = Tail(@)]
=============================================================================
