------------------------------ MODULE NodeRooms ------------------------------
(***************************************************************************)
(* A room of the self-hosted Node server (apps/server: server.ts, rooms.ts *)
(* and redis-store.ts), which keeps the record of the room in Redis and    *)
(* the sockets in memory.                                                  *)
(*                                                                         *)
(* A handler runs until it awaits Redis; other handlers run meanwhile.     *)
(* addMember() is one script and so one step, removeMember() reads the     *)
(* record and writes it back in two.  With the memory store a handler is   *)
(* not interrupted, so its behaviours are among these.                     *)
(*                                                                         *)
(* What is sent to the sockets is left out: it changes nothing here.       *)
(* Operators whose comment starts with "Slip:" are not part of the model.  *)
(***************************************************************************)
EXTENDS Integers, FiniteSets

CONSTANTS
  ClientOf,     \* ClientOf[s]: the client who opens the socket s
  Nil,          \* null
  MaxMembers,   \* 2
  MaxMessages   \* bound: messages that pass the rate limit

Sock == DOMAIN ClientOf
Person == {ClientOf[s] : s \in Sock}

\* A socket's handlers: of the message it is at work on, and of its close event.
Job == Sock \X {"message", "close"}
Who(j) == ClientOf[j[1]]

VARIABLES
  record,       \* the room's members in Redis, or Nil
  made,         \* the room has been created: its code is not used again
  messages,     \* how many messages there have been
  openSockets,  \* the sockets that are open
  closed,       \* and those that have closed
  bound,        \* the sockets bound to the room (Peer.room)
  byClient,     \* the socket each client is reached at
  task,         \* what each handler does next
  read          \* the record as each removeMember() has read it

nodeVars == <<record, made, messages, openSockets, closed, bound, byClient, task, read>>

NodeInit ==
  /\ record = Nil /\ made = FALSE /\ messages = 0
  /\ openSockets = {} /\ closed = {} /\ bound = {}
  /\ byClient = [c \in Person |-> Nil]
  /\ task = [j \in Job |-> "none"] /\ read = [j \in Job |-> Nil]

Doing(j, what) == task[j] = what
Turns(j, what) == task' = [task EXCEPT ![j] = what]

Connect(s) ==
  /\ s \notin openSockets \cup closed /\ openSockets' = openSockets \cup {s}
  /\ UNCHANGED <<messages, record, made, closed, bound, byClient, task, read>>

\* A message comes and passes the rate limit; a bound: one at a time.
Message(s) ==
  /\ s \in openSockets /\ Doing(<<s, "message">>, "none")
  /\ messages < MaxMessages /\ messages' = messages + 1
  /\ \/ ~made /\ Turns(<<s, "message">>, "create")
     \/ made /\ Turns(<<s, "message">>, "join")
     \/ s \in bound /\ Turns(<<s, "message">>, "leave")
  /\ UNCHANGED <<record, made, openSockets, closed, bound, byClient, read>>

\* createRoom(): only if there is none.
CreateRoom(j) ==
  /\ Doing(j, "create")
  /\ IF made THEN Turns(j, "none") /\ UNCHANGED <<record, made>>
     ELSE made' = TRUE /\ record' = {Who(j)} /\ Turns(j, "bind")
  /\ UNCHANGED <<messages, openSockets, closed, bound, byClient, read>>

\* Slip: the room is full when it has more members than it may have.
FreeUpTo(members) == Cardinality(members) <= MaxMembers

FreeSeat(members) == Cardinality(members) < MaxMembers

\* addMember(): a member may join again; anybody else needs a free seat.
AddRoomMember(j) ==
  /\ Doing(j, "join")
  /\ LET joins == record # Nil /\ (Who(j) \in record \/ FreeSeat(record)) IN
       /\ record' = IF joins THEN record \cup {Who(j)} ELSE record
       /\ Turns(j, IF joins THEN "bind" ELSE "none")
  /\ UNCHANGED <<messages, made, openSockets, closed, bound, byClient, read>>

\* Back from Redis the socket is bound to the room, even one closed meanwhile.
Bind(j) ==
  /\ Doing(j, "bind")
  /\ bound' = bound \cup {j[1]} /\ byClient' = [byClient EXCEPT ![Who(j)] = j[1]]
  /\ Turns(j, "none")
  /\ UNCHANGED <<messages, record, made, openSockets, closed, read>>

Without(members, c) == members \ {c}

\* removeMember(): reads the record ...
ReadRecord(j) ==
  /\ Doing(j, "leave")
  /\ IF record = Nil THEN Turns(j, "none") /\ bound' = bound \ {j[1]} /\ UNCHANGED read
     ELSE Turns(j, "write") /\ read' = [read EXCEPT ![j] = record] /\ UNCHANGED bound
  /\ UNCHANGED <<messages, record, made, openSockets, closed, byClient>>

\* ... and writes it back: what has happened to it since is undone.
WriteRecord(j) ==
  /\ Doing(j, "write")
  /\ LET rest == Without(read[j], Who(j)) IN record' = IF rest = {} THEN Nil ELSE rest
  /\ read' = [read EXCEPT ![j] = Nil]
  /\ bound' = bound \ {j[1]}
  /\ Turns(j, "none")
  /\ UNCHANGED <<messages, made, openSockets, closed, byClient>>

\* detach(): the member leaves, whatever other socket it has.
Close(s) ==
  /\ s \in openSockets
  /\ openSockets' = openSockets \ {s} /\ closed' = closed \cup {s}
  /\ byClient' = IF byClient[ClientOf[s]] = s
                 THEN [byClient EXCEPT ![ClientOf[s]] = Nil] ELSE byClient
  /\ IF s \in bound THEN Turns(<<s, "close">>, "leave") ELSE UNCHANGED task
  /\ UNCHANGED <<messages, record, made, bound, read>>

\* The record's time to live ends.
Expire ==
  /\ record # Nil /\ record' = Nil
  /\ UNCHANGED <<messages, made, openSockets, closed, bound, byClient, task, read>>

NodeNext ==
  \/ \E s \in Sock : Connect(s) \/ Message(s) \/ Close(s)
  \/ \E j \in Job : CreateRoom(j) \/ AddRoomMember(j) \/ Bind(j) \/ ReadRecord(j) \/ WriteRecord(j)
  \/ Expire

NodeSpec == NodeInit /\ [][NodeNext]_nodeVars

-----------------------------------------------------------------------------
(* Properties *)

\* However joins, departures that write back what they read, and expiry overlap,
\* a room never has more than two members ("concurrent joins can never overfill a
\* room").
NeverOverfull == record # Nil => Cardinality(record) <= MaxMembers
=============================================================================
