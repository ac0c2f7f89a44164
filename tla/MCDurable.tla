------------------------------ MODULE MCDurable ------------------------------
(***************************************************************************)
(* The two durable objects of the Worker for model checking: the           *)
(* matchmaker with its searching clients (part "matchmaker"), and a room   *)
(* under any clients at all (part "room").  The parts share nothing: a     *)
(* behaviour is of one of them.                                            *)
(***************************************************************************)
EXTENDS MCMatchmaking, RoomClients

CONSTANTS ann, bob

VARIABLE part

\* The creator on one socket, its guest on two, one after the other or at once.
ThreeSockets == ("h1" :> ann) @@ ("g1" :> bob) @@ ("g2" :> bob)
SocketNames == DOMAIN ThreeSockets

MCInit == part \in {"matchmaker", "room"} /\ QueueInit /\ ClientsInit
MCNext ==
  /\ UNCHANGED part
  /\ \/ part = "matchmaker" /\ QueueNext /\ UNCHANGED clientVars
     \/ part = "room" /\ ClientsNext /\ UNCHANGED queueVars

\* The clients of the room need not do anything.
MCSpec == MCInit /\ [][MCNext]_<<part, queueVars, clientVars>> /\ QueueFairness
=============================================================================
