------------------------------ MODULE MCServers ------------------------------
(***************************************************************************)
(* The servers for model checking: the country league of the Worker (part  *)
(* "countries"), the Matchmaker durable object (part "matchmaker"), and of *)
(* the Node server a room (part "room") and a league among friends (part   *)
(* "league").  The parts share nothing: a behaviour is of one of them.     *)
(***************************************************************************)
EXTENDS MCCityLeague, MCMatchmaking, FriendLeague, NodeRooms

VARIABLE part

\* Three clients of the Node server, one of whom comes back on a second socket.
FourSockets == <<"h", "g", "g", "x">>

\* Whoever can be exchanged in the part that moves.
Exchanged == Alike \cup Twins

MCInit ==
  /\ part \in {"countries", "matchmaker", "room", "league"}
  /\ Init /\ QueueInit /\ LeagueInit /\ NodeInit
MCNext ==
  /\ UNCHANGED part
  /\ \/ part = "countries" /\ Next /\ UNCHANGED <<queueVars, leagueVars, nodeVars>>
     \/ part = "matchmaker" /\ QueueNext /\ UNCHANGED <<vars, leagueVars, nodeVars>>
     \/ part = "room" /\ NodeNext /\ UNCHANGED <<vars, queueVars, leagueVars>>
     \/ part = "league" /\ LeagueNext /\ UNCHANGED <<vars, queueVars, nodeVars>>
MCSpec == MCInit /\ [][MCNext]_<<part, vars, queueVars, leagueVars, nodeVars>>
=============================================================================
