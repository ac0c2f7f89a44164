----------------------------- MODULE MCLockstep -----------------------------
(***************************************************************************)
(* Lockstep on small instances.  The constants, all of them bounds or      *)
(* small stand-ins for the code's values, are given in the .cfg files.     *)
(***************************************************************************)
EXTENDS Lockstep

\* Bound: whoever pauses in an instance has pressed nothing else by then, and
\* nothing is pressed afterwards.
PressOrPause ==
  pauses # 0 => \A p \in Peers : \A t \in Ticks : local[p][t] \in {Idle, None}

FewerNext == Next /\ PressOrPause'

FewerSpec == Init /\ [][FewerNext]_vars /\ Fairness
=============================================================================
