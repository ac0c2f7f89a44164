---------------------------- MODULE MCCityLeague ----------------------------
(***************************************************************************)
(* CityLeague for model checking: which scores are reported, and which     *)
(* players and countries can be exchanged for one another.                 *)
(***************************************************************************)
EXTENDS CityLeague, TLC

\* A home win, and a score with the same home goals that is an away win.
HomeOrAway == {<<1, 0>>, <<1, 2>>}

Alike == Permutations(Client) \cup Permutations(Country)
=============================================================================
