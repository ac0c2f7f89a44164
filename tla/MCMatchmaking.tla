--------------------------- MODULE MCMatchmaking ---------------------------
(***************************************************************************)
(* Matchmaking for model checking: which country each client plays for and *)
(* how often it searches.                                                  *)
(***************************************************************************)
EXTENDS Matchmaking, TLC

CONSTANTS c1, c2, c3

\* Two players of one country, and one of another, who search once.
TwoAndOne == c1 :> "TR" @@ c2 :> "TR" @@ c3 :> "DE"
Once == c1 :> 1 @@ c2 :> 1 @@ c3 :> 1

Twins == Permutations({c1, c2})

\* A player each of two countries, one of whom searches again.
OneEach == c2 :> "TR" @@ c3 :> "DE"
Again == c2 :> 1 @@ c3 :> 2
=============================================================================
