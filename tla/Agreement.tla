----------------------------- MODULE Agreement ------------------------------
(***************************************************************************)
(* What the netcode of a match promises, without any of its machinery: one *)
(* history of engine steps that several readers play through, each at its  *)
(* own pace.  The reader in front writes the history as it goes; nobody    *)
(* changes what is written, skips a step or runs far ahead of another.     *)
(***************************************************************************)
EXTENDS Integers, Sequences

CONSTANTS
  Reader,    \* who plays the match
  MaxLead    \* how many steps a reader may be ahead of another

VARIABLES
  history,   \* the steps written so far
  played     \* the steps each reader has played

Begins(whole, part) ==
  /\ Len(part) <= Len(whole)
  /\ \A k \in 1 .. Len(part) : part[k] = whole[k]

Init ==
  /\ history = <<>>
  /\ played = [r \in Reader |-> <<>>]

\* Reader r plays on, and writes the part nobody has played before.
Play(r) ==
  /\ Begins(played'[r], played[r])
  /\ Begins(history', history)
  /\ Begins(history', played'[r])
  /\ history' # history => history' = played'[r]
  /\ \A q \in Reader \ {r} : /\ played'[q] = played[q]
                             /\ Len(played'[r]) - Len(played[q]) <= MaxLead

Next == \E r \in Reader : Play(r)

Spec == Init /\ [][Next]_<<history, played>>
=============================================================================
