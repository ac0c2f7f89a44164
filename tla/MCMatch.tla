------------------------------- MODULE MCMatch -------------------------------
(***************************************************************************)
(* The parts of the page for model checking: the rules of the engine (part *)
(* "rules"), the way of a press into a tick (part "presses"), and the      *)
(* screens around the matches (part "page"); and of the tool that renders  *)
(* the social videos: its processes (part "run"), and what the videos show *)
(* and sound (part "video").  The parts share nothing: a behaviour is of   *)
(* one of them.                                                            *)
(***************************************************************************)
EXTENDS MatchEngine, InputStaging, Shell, RenderRun, Montage

VARIABLE part

MCInit ==
  /\ part \in {"rules", "presses", "page", "run", "video"}
  /\ Init /\ InputInit /\ ShellInit /\ RenderInit /\ MontageInit
  /\ part = "rules" => remote = (hands = 1)    \* who presses: the guest, or a host alone
  /\ part # "rules" => ~remote      \* any: the other parts do not move
  /\ part = "presses" => online \/ button = "shot"    \* alone they are alike
  /\ part # "presses" => ~online /\ button = "shot"
  /\ part # "page" => ~profile
MCNext ==
  /\ UNCHANGED part
  /\ \/ /\ part = "rules" /\ Next
        /\ UNCHANGED <<inputVars, shellVars, renderVars, montageVars>>
     \/ /\ part = "presses" /\ InputNext
        /\ UNCHANGED <<vars, shellVars, renderVars, montageVars>>
     \/ /\ part = "page" /\ ShellNext
        /\ UNCHANGED <<vars, inputVars, renderVars, montageVars>>
     \/ /\ part = "run" /\ RenderNext
        /\ UNCHANGED <<vars, inputVars, shellVars, montageVars>>
     \/ /\ part = "video" /\ MontageNext
        /\ UNCHANGED <<vars, inputVars, shellVars, renderVars>>
MCSpec ==
  MCInit /\ [][MCNext]_<<part, vars, inputVars, shellVars, renderVars, montageVars>>
=============================================================================
