------------------------------- MODULE Scenes -------------------------------
(***************************************************************************)
(* The five staged scenes of the social videos as functions of the scene's *)
(* own time: what the ball does, when a frame is held, when it crosses the *)
(* line, where the camera cuts, whom the crowd cheers, which sounds start  *)
(* when (audio/compile.ts) and which texts are shown (overlays/presets.ts).*)
(* Beats and sounds are in milliseconds, times of frames in thirds of one, *)
(* so that a frame at 24, 30 or 60 fps is a whole number; lengths along    *)
(* the pitch are in centimetres.  What the players do, where the cameras   *)
(* are and how anything looks is left out.                                 *)
(***************************************************************************)
EXTENDS Integers, Sequences, FiniteSetsExt

Scene == {"faceoff", "attack", "cross", "crossbar", "keeper"}

\* SCENE_DEFAULT_DURATION
DefaultDuration ==
  [faceoff |-> 4000, attack |-> 9500, cross |-> 8000, crossbar |-> 9500, keeper |-> 10500]

Thirds(ms) == 3 * ms
Later(a, b) == IF a > b THEN a ELSE b

-----------------------------------------------------------------------------
(* The beats *)

AttackBeats ==
  [pass1Start |-> 1200, pass1End |-> 2200, carryEnd |-> 3600, pass2End |-> 4400,
   settleEnd |-> 4900, shotStart |-> 5300, shotEnd |-> 5850, netSettleEnd |-> 6150]

CrossBeats ==
  [passStart |-> 1100, passEnd |-> 1800, crossContact |-> 3500, contact |-> 5800,
   holdLen |-> 50, headerEnd |-> 6350, netSettleEnd |-> 6700]

CrossbarBeats ==
  [shotStart |-> 3400, barHit |-> 4300, holdLen |-> 60, volleyContact |-> 6800,
   volleyEnd |-> 7300, netSettleEnd |-> 7600]

KeeperBeats ==
  [shotStart |-> 2500, saveMoment |-> 3300, holdLen |-> 50, gatherEnd |-> 3750,
   holdBallEnd |-> 4600, clearanceKick |-> 5800, clearanceEnd |-> 7000, settleEnd |-> 7550,
   shot2Start |-> 7800, instantShotEnd |-> 8300, netSettleEnd |-> 8550]

-----------------------------------------------------------------------------
(* The picture *)

\* A leg of the ball's way: until when, what it does, and what it meets at the end.
Leg(until, ball, strike) == [until |-> until, ball |-> ball, strike |-> strike]

AttackLegs ==
  LET B == AttackBeats IN
  << Leg(B.pass1Start, "feet", "kick"), Leg(B.pass1End, "pass", "none"),
     Leg(B.carryEnd, "feet", "kick"), Leg(B.pass2End, "pass", "none"),
     Leg(B.settleEnd, "rolls", "none"), Leg(B.shotStart, "lies", "shot"),
     Leg(B.shotEnd, "shot", "none"), Leg(B.netSettleEnd, "drops", "none") >>

CrossLegs ==
  LET B == CrossBeats IN
  << Leg(B.passStart, "feet", "kick"), Leg(B.passEnd, "pass", "none"),
     Leg(B.crossContact, "feet", "cross"), Leg(B.contact, "cross", "header"),
     Leg(B.headerEnd, "shot", "none"), Leg(B.netSettleEnd, "drops", "none") >>

CrossbarLegs ==
  LET B == CrossbarBeats IN
  << Leg(B.shotStart, "feet", "shot"), Leg(B.barHit, "flies", "crossbar"),
     Leg(B.volleyContact, "rebounds", "header"), Leg(B.volleyEnd, "shot", "none"),
     Leg(B.netSettleEnd, "drops", "none") >>

KeeperLegs ==
  LET B == KeeperBeats IN
  << Leg(B.shotStart, "feet", "shot"), Leg(B.saveMoment, "flies", "save"),
     Leg(B.gatherEnd, "parried", "none"), Leg(B.clearanceKick, "gloves", "clearance"),
     Leg(B.clearanceEnd, "flies", "none"), Leg(B.settleEnd, "feet", "none"),
     Leg(B.shot2Start, "lies", "shot"), Leg(B.instantShotEnd, "shot", "none"),
     Leg(B.netSettleEnd, "drops", "none") >>

Legs == [faceoff |-> <<>>, attack |-> AttackLegs, cross |-> CrossLegs,
         crossbar |-> CrossbarLegs, keeper |-> KeeperLegs]

\* What meets the ball in a scene, and when.
StrikesIn(scene) ==
  {[at |-> Legs[scene][i].until, sound |-> Legs[scene][i].strike] :
     i \in {j \in DOMAIN Legs[scene] : Legs[scene][j].strike # "none"}}

\* The deliberate hold of a scene.
NoHold == [at |-> 0, len |-> 0]
HoldOf ==
  [faceoff |-> NoHold, attack |-> NoHold,
   cross |-> [at |-> CrossBeats.contact, len |-> CrossBeats.holdLen],
   crossbar |-> [at |-> CrossbarBeats.barHit, len |-> CrossbarBeats.holdLen],
   keeper |-> [at |-> KeeperBeats.saveMoment, len |-> KeeperBeats.holdLen]]

InHold(scene, t) ==
  /\ HoldOf[scene].len > 0
  /\ Thirds(HoldOf[scene].at) <= t
  /\ t < Thirds(HoldOf[scene].at + HoldOf[scene].len)

\* applyHold(): the time of the action in the picture at time t.
HeldAt(scene, t) ==
  LET h == HoldOf[scene] IN
  IF h.len = 0 \/ t < Thirds(h.at) THEN t
  ELSE IF InHold(scene, t) THEN Thirds(h.at)
       ELSE t - Thirds(h.len)

GoalX == 4600

\* The flight into the goal: its beats, and where it starts.  Only an attack depends on
\* the style.
ShootSpot == [central |-> 3000, wing |-> 3100, counter |-> 2200]
AttackFlight(style) ==
  [from |-> AttackBeats.shotStart, to |-> AttackBeats.shotEnd, x |-> ShootSpot[style] + 60]
CrossFlight == [from |-> CrossBeats.contact, to |-> CrossBeats.headerEnd, x |-> 3850]
CrossbarFlight ==
  [from |-> CrossbarBeats.volleyContact, to |-> CrossbarBeats.volleyEnd, x |-> 3960]
KeeperFlight ==
  [from |-> KeeperBeats.shot2Start, to |-> KeeperBeats.instantShotEnd, x |-> 3070]
Flight(scene, style) ==
  CASE scene = "attack"   -> AttackFlight(style)
    [] scene = "cross"    -> CrossFlight
    [] scene = "crossbar" -> CrossbarFlight
    [] scene = "keeper"   -> KeeperFlight
GoalTarget == GoalX + 120

\* When the ball, which flies evenly, crosses the line.
LineTime(scene, style) ==
  LET f == Flight(scene, style) IN
  Thirds(f.from) + (Thirds(f.to - f.from) * (GoalX - f.x)) \div (GoalTarget - f.x)

\* The ends of the camera shots, and the shot, which is the camera, at time t.
AttackShotEnds == <<2200, 4400, 5300, 5950, 7200, 9500>>
CrossShotEnds == <<2200, 4150, 4500, 5000, 5800, 6050, 6800, 8000>>
CrossbarShotEnds == <<2500, 3400, 4300, 6800, 7350, 8300, 9500>>
KeeperShotEnds == <<2500, 3600, 4600, 6200, 7800, 8350, 9000, 10500>>
ShotEnds ==
  [faceoff |-> <<4000>>, attack |-> AttackShotEnds, cross |-> CrossShotEnds,
   crossbar |-> CrossbarShotEnds, keeper |-> KeeperShotEnds]

ActiveShot(scene, t) ==
  LET ends == ShotEnds[scene]
  IN  Min({i \in DOMAIN ends : t < Thirds(ends[i])} \cup {Len(ends)})

\* Whom the supporters celebrate.
Since(t, beat) == Thirds(beat) <= t
AttackCheered(t) == IF Since(t, AttackBeats.shotEnd) THEN "scorers" ELSE "nobody"
CrossCheered(t) == IF Since(t, CrossBeats.contact) THEN "scorers" ELSE "nobody"
CrossbarCheered(t) ==
  IF Since(t, 7300) \/ (Since(t, CrossbarBeats.barHit) /\ ~Since(t, 4850))
  THEN "scorers" ELSE "nobody"
KeeperCheered(t) ==
  CASE Since(t, 8300) -> "scorers"
    [] Since(t, KeeperBeats.saveMoment) /\ ~Since(t, KeeperBeats.holdBallEnd) -> "keeper"
    [] OTHER -> "nobody"
Cheered(scene, t) ==
  CASE scene = "attack" -> AttackCheered(t)
    [] scene = "cross" -> CrossCheered(t)
    [] scene = "crossbar" -> CrossbarCheered(t)
    [] scene = "keeper" -> KeeperCheered(t)
    [] scene = "faceoff" -> "nobody"

-----------------------------------------------------------------------------
(* The sounds *)

RoarDelay == 80

\* Slip: the crowd foresees the goal.
RoarForeseen(beat) == beat - RoarDelay

\* When the roar of a goal starts, from the beat at which the ball is in the net.
RoarAt(beat) == beat + RoarDelay

AttackSounds ==
  LET B == AttackBeats IN
  { <<"kick", B.pass1Start>>, <<"kick", B.carryEnd>>, <<"anticipation", B.carryEnd>>,
    <<"whoosh", B.shotStart>>, <<"shot", B.shotStart>>, <<"impact", B.shotStart>>,
    <<"impact", B.shotEnd>>, <<"goal", RoarAt(B.shotEnd)>> }

CrossSounds ==
  LET B == CrossBeats IN
  { <<"kick", B.passStart>>, <<"anticipation", B.passEnd>>, <<"cross", B.crossContact>>,
    <<"whoosh", (B.crossContact + B.contact) \div 2>>, <<"crowd", B.crossContact>>,
    <<"anticipation", B.crossContact>>, <<"header", B.contact>>, <<"impact", B.contact>>,
    <<"impact", B.headerEnd>>, <<"goal", RoarAt(B.headerEnd)>> }

CrossbarSounds ==
  LET B == CrossbarBeats IN
  { <<"anticipation", 400>>, <<"shot", B.shotStart>>, <<"whoosh", B.shotStart>>,
    <<"crossbar", B.barHit>>, <<"impact", B.barHit>>, <<"crowd", RoarAt(B.barHit)>>,
    <<"disappointment", B.barHit + 350>>, <<"crowd", 4850>>, <<"anticipation", 5600>>,
    <<"whoosh", B.volleyContact - 100>>, <<"header", B.volleyContact>>,
    <<"impact", B.volleyContact>>, <<"impact", 7400>>, <<"goal", RoarAt(7400)>> }

KeeperSounds ==
  LET B == KeeperBeats IN
  { <<"anticipation", 300>>, <<"shot", B.shotStart>>, <<"whoosh", B.saveMoment - 80>>,
    <<"save", B.saveMoment>>, <<"impact", B.saveMoment>>, <<"crowd", RoarAt(B.saveMoment)>>,
    <<"clearance", B.clearanceKick>>, <<"anticipation", B.clearanceKick>>,
    <<"shot", B.shot2Start>>, <<"impact", B.shot2Start>>, <<"impact", B.instantShotEnd>>,
    <<"goal", RoarAt(B.instantShotEnd)>> }

\* compileAudioPlan(): the sounds of a scene that lasts so long.
Sounds(scene, duration) ==
  LET action == CASE scene = "attack" -> AttackSounds
                  [] scene = "cross" -> CrossSounds
                  [] scene = "crossbar" -> CrossbarSounds
                  [] scene = "keeper" -> KeeperSounds
                  [] scene = "faceoff" -> IF duration > 400 THEN {<<"whistle", 150>>} ELSE {}
      sting == IF scene = "faceoff" THEN {} ELSE {<<"sting", Later(0, duration - 700)>>}
  IN  {s \in action \cup sting \cup {<<"ambience", 0>>} : s[2] < duration}

-----------------------------------------------------------------------------
(* The texts *)

Forever == 99000
Text(kind, from, to) == [kind |-> kind, from |-> from, to |-> to]

\* The scenes with a hook: nothing between it and the goal.
HookTexts(goalAt, brandAt) ==
  { Text("headline", 150, 1450), Text("goal", goalAt, goalAt + 700),
    Text("cta", brandAt, Forever), Text("brand", brandAt, Forever) }

\* compileOverlayPlan(), with the overlays switched on.
Texts ==
  [faceoff |-> { Text("versus", 250, 1800), Text("headline", 2700, Forever) },
   attack |-> { Text("versus", 0, 1400), Text("goal", 5850, 6550),
                Text("headline", 7400, 8200), Text("cta", 8700, Forever),
                Text("brand", 8700, Forever) },
   cross |-> HookTexts(6150, 6800),
   crossbar |-> HookTexts(7400, 8300),
   keeper |-> HookTexts(8600, 9300)]
=============================================================================
