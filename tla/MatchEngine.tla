---------------------------- MODULE MatchEngine ----------------------------
(***************************************************************************)
(* The rules of a match (engine.ts): who may touch the ball, what a pressed *)
(* button becomes, and how play stops and starts again.                    *)
(*                                                                         *)
(* One call of update() is one tick of the simulation, and runs its parts  *)
(* one after the other: the variable stage says which part is next.        *)
(* Where the code asks the geometry of the pitch (who is nearest, whether  *)
(* a foot reaches the ball, whether the ball crosses a line) the model     *)
(* takes either answer.  Times are counted in ticks.                       *)
(*                                                                         *)
(* Operators whose comment starts with "Slip:" are not part of the model:  *)
(* they are definitions as a plausible mistake would have them.            *)
(***************************************************************************)
EXTENDS Integers

CONSTANTS
  Outfielders,   \* outfield players of a team (10)
  None,
  SetupTicks,    \* a restart waits at least this long (18: .3 s)
  IdleTicks,     \* and then this long for a human to take it (240: 4 s)
  AITicks,       \* or this long for a computer team (42: .7 s)
  GoalTicks,     \* the celebration of a goal (108: 1.8 s)
  BufferTicks,   \* how long a strike waits for the ball to arrive (9)
  PassTicks,     \* a pass held for longer leaves by itself (45)
  ChargeTicks,   \* a shot held for as long leaves by itself (27: .45 s)
  HoldTicks,     \* how long a human's keeper may hold the ball (120: 2 s)
  AIHold,        \* the same for a computer's, hurried or not ({12, 27})
  LockTicks      \* nobody touches a ball just kicked for so long (at least 4)

ASSUME EngineAssumption ==
  /\ Outfielders \in Nat \ {0}
  /\ {SetupTicks, IdleTicks, AITicks, GoalTicks, BufferTicks, PassTicks,
      ChargeTicks, HoldTicks, LockTicks} \subseteq Nat
  /\ AIHold \subseteq Nat
  /\ AITicks <= IdleTicks /\ LockTicks > 1
  /\ BufferTicks < SetupTicks

Team == {0, 1}
Other(t) == 1 - t
Player == Team \X (0 .. Outfielders)
Side(p) == p[1]
Keeper(t) == <<t, 0>>
IsKeeper(p) == p[2] = 0
Field(t) == {t} \X (1 .. Outfielders)
FieldPlayer == Field(0) \cup Field(1)
Taker(t) == <<t, Outfielders>>   \* who kicks off

Why == {"keeper", "computer", "buffered", "held", "edge"}   \* why a ball is kicked

\* null is neither a player nor a goal, a restart, a gesture or a reason.
ASSUME NoneIsNothing ==
  None \notin Player \cup Why \cup [by : Team, time : Nat]
              \cup [team : Team, taker : Player, wait : Int]
              \cup [actor : Player, action : {"pass", "shot"}, age : Nat]

VARIABLES
  phase, half,
  goal,         \* the goal being celebrated: whose, and for how many ticks
  restart,      \* the restart being set up: team, taker, ticks left
  restartBuf,   \* a button pressed during the set-up
  owner,        \* who has the ball
  lock,         \* ticks for which nobody can touch it
  lastTouch,    \* the team that touched it last
  remote,       \* team 1 has a human too (team 0 always does)
  control,      \* the player each human controls
  gesture,      \* actions[t]: the press a side is still holding
  charging, charge,  \* the shot being charged, by whom and for how long
  strike,       \* shotBuf[t]: a strike waiting for the ball
  hold,         \* how long each keeper has held the ball
  stage,        \* the part of update() that is next
  turn,         \* and the side whose turn it is
  carrier,      \* humanActionsSide's copy of the owner
  hands,        \* the side whose human presses buttons; the other only watches
  down,         \* the buttons he had down at the last tick
  input,        \* what this tick hears of them
  kick,         \* history: why the ball was last kicked in this tick
  used,         \* history: what this tick's edges have been used for
  kept, live    \* history: the gesture's, the strike's press still stands

match == <<phase, half, goal, restart, restartBuf>>
ball == <<owner, lock, lastTouch>>
held == <<gesture, charging, charge>>
device == <<hands, down, input>>
vars == <<match, ball, remote, control, held, strike, hold, stage, turn,
          carrier, device, kick, used, kept, live>>

RestartPhase == {"kickoff", "throwin", "corner", "goalkick"}
Stage == {"update", "updateAI", "contract", "act", "move", "challenges", "collect"}

Human(t) == t = 0 \/ remote

-----------------------------------------------------------------------------
(* The buttons *)

Button == {"pass", "shoot"}
Event == [hit : BOOLEAN, held : BOOLEAN, freed : BOOLEAN]
Nothing == [hit |-> FALSE, held |-> FALSE, freed |-> FALSE]
Idle == [pass |-> Nothing, shoot |-> Nothing, long |-> FALSE]

\* What one tick can hear of a button that was, or was not, down before:
\* buildInputFrame's edges, those of several rendered frames put together.  A frame
\* hears of a release only if the button is up: held after that is pressed again.
Heard(was) == {e \in Event :
  /\ e.held => was \/ e.hit
  /\ e.freed => was \/ e.hit
  /\ e.freed /\ e.held => e.hit
  /\ ~e.held /\ (was \/ e.hit) => e.freed}
Still(was) == [Nothing EXCEPT !.held = was]

\* At most one button has an edge in one tick: a bound.
Frames == {f \in [pass : Heard(down["pass"]), shoot : Heard(down["shoot"]), long : BOOLEAN] :
  \/ f.pass = Still(down["pass"]) /\ f.shoot = Still(down["shoot"])
  \/ f.pass = Still(down["pass"]) /\ ~f.long
  \/ f.shoot = Still(down["shoot"]) /\ ~f.long}

\* A side hears its own human only, and a computer team nobody.
Of(f, t) == IF t = hands /\ Human(t) THEN f ELSE Idle
In(t) == Of(input, t)
Edge(f) == f.pass.hit \/ f.shoot.hit \/ f.long

-----------------------------------------------------------------------------
(* What several parts of a tick do *)

\* setControlled() keeps no slot for a computer team.
Controlled(t, p) == control' = IF Human(t) THEN [control EXCEPT ![t] = p] ELSE control

Goto(s, t) == stage' = s /\ turn' = t

\* launch(): the ball leaves its owner's foot and nobody touches it for a while.
Launched(t, why) ==
  /\ owner' = None /\ lock' = LockTicks /\ lastTouch' = t
  /\ kick' = why

NotLaunched == UNCHANGED <<ball, kick>>

\* cancelShot(peer) and cancelAction(t)
ShotCancelled(t) == /\ charging' = [charging EXCEPT ![t] = None]
                    /\ charge' = [charge EXCEPT ![t] = 0]
ActionCancelled(t) == gesture' = [gesture EXCEPT ![t] = None]
Began(t, p, a) ==
  gesture' = [gesture EXCEPT ![t] = [actor |-> p, action |-> a, age |-> 0]]

\* placeRestart(), after setRestart() or kickoff(): the ball is dead, its taker
\* is controlled, and the shot the human of team 0 was charging is forgotten.
Placed(ph, t, p) ==
  /\ phase' = ph
  /\ restart' = [team |-> t, taker |-> p, wait |-> SetupTicks]
  /\ restartBuf' = None
  /\ owner' = None /\ lock' = LockTicks /\ lastTouch' = t
  /\ ShotCancelled(0)
  /\ Controlled(t, p)

\* kickoff(), with resetPositions().
Kickoff(t) == Placed("kickoff", t, Taker(t)) /\ hold' = [u \in Team |-> 0]

-----------------------------------------------------------------------------
(* Starting a tick *)

\* The tick of a press counts as tick 0 of it.
Aged(t) == IF gesture[t] = None \/ gesture[t].age > PassTicks THEN gesture[t]
           ELSE [gesture[t] EXCEPT !.age = @ + 1]
\* Slip: a strike waits for the ball for ever.
Unfading(t) == strike[t]

Fading(t) == IF strike[t] = None \/ strike[t].left < 0 THEN strike[t]
             ELSE [strike[t] EXCEPT !.left = @ - 1]

\* update(): one tick more, for everything that counts them.
Ticked(f) ==
  /\ stage = "update"
  /\ gesture' = [t \in Team |-> Aged(t)]
  /\ strike' = [t \in Team |-> Fading(t)]
  /\ down' = [pass |-> f.pass.held, shoot |-> f.shoot.held]
  /\ kick' = None
  /\ UNCHANGED <<half, remote, carrier, hands>>

\* The celebration ends with the kick-off of the side that conceded.
Celebrate ==
  /\ phase = "goal"
  /\ \E f \in Frames : Ticked(f)
  /\ \/ /\ goal.time < GoalTicks
        /\ goal' = [goal EXCEPT !.time = @ + 1]
        /\ UNCHANGED <<phase, restart, restartBuf, ball, charging, charge, control, hold>>
     \/ /\ goal.time = GoalTicks
        /\ goal' = None
        /\ Kickoff(Other(goal.by))
  /\ used' = 0
  /\ UNCHANGED <<input, stage, turn>>

\* Slip: an idle human is waited for without an end.
TimedOutForAI(t, wait) == ~Human(t) /\ wait <= -AITicks

\* A computer takes its restarts after a moment, an idle human's are taken for him.
TimedOut(t, wait) == wait <= (IF Human(t) THEN -IdleTicks ELSE -AITicks)

\* Who is controlled after a restart: its taker after a short one, whoever the
\* ball is meant for after a long one, and never the keeper.
HandedTo(r, short) ==
  CASE phase = "kickoff" \/ (phase = "corner" /\ short) -> {r.taker}
    [] phase = "throwin" /\ Outfielders > 1 -> Field(r.team) \ {r.taker}
    [] OTHER -> Field(r.team)

\* A button of the human whose restart it is, pressed now or during the set-up.
Asked(f, t) == Human(t) /\ (Edge(f) \/ restartBuf # None)

\* takeRestart(): the set-up, then the human's button or the end of his time.
SetUp ==
  /\ phase \in RestartPhase /\ restart # None
  /\ \E f \in Frames :
     LET t == restart.team
         e == Of(f, t)
         w == restart.wait - 1
     IN /\ Ticked(f)
        /\ w <= 0 => ~Asked(e, t) /\ ~TimedOut(t, w)
        /\ restart' = [restart EXCEPT !.wait = w]
        /\ restartBuf' = IF w <= 0 THEN None
                         ELSE IF Human(t) /\ Edge(e) /\ restartBuf = None
                         THEN [pass |-> e.pass.hit] ELSE restartBuf
        /\ used' = IF restartBuf' # restartBuf /\ restartBuf' # None THEN 1 ELSE 0
  /\ UNCHANGED <<phase, goal, ball, charging, charge, control, hold, input, stage, turn>>

TakeRestart ==
  /\ phase \in RestartPhase /\ restart # None
  /\ \E f \in Frames :
     LET t == restart.team
         e == Of(f, t)
         w == restart.wait - 1
         short == Human(t) /\ (e.pass.hit \/ (restartBuf # None /\ restartBuf.pass))
     IN /\ Ticked(f)
        /\ w <= 0
        /\ Asked(e, t) \/ TimedOut(t, w)
        /\ owner' = None /\ lock' = LockTicks /\ lastTouch' = t
        /\ \E p \in HandedTo(restart, short) : Controlled(t, p)
        /\ used' = IF Edge(e) THEN 1 ELSE 0
  /\ phase' = "playing" /\ restart' = None /\ restartBuf' = None
  /\ UNCHANGED <<goal, charging, charge, hold, input, stage, turn>>

\* endHalf(): the ball stays with whoever has it.
EndHalf ==
  /\ phase = "playing"
  /\ \E f \in Frames : Ticked(f)
  /\ phase' = IF half = 1 THEN "halftime" ELSE "fulltime"
  /\ restart' = None
  /\ ShotCancelled(0)
  /\ used' = 0
  /\ UNCHANGED <<goal, restartBuf, ball, control, hold, input, stage, turn>>

\* selectControlSide(): the player on the ball, else some player of his choice
\* or the one nearest to the ball.
Selected(t) == IF ~Human(t) THEN {control[t]}
               ELSE IF owner \in Field(t) THEN {owner} ELSE Field(t)
Play ==
  /\ phase = "playing"
  /\ \E f \in Frames : Ticked(f) /\ input' = f
  /\ \E p \in Selected(0), q \in Selected(1) : control' = [t \in Team |-> IF t = 0 THEN p ELSE q]
  /\ used' = 0
  /\ Goto("updateAI", 0)
  /\ UNCHANGED <<phase, goal, restart, restartBuf, ball, charging, charge, hold>>

-----------------------------------------------------------------------------
(* The keepers and the computer's players: updateAI() *)

Held(t, n) == hold' = [u \in Team |-> IF u = t THEN n ELSE 0]

\* goalkeeper(): a human's keeper waits for a button, a computer's for a moment.
KeeperHolds(t) ==
  /\ owner = Keeper(t)
  /\ IF Human(t)
     THEN /\ ~Edge(In(t)) /\ hold[t] < HoldTicks
     ELSE \E limit \in AIHold : hold[t] < limit
  /\ Held(t, hold[t] + 1)
  /\ NotLaunched /\ UNCHANGED <<gesture, used>>

\* keeperKick(), or a short pass to keeperOutlet()'s choice: where to is geometry.
Distributed(t) == Launched(t, "keeper") /\ Held(t, 0)

KeeperReleases(t) ==
  /\ owner = Keeper(t)
  /\ \/ Human(t) /\ Edge(In(t)) /\ ActionCancelled(t) /\ used' = used + 1
     \/ /\ Human(t) /\ ~Edge(In(t)) /\ hold[t] >= HoldTicks
        /\ UNCHANGED <<gesture, used>>
     \/ /\ ~Human(t) /\ \E limit \in AIHold : hold[t] >= limit
        /\ UNCHANGED <<gesture, used>>
  /\ Distributed(t)

\* aiCarrier() and aiShoot() of a team without a human.
ComputerPlays(t) ==
  /\ owner \in Field(t) /\ ~Human(t)
  /\ Launched(t, "computer") \/ NotLaunched
  /\ hold' = [u \in Team |-> 0]
  /\ UNCHANGED <<gesture, used>>

NobodyPlays ==
  /\ owner = None \/ (owner \in FieldPlayer /\ Human(Side(owner)))
  /\ hold' = [u \in Team |-> 0]
  /\ NotLaunched /\ UNCHANGED <<gesture, used>>

UpdateAI ==
  /\ stage = "updateAI"
  /\ \/ \E t \in Team : KeeperHolds(t) \/ KeeperReleases(t) \/ ComputerPlays(t)
     \/ NobodyPlays
  /\ Goto("contract", 0)
  /\ UNCHANGED <<match, remote, control, charging, charge, strike, carrier, device>>

-----------------------------------------------------------------------------
(* The humans: humanActionsSide() *)

\* A held press is only good while its player has the ball.
Lost(t) == gesture[t] # None /\ owner # gesture[t].actor

Stale(t) == strike[t].left < 0

\* strikeShot(): at the goal; where it lands is settled by aim, power and pressure.
Struck(t, why) == Launched(t, why)

\* The ball reaches the foot of a player who struck at it too early, or it does
\* not yet, or no longer matters (he fell, or his time is up).
BufferedStrike(t) ==
  \/ strike[t] = None /\ UNCHANGED strike /\ NotLaunched
  \/ strike[t] # None /\ strike' = [strike EXCEPT ![t] = None] /\ NotLaunched
  \/ strike[t] # None /\ ~Stale(t) /\ UNCHANGED strike /\ NotLaunched
  \/ /\ strike[t] # None /\ ~Stale(t)
     /\ owner \in {None, strike[t].actor}
     /\ strike' = [strike EXCEPT ![t] = None]
     /\ Struck(t, "buffered")

Contract(t) ==
  /\ stage = "contract" /\ turn = t
  /\ carrier' = owner
  /\ IF Lost(t) THEN ActionCancelled(t) /\ ShotCancelled(t) ELSE UNCHANGED held
  /\ BufferedStrike(t)
  /\ Goto("act", t)
  /\ UNCHANGED <<match, remote, control, hold, device, used>>

\* The next part of the tick: the other human's turn, or the ball's.
Acted(t) ==
  /\ carrier' = None
  /\ \/ t = 0 /\ remote /\ Goto("contract", 1) /\ UNCHANGED input
     \/ ~(t = 0 /\ remote) /\ Goto("move", 0) /\ input' = Idle
  /\ UNCHANGED <<match, remote, hold, hands, down>>

Turn(t) == stage = "act" /\ turn = t
OnBall(t) == Turn(t) /\ carrier = control[t]

\* The buttons are the keeper's while he has the ball.
KeepersTurn(t) ==
  /\ Turn(t) /\ carrier = Keeper(t)
  /\ ShotCancelled(t) /\ NotLaunched /\ UNCHANGED <<gesture, control, strike, used>>
  /\ Acted(t)

\* PASS is pressed: whom it is meant for is settled, when it leaves is not.
PressPass(t) ==
  /\ OnBall(t) /\ In(t).pass.hit
  /\ Began(t, control[t], "pass")
  /\ ShotCancelled(t) /\ NotLaunched
  /\ used' = used + 1
  /\ UNCHANGED <<control, strike>>
  /\ Acted(t)

PassOpen(t) == gesture[t] # None /\ gesture[t].action = "pass" /\ gesture[t].actor = control[t]

\* releasePass(): to the player it was meant for, or where he looks if there is none.
\* Nobody new is controlled before the ball arrives.
Passed(t) == Launched(t, "held")

\* PASS is held, let go, or held for too long.
HoldPass(t) ==
  /\ OnBall(t) /\ ~In(t).pass.hit /\ PassOpen(t) /\ ~In(t).shoot.hit
  /\ IF In(t).pass.freed \/ ~In(t).pass.held \/ gesture[t].age > PassTicks
     THEN Passed(t) /\ ShotCancelled(t) /\ ActionCancelled(t)
     ELSE NotLaunched /\ UNCHANGED held
  /\ UNCHANGED <<control, strike, used>>
  /\ Acted(t)

\* tryStrike(): now, or when the ball arrives, or never.
Strikes(t, p, why) ==
  \/ Struck(t, why) /\ UNCHANGED strike
  \/ /\ owner = None
     /\ strike' = [strike EXCEPT ![t] = [actor |-> p, left |-> BufferTicks]]
     /\ NotLaunched
  \/ owner # p /\ UNCHANGED strike /\ NotLaunched

\* Whether a shot being charged leaves in this tick.
ShotLeaves(t) == charging[t] = control[t] /\ (In(t).shoot.freed \/ charge[t] >= ChargeTicks)

\* On the ball with no pass held back (SHOOT takes a held pass back).
Free(t) == OnBall(t) /\ ~In(t).pass.hit /\ (PassOpen(t) => In(t).shoot.hit)
Pressed(t) == IF In(t).shoot.hit THEN used + 1 ELSE used

\* longPass(): over the air to a teammate; as with any pass, nobody new is controlled.
Lofted(t) == Launched(t, "edge") /\ UNCHANGED control

\* cross(): its target is controlled at once.
Crossed(t) == Launched(t, "edge") /\ \E p \in Field(t) : Controlled(t, p)

\* LONG: a cross in the last third of the pitch, else a pass over the air.
LongBall(t) ==
  /\ Free(t) /\ In(t).long
  /\ Lofted(t) \/ Crossed(t)
  /\ ShotCancelled(t) /\ ActionCancelled(t)
  /\ used' = Pressed(t) + 1
  /\ UNCHANGED strike
  /\ Acted(t)

\* SHOOT is pressed, held, or neither.
Charge(t) ==
  /\ Free(t) /\ ~In(t).long /\ ~ShotLeaves(t)
  /\ IF In(t).shoot.hit THEN Began(t, control[t], "shot") ELSE UNCHANGED gesture
  /\ charging' = IF In(t).shoot.hit THEN [charging EXCEPT ![t] = control[t]] ELSE charging
  /\ charge' = [charge EXCEPT ![t] =
       IF In(t).shoot.held /\ charging[t] = control[t] THEN @ + 1
       ELSE IF In(t).shoot.hit THEN 0 ELSE @]
  /\ used' = Pressed(t)
  /\ NotLaunched /\ UNCHANGED <<control, strike>>
  /\ Acted(t)

\* SHOOT is let go, or charged in full.
Shoot(t) ==
  /\ Free(t) /\ ~In(t).long /\ ShotLeaves(t)
  /\ ShotCancelled(t) /\ ActionCancelled(t)
  /\ IF In(t).shoot.hit \/ (gesture[t] # None /\ gesture[t].action = "shot")
     THEN Strikes(t, control[t], "held")
     ELSE NotLaunched /\ UNCHANGED strike
  /\ used' = Pressed(t)
  /\ UNCHANGED control
  /\ Acted(t)

Defending(t) == Turn(t) /\ carrier \notin {control[t], Keeper(t)} /\ ShotCancelled(t)

\* A header or a first-time shot at a ball that is nobody's.
FirstTime(t) ==
  /\ Defending(t) /\ In(t).shoot.hit /\ carrier = None
  /\ Strikes(t, control[t], "edge")
  /\ used' = used + 1
  /\ UNCHANGED <<gesture, control>>
  /\ Acted(t)

\* A tackle, which the code resolves later; a player who has just acted cannot.
Tackle(t) ==
  /\ Defending(t) /\ Edge(In(t))
  /\ ActionCancelled(t)
  /\ used' \in {used, used + 1}
  /\ NotLaunched /\ UNCHANGED <<control, strike>>
  /\ Acted(t)

Watch(t) ==
  /\ Defending(t) /\ ~Edge(In(t))
  /\ NotLaunched /\ UNCHANGED <<gesture, control, strike, used>>
  /\ Acted(t)

Act(t) == \/ KeepersTurn(t) \/ PressPass(t) \/ HoldPass(t) \/ LongBall(t) \/ Charge(t)
          \/ Shoot(t) \/ FirstTime(t) \/ Tackle(t) \/ Watch(t)

-----------------------------------------------------------------------------
(* The ball *)

Fewer(n) == IF n > 0 THEN n - 1 ELSE 0

\* What the parts about the ball leave alone.
BallOnly == UNCHANGED <<half, remote, gesture, strike, carrier, device, kick, used>>

\* integrateBall(), with dribbleTouch(): a ball that runs away is nobody's.
Roll ==
  /\ stage = "move"
  /\ \/ UNCHANGED owner /\ lock' = Fewer(lock)
     \/ owner # None /\ owner' = None /\ lock' = LockTicks
  /\ Goto("challenges", 0)
  /\ UNCHANGED <<match, lastTouch, control, charging, charge, hold>>
  /\ BallOnly

\* checkLines(): a goal of either side, or a restart of the side that did not
\* touch the ball last.
Goal ==
  /\ stage = "move"
  /\ phase' = "goal" /\ restart' = None
  /\ \E t \in Team : goal' = [by |-> t, time |-> 0]
  /\ owner' = None /\ lock' = Fewer(lock)
  /\ ShotCancelled(0)
  /\ Goto("update", 0)
  /\ UNCHANGED <<restartBuf, lastTouch, control, hold>>
  /\ BallOnly

Out ==
  /\ stage = "move"
  /\ LET t == Other(lastTouch) IN
     \/ \E p \in Field(t), ph \in {"throwin", "corner"} : Placed(ph, t, p)
     \/ Placed("goalkick", t, Keeper(t))
  /\ Goto("update", 0)
  /\ UNCHANGED <<goal, hold>>
  /\ BallOnly

\* A foot gets to the ball and knocks it away.
Knocked(t) == owner' = None /\ lock' = LockTicks /\ lastTouch' = t
\* firstTouch()
Gathered(p) == owner' = p /\ lastTouch' = Side(p) /\ Controlled(Side(p), p)

\* resolveChallenges(): players challenge one after the other, those of team 0
\* first, so that a ball knocked away may be gathered in the same tick and a
\* gathered one knocked away again, but never one that a keeper has.
Challenges ==
  /\ stage = "challenges"
  /\ \/ UNCHANGED <<ball, control>>
     \/ /\ lock = 0 /\ owner \in FieldPlayer \cup {None}
        /\ \/ \E t \in Team : Knocked(t) /\ UNCHANGED control
           \/ \E p \in FieldPlayer :
                Gathered(p) /\ lock' \in (IF owner = None THEN {0, LockTicks} ELSE {LockTicks})
           \/ /\ owner \notin Field(0)
              /\ \E p \in Field(0), q \in Field(1) \cup {None} :
                   /\ owner' = q /\ lock' = LockTicks /\ lastTouch' = 1
                   /\ control' = [control EXCEPT ![0] = p,
                        ![1] = IF q # None /\ Human(1) THEN q ELSE @]
  /\ Goto("collect", 0)
  /\ UNCHANGED <<match, charging, charge, hold>>
  /\ BallOnly

\* collectBall(): a keeper smothers a dribble, catches or parries; the first
\* player the ball meets gathers it or blocks it.
Collect ==
  /\ stage = "collect"
  /\ \/ UNCHANGED <<ball, control, hold>>
     \/ /\ lock = 0 /\ owner \in FieldPlayer
        /\ Knocked(Other(Side(owner))) /\ UNCHANGED <<control, hold>>
     \/ /\ lock = 0 /\ owner = None
        /\ \/ \E t \in Team : Knocked(t) /\ UNCHANGED <<control, hold>>
           \/ \E t \in Team :
                /\ owner' = Keeper(t) /\ lastTouch' = t /\ UNCHANGED <<lock, control>>
                /\ hold' = [hold EXCEPT ![t] = 0]
           \/ \E p \in FieldPlayer : Gathered(p) /\ UNCHANGED <<lock, hold>>
  /\ Goto("update", 0)
  /\ UNCHANGED <<match, charging, charge>>
  /\ BallOnly

-----------------------------------------------------------------------------
(* Between ticks *)

\* continueHalf(): buttons may have been pressed or let go in the meantime.
ContinueHalf ==
  /\ phase = "halftime"
  /\ half' = 2
  /\ Kickoff(1)
  /\ down' \in [Button -> BOOLEAN]
  /\ UNCHANGED <<goal, remote, gesture, strike, stage, turn, carrier, hands,
                 input, kick, used>>

\* dropPeer(): the computer takes over the team of a human who is gone.
DropPeer ==
  /\ stage = "update" /\ remote
  /\ remote' = FALSE
  /\ control' = [control EXCEPT ![1] = None]
  /\ ShotCancelled(1)
  /\ down' = IF hands = 1 THEN [b \in Button |-> FALSE] ELSE down
  /\ UNCHANGED <<match, ball, gesture, strike, hold, stage, turn, carrier, hands, input,
                 kick, used>>

-----------------------------------------------------------------------------
(* The match *)

Init ==
  /\ phase = "kickoff" /\ half = 1 /\ goal = None
  /\ restart = [team |-> 0, taker |-> Taker(0), wait |-> SetupTicks]
  /\ restartBuf = None
  /\ owner = None /\ lock = LockTicks /\ lastTouch = 0
  /\ remote \in BOOLEAN
  /\ control = [t \in Team |-> IF Human(t) THEN Taker(t) ELSE None]
  /\ gesture = [t \in Team |-> None] /\ strike = [t \in Team |-> None]
  /\ charging = [t \in Team |-> None] /\ charge = [t \in Team |-> 0]
  /\ hold = [t \in Team |-> 0]
  /\ stage = "update" /\ turn = 0 /\ carrier = None
  /\ hands \in {t \in Team : Human(t)}
  /\ down = [b \in Button |-> FALSE] /\ input = Idle
  /\ kick = None /\ used = 0
  /\ kept = [t \in Team |-> FALSE] /\ live = [t \in Team |-> FALSE]

Step ==
  \/ Celebrate \/ SetUp \/ TakeRestart \/ EndHalf \/ Play \/ UpdateAI
  \/ \E t \in Team : Contract(t) \/ Act(t)
  \/ Roll \/ Goal \/ Out \/ Challenges \/ Collect
  \/ ContinueHalf \/ DropPeer

\* A press stands as long as its player keeps the ball (as his side's turn sees it)
\* and play goes on; a strike that waits for the ball, as long as play goes on.
Standing ==
  /\ kept' = [t \in Team |->
       /\ gesture'[t] # None /\ phase' = "playing"
       /\ \/ gesture'[t].actor = owner'
          \/ stage' = "act" /\ turn' = t /\ gesture'[t].actor = carrier'
       /\ kept[t] \/ (Turn(t) /\ gesture'[t].age = 0)]
  /\ live' = [t \in Team |->
       /\ strike'[t] # None /\ phase' = "playing"
       /\ live[t] \/ Turn(t)]

Next == Step /\ Standing
Spec == Init /\ [][Next]_vars

-----------------------------------------------------------------------------
(* Properties *)

Gesture == [actor : FieldPlayer, action : {"pass", "shot"}, age : 0 .. PassTicks + 1]

\* Types: whose tick and what it has come to; a restart is being set up exactly
\* in the phases that wait for one, and a computer team has no one selected.
TypeOK ==
  /\ phase \in RestartPhase \cup {"playing", "goal", "halftime", "fulltime"}
  /\ half \in {1, 2} /\ goal \in [by : Team, time : 0 .. GoalTicks] \cup {None}
  /\ restart = None \/ restart \in [team : Team, taker : Player, wait : Int]
  /\ restartBuf \in {None} \cup [pass : BOOLEAN]
  /\ owner \in Player \cup {None} /\ lock \in 0 .. LockTicks /\ lastTouch \in Team
  /\ remote \in BOOLEAN
  /\ control \in [Team -> Player \cup {None}]
  /\ \A t \in Team : control[t] = None <=> ~Human(t)
  /\ gesture \in [Team -> Gesture \cup {None}]
  /\ charging \in [Team -> FieldPlayer \cup {None}]
  /\ charge \in [Team -> 0 .. ChargeTicks]
  /\ strike \in [Team -> [actor : FieldPlayer, left : -1 .. BufferTicks] \cup {None}]
  /\ hold \in [Team -> 0 .. HoldTicks]
  /\ stage \in Stage /\ turn \in Team /\ carrier \in Player \cup {None}
  /\ hands \in Team /\ down \in [Button -> BOOLEAN]
  /\ input \in [pass : Event, shoot : Event, long : BOOLEAN]
  /\ kick \in Why \cup {None}
  /\ used \in 0 .. 3
  /\ kept \in [Team -> BOOLEAN] /\ live \in [Team -> BOOLEAN]

\* The kick that an earlier press leads to, a pass let go, a shot charged or a
\* strike that waited for the ball, is still the one it was pressed for: the
\* same player has had the ball ever since, no whistle came between.
\* (humanActionsSide(): nothing clears a held press or a waiting strike when the
\* ball goes dead; they have to die of their own before play starts again.)
PressStands ==
  [][\A t \in Team : turn = t /\ kick' # kick =>
       /\ kick' = "held" => kept[t]
       /\ kick' = "buffered" => live[t]]_vars

\* Play resumes by itself: every stop has a restart with somebody to take it and
\* it is never waited for longer than the code means to, whoever drops out.
RestartTaken ==
  /\ phase \in RestartPhase <=> restart # None
  /\ phase = "goal" <=> goal # None
  /\ restart # None =>
       /\ Side(restart.taker) = restart.team /\ owner = None
       /\ restart.wait \in -IdleTicks .. SetupTicks

\* One button pressed is one thing done ("one physical edge = exactly one
\* intended action").
OneEdgeOneAction == used <= 1

=============================================================================
