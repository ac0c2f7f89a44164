---------------------------- MODULE InputStaging ----------------------------
(***************************************************************************)
(* How a button gets from the keyboard, the mouse or the touch screen into *)
(* the ticks of the match: the edges of its presses and of its releases.   *)
(*                                                                         *)
(* Events of the devices come between rendered frames and a frame may run  *)
(* no tick, one or several.  Alone, a frame runs the ticks that are due    *)
(* and the first of them hears of the edges (main.ts).  Online, the edges  *)
(* are kept in edgeAcc until stageInput() finds a tick that has not been   *)
(* sent (driver.ts), and a tick runs when the peer's input for it is       *)
(* there.                                                                  *)
(*                                                                         *)
(* The button is that of the shot or that of the pass, and goes up when no *)
(* device holds it any more.  An edge is a numbered press or release, and  *)
(* the input of a tick the set of the edges it hears as one.  The release  *)
(* of a key, or the lifting of a finger, that a reset has already let go   *)
(* is an edge of nothing and not followed.                                 *)
(* Operators whose comment starts with "Slip:" are not part of the model.  *)
(***************************************************************************)
EXTENDS Integers, FiniteSets

CONSTANTS
  Delay,        \* input delay in ticks (3 in the code)
  TickTime,     \* the duration of a tick, in units of time
  Elapsed,      \* the durations of a frame
  MaxDebt,      \* MAX_DEBT_S
  MaxCatchUp,   \* MAX_CATCH_UP
  MaxPresses,   \* bound: how often the button is pressed
  MaxTick,      \* bound: no frame starts at a later tick
  MaxResyncs    \* bound: how many snapshots of the peer's are adopted

ASSUME InputAssumption ==
  /\ {Delay, MaxDebt, MaxCatchUp} \subseteq Nat /\ Elapsed \subseteq Nat
  /\ TickTime \in Nat \ {0}

VARIABLES
  button,       \* "shot" or "pass"
  online,       \* a match with a NetDriver
  holders,      \* the devices that hold it (KeyboardState.down, TouchState.down)
  finger,       \* bindHold(): a finger is on the button
  presses,      \* how often it has been pressed
  releases,     \* how often it has gone up
  pressed,      \* presses no frame has taken yet (pressed)
  released,     \* releases no frame has taken yet (released, or what wasDown tells)
  wasDown,      \* shootWasDown, passWasDown
  dropped,      \* history: edges that no match has taken
  edgeAcc,      \* NetDriver.edgeAcc
  debt,         \* SimulationClock.acc
  tick,         \* the next tick to run
  inputs,       \* the edges of each tick that has an input (LockstepSession.local)
  flushed,      \* online: every tick below this has been sent
  resyncs

sources == <<holders, finger, presses, releases>>
buttonState == <<sources, pressed, released, wasDown, dropped>>
inputVars ==
  <<button, online, buttonState, edgeAcc, debt, tick, inputs, flushed, resyncs>>

Lower(a, b) == IF a <= b THEN a ELSE b
Higher(a, b) == IF a >= b THEN a ELSE b
Earliest(S) == CHOOSE t \in S : \A u \in S : t <= u

Press(n) == [kind |-> "press", number |-> n]
Release(n) == [kind |-> "release", number |-> n]
Only(kind, es) == {e \in es : e.kind = kind}

\* The first Delay ticks of an online match have empty input.
InputInit ==
  /\ button \in {"shot", "pass"} /\ online \in BOOLEAN
  /\ holders = {} /\ finger = FALSE /\ presses = 0 /\ releases = 0
  /\ pressed = {} /\ released = {} /\ wasDown = FALSE /\ dropped = {}
  /\ edgeAcc = {} /\ debt = 0 /\ tick = 0 /\ flushed = 0 /\ resyncs = 0
  /\ inputs = IF online THEN [t \in 0 .. Delay - 1 |-> {}] ELSE [t \in {} |-> {}]

-----------------------------------------------------------------------------
(* The devices *)

\* A key that repeats because it is held is not pressed again.
Pushed(d) ==
  /\ presses < MaxPresses \/ d \in holders
  /\ presses' = IF d \in holders THEN presses ELSE presses + 1
  /\ pressed' = IF d \in holders THEN pressed ELSE pressed \cup {Press(presses + 1)}
  /\ holders' = holders \cup {d}
  /\ UNCHANGED <<releases, released>>

\* The button goes up with the last device that holds it.
Lifted(d) ==
  /\ holders' = holders \ {d}
  /\ IF holders = {d}
     THEN releases' = releases + 1 /\ released' = released \cup {Release(releases + 1)}
     ELSE UNCHANGED <<releases, released>>
  /\ UNCHANGED <<presses, pressed>>

KeyDown == Pushed("keys") /\ UNCHANGED finger
KeyUp == "keys" \in holders /\ Lifted("keys") /\ UNCHANGED finger

\* bindHold(): one finger at a time, until it is lifted or the browser takes it away.
TouchDown == ~finger /\ finger' = TRUE /\ Pushed("touch")
TouchUp == finger /\ finger' = FALSE /\ Lifted("touch")

DeviceEvent ==
  /\ KeyDown \/ KeyUp \/ TouchDown \/ TouchUp
  /\ UNCHANGED <<button, online, wasDown, dropped, edgeAcc, debt, tick, inputs, flushed,
                 resyncs>>

\* What is forgotten when the edges of the devices are cleared outside a match: a
\* release is remembered all the same when the last frame saw the button down.
LetGo(rs) ==
  /\ pressed' = {}
  /\ released' = IF wasDown THEN rs ELSE {}
  /\ dropped' = dropped \cup pressed \cup (rs \ released')

\* resetKeyboard() and resetTouch(), when the window loses the focus and when the match
\* is paused: whatever is held is let go, but a finger stays where it is.
Reset ==
  /\ holders' = {}
  /\ releases' = IF holders = {} THEN releases ELSE releases + 1
  /\ LetGo(IF holders = {} THEN released ELSE released \cup {Release(releases + 1)})
  /\ UNCHANGED <<button, online, finger, presses, wasDown, edgeAcc, debt, tick, inputs,
                 flushed, resyncs>>

\* buildInputFrame(): the edges a frame takes.  The button has not gone up if it is
\* held again.
HandedOver == pressed \cup IF holders = {} THEN released ELSE {}
Take ==
  /\ pressed' = {} /\ released' = {}
  /\ wasDown' = (holders # {})
  /\ dropped' = dropped \cup IF holders = {} THEN {} ELSE released
  /\ UNCHANGED sources

-----------------------------------------------------------------------------
(* The clock *)

\* SimulationClock.push(): what is owed after e, at most MaxDebt, and how many
\* of the ticks that are due this frame may run.
Owed(e) == Lower(debt + e, MaxDebt)
Due(e) == Lower(Owed(e) \div TickTime, MaxCatchUp)
ClockTicked(e) == debt' = Owed(e) - Due(e) * TickTime

-----------------------------------------------------------------------------
(* A frame of a match alone *)

\* The ticks of a frame that hear of the edges: the first.
Hearing(ts) == IF ts = {} THEN {} ELSE {Earliest(ts)}

\* Without a tick the edges stay in the devices for the next frame.
SoloFrame ==
  /\ ~online /\ tick <= MaxTick
  /\ \E e \in Elapsed :
     LET ran == tick .. tick + Due(e) - 1 IN
       /\ ClockTicked(e)
       /\ tick' = tick + Due(e)
       /\ inputs' = [t \in DOMAIN inputs \cup ran |->
            IF t \notin ran THEN inputs[t] ELSE IF t \in Hearing(ran) THEN HandedOver ELSE {}]
       /\ IF ran = {} THEN UNCHANGED buttonState ELSE Take
  /\ UNCHANGED <<button, online, edgeAcc, flushed, resyncs>>

-----------------------------------------------------------------------------
(* A frame of an online match *)

Frontier == tick + Delay

\* A resync that went back far lets ticks be sent again.
Watermark == IF flushed > Frontier + 1 THEN tick ELSE flushed
Unsent == {t \in tick .. Frontier : t >= Watermark}
Gaps == Unsent \ DOMAIN inputs

\* The input of the frontier is written anew if it is to be sent again.  The releases of
\* a pass are those of this frame only.
Anew(es) ==
  LET kept == inputs[Frontier] \cup es IN
  IF button = "shot" THEN kept ELSE Only("press", kept) \cup Only("release", HandedOver)

\* stageInput(): the edges land in the earliest tick that has no input yet, or else are
\* added to the frontier's; if all have been sent they wait.
Staged(es) ==
  [t \in DOMAIN inputs \cup Gaps |->
     CASE t \in Gaps -> IF t = Earliest(Gaps) THEN es ELSE {}
       [] t = Frontier /\ t \in Unsent \ Gaps -> Anew(IF Gaps = {} THEN es ELSE {})
       [] OTHER -> inputs[t]]

\* Slip: the edges are not forgotten once they are staged.
WaitingStill(es) == es

Waiting(es) == IF Unsent = {} THEN es ELSE {}

\* frame(): a tick runs when it is due and the peer's input for it is there.
OnlineFrame ==
  /\ online /\ tick <= MaxTick
  /\ LET es == edgeAcc \cup HandedOver IN
       /\ inputs' = Staged(es)
       /\ edgeAcc' = Waiting(es)
  /\ Take
  /\ flushed' = Higher(Watermark, Frontier + 1)
  /\ \E e \in Elapsed : \E n \in 0 .. Due(e) :
       /\ ClockTicked(e)
       /\ \A t \in tick .. tick + n - 1 : t \in DOMAIN inputs'
       /\ tick' = tick + n
  /\ UNCHANGED <<button, online, resyncs>>

\* applySnapshot(): back to a tick that both agreed on.
Resync ==
  /\ online /\ resyncs < MaxResyncs
  /\ resyncs' = resyncs + 1
  /\ tick' \in 0 .. tick
  /\ UNCHANGED <<button, online, buttonState, edgeAcc, debt, inputs, flushed>>

\* A frame of another screen forgets the edges.
Elsewhere ==
  /\ LetGo(released)
  /\ UNCHANGED <<button, online, sources, wasDown, edgeAcc, debt, tick, inputs, flushed, resyncs>>

\* A frame of an online match that the peer has paused takes the edges to no tick, and
\* forgets its debt.
IdleFrame ==
  /\ online
  /\ pressed' = {} /\ released' = {}
  /\ wasDown' = (holders # {})
  /\ dropped' = dropped \cup pressed \cup released
  /\ debt' = 0
  /\ UNCHANGED <<button, online, sources, edgeAcc, tick, inputs, flushed, resyncs>>

InputNext ==
  DeviceEvent \/ Reset \/ SoloFrame \/ OnlineFrame \/ Resync \/ Elsewhere \/ IdleFrame
InputSpec == InputInit /\ [][InputNext]_inputVars

-----------------------------------------------------------------------------
(* Properties *)

\* Every press and every release is one edge of exactly one tick, or is on its way
\* there, however devices, frames, ticks, stalls, pauses and resyncs fall ("accumulated
\* edge buttons land in exactly one tick", stageInput()).  Lost is only what no frame of
\* a match has seen, and the release of a pass after a resync, which the code does not
\* carry over.
EachEdgeOnce ==
  \A e \in {Press(n) : n \in 1 .. presses} \cup {Release(n) : n \in 1 .. releases} :
    LET ticks == {t \in DOMAIN inputs : e \in inputs[t]}
        place == [device |-> pressed \cup released, kept |-> edgeAcc, lost |-> dropped]
        n == Cardinality(ticks) + Cardinality({p \in DOMAIN place : e \in place[p]})
    IN  n = 1 \/ (n = 0 /\ e.kind = "release" /\ button = "pass" /\ resyncs > 0)
=============================================================================
