---------------------------- MODULE MatchProofs ----------------------------
(***************************************************************************)
(* Proofs about a match on its own, for any delay, clock and times: that   *)
(* the edges of a button each land in one tick (InputStaging), that every  *)
(* stop of play has somebody to end it, and that a press held over several *)
(* ticks still stands when it becomes a kick (MatchEngine).                *)
(***************************************************************************)
EXTENDS MatchEngine, InputStaging, FiniteSetTheorems, TLAPS

-----------------------------------------------------------------------------
(***************************************************************************)
(* The edges of a button: the inductive invariant.                         *)
(***************************************************************************)
Presses == {Press(n) : n \in 1 .. presses}
Releases == {Release(n) : n \in 1 .. releases}
Issued == Presses \cup Releases
Devices == pressed \cup released

Counted ==
  /\ {presses, releases, debt, tick, flushed, resyncs} \subseteq Nat
  /\ button \in {"shot", "pass"} /\ online \in BOOLEAN

\* No edge that has not been issued is anywhere.
Known ==
  /\ pressed \subseteq Presses /\ released \subseteq Releases
  /\ edgeAcc \subseteq Issued /\ dropped \subseteq Issued
  /\ \A t \in DOMAIN inputs : inputs[t] \subseteq Issued

\* No edge is in two places.
Apart ==
  /\ Devices \cap edgeAcc = {} /\ Devices \cap dropped = {} /\ edgeAcc \cap dropped = {}
  /\ \A t \in DOMAIN inputs : inputs[t] \cap (Devices \cup edgeAcc \cup dropped) = {}
  /\ \A t, u \in DOMAIN inputs : t # u => inputs[t] \cap inputs[u] = {}

\* The release of a pass that a resync has staged anew.
Forgiven(e) == e.kind = "release" /\ button = "pass" /\ resyncs > 0

\* Every edge is somewhere.
Somewhere ==
  \A e \in Issued :
    \/ e \in Devices \cup edgeAcc \cup dropped \/ Forgiven(e)
    \/ \E t \in DOMAIN inputs : e \in inputs[t]

\* The ticks that have an input are those up to some m.  Without a resync, a tick has an
\* input exactly if it has been sent, but for the empty ones that a match begins with:
\* so nothing is ever staged anew.
Window(m) ==
  /\ m \in Nat /\ DOMAIN inputs = 0 .. (m - 1) /\ tick <= m /\ flushed <= m
  /\ resyncs = 0 => \/ flushed = m /\ flushed <= Frontier + 1
                    \/ flushed = 0 /\ tick = 0 /\ m = Delay
Windowed == IF online THEN \E m \in Nat : Window(m) ELSE DOMAIN inputs = 0 .. (tick - 1)

StagingInv == Counted /\ Known /\ Apart /\ Somewhere /\ Windowed

-----------------------------------------------------------------------------
(***************************************************************************)
(* Edges that move.                                                        *)
(***************************************************************************)
\* A press is no release, and each has a number of its own.
LEMMA EdgeFacts ==
  /\ \A m, n : (Press(m) = Press(n) => m = n) /\ (Release(m) = Release(n) => m = n)
  /\ \A m, n : Press(m) # Release(n)
  /\ \A n : Press(n).kind = "press" /\ Release(n).kind = "release"
<1>1. \A m, n : Press(m) = Press(n) => m = n
  <2>1. \A n : Press(n).number = n
    BY DEF Press
  <2> QED
    BY <2>1
<1>2. \A m, n : Release(m) = Release(n) => m = n
  <2>1. \A n : Release(n).number = n
    BY DEF Release
  <2> QED
    BY <2>1
<1>3. \A n : Press(n).kind = "press" /\ Release(n).kind = "release"
  BY DEF Press, Release
<1>4. \A m, n : Press(m) # Release(n)
  <2>1. "press" # "release"
    OBVIOUS
  <2> QED
    BY <1>3, <2>1
<1> QED
  BY <1>1, <1>2, <1>3, <1>4

\* The kinds of the edges that are issued.
LEMMA Kinds ==
  /\ \A e \in Presses : e.kind = "press"
  /\ \A e \in Releases : e.kind = "release"
  /\ Presses \cap Releases = {}
BY EdgeFacts DEF Presses, Releases

\* A press that is issued is a new one.
LEMMA PressIsNew ==
  ASSUME Counted, presses' = presses + 1, releases' = releases
  PROVE  /\ Issued' = Issued \cup {Press(presses + 1)} /\ Press(presses + 1) \notin Issued
         /\ Presses' = Presses \cup {Press(presses + 1)} /\ Releases' = Releases
         /\ presses' \in Nat
<1>1. presses \in Nat /\ (1 .. (presses + 1)) = (1 .. presses) \cup {presses + 1}
      /\ presses + 1 \notin 1 .. presses
  BY DEF Counted
<1>2. Presses' = Presses \cup {Press(presses + 1)}
  BY <1>1 DEF Presses
<1>3. Releases' = Releases
  BY DEF Releases
<1>4. Press(presses + 1) \notin Issued
  BY <1>1, EdgeFacts DEF Issued, Presses, Releases
<1> QED
  BY <1>1, <1>2, <1>3, <1>4 DEF Issued

\* So is a release.
LEMMA ReleaseIsNew ==
  ASSUME Counted, releases' = releases + 1, presses' = presses
  PROVE  /\ Issued' = Issued \cup {Release(releases + 1)} /\ Release(releases + 1) \notin Issued
         /\ Releases' = Releases \cup {Release(releases + 1)} /\ Presses' = Presses
         /\ releases' \in Nat
<1>1. releases \in Nat /\ (1 .. (releases + 1)) = (1 .. releases) \cup {releases + 1}
      /\ releases + 1 \notin 1 .. releases
  BY DEF Counted
<1>2. Releases' = Releases \cup {Release(releases + 1)}
  BY <1>1 DEF Releases
<1>3. Presses' = Presses
  BY DEF Presses
<1>4. Release(releases + 1) \notin Issued
  BY <1>1, EdgeFacts DEF Issued, Presses, Releases
<1> QED
  BY <1>1, <1>2, <1>3, <1>4 DEF Issued

\* Nothing is issued.
LEMMA NoneIssued ==
  ASSUME UNCHANGED <<presses, releases>>
  PROVE  Issued' = Issued /\ Presses' = Presses /\ Releases' = Releases
BY DEF Issued, Presses, Releases

\* The devices issue edges, forget some, and no tick hears of any.
LEMMA DevicesKeepEdges ==
  ASSUME Known, Apart, Somewhere, UNCHANGED <<button, edgeAcc, inputs, resyncs>>,
         NEW fresh, fresh \cap Issued = {}, Issued' = Issued \cup fresh,
         pressed' \subseteq Presses', released' \subseteq Releases', dropped \subseteq dropped',
         (Devices \cup dropped)' = Devices \cup dropped \cup fresh,
         (Devices \cap dropped)' = {}
  PROVE  Known' /\ Apart' /\ Somewhere'
<1>1. Known'
  <2>1. dropped' \subseteq Issued'
    BY DEF Known, Devices, Issued
  <2> QED
    BY <2>1 DEF Known
<1>2. Devices \cup dropped \cup edgeAcc \subseteq Issued
      /\ \A t \in DOMAIN inputs : inputs[t] \subseteq Issued
  BY DEF Known, Devices, Issued
<1>3. Apart'
  BY <1>2 DEF Apart
<1>4. Somewhere'
  BY DEF Somewhere, Forgiven
<1> QED
  BY <1>1, <1>3, <1>4

\* What a tick hears of, if it has an input.
HeardAt(t) == IF t \in DOMAIN inputs THEN inputs[t] ELSE {}

\* A frame gives es to the tick x, and forgets what else the devices had.
LEMMA FrameKeepsEdges ==
  ASSUME Known, Apart, Somewhere, UNCHANGED <<button, presses, releases, resyncs>>,
         NEW es, NEW x, x \in DOMAIN inputs', DOMAIN inputs \subseteq DOMAIN inputs',
         \A t \in DOMAIN inputs' : t # x => inputs'[t] = HeardAt(t),
         inputs'[x] \subseteq HeardAt(x) \cup es,
         \A e \in (HeardAt(x) \cup es) \ inputs'[x] : Forgiven(e),
         pressed' = {}, released' = {},
         es \subseteq Devices \cup edgeAcc,
         es \cap (edgeAcc' \cup dropped') = {}, edgeAcc' \cap dropped' = {},
         es \cup edgeAcc' \cup dropped' = Devices \cup edgeAcc \cup dropped
  PROVE  Known' /\ Apart' /\ Somewhere'
<1>1. Issued' = Issued
  BY NoneIssued
<1>2. Devices' = {}
  BY DEF Devices
<1>3. Devices \cup edgeAcc \cup dropped \subseteq Issued /\ HeardAt(x) \subseteq Issued
      /\ \A t : HeardAt(t) \subseteq Issued
  BY DEF Known, Devices, Issued, HeardAt
<1>4. Known'
  <2>1. edgeAcc' \subseteq Issued /\ dropped' \subseteq Issued
    BY <1>3
  <2>2. \A t \in DOMAIN inputs' : inputs'[t] \subseteq Issued
    BY <1>3
  <2> QED
    BY <1>1, <2>1, <2>2 DEF Known
<1>5. Apart'
  <2>1. /\ \A t : HeardAt(t) \cap (Devices \cup edgeAcc \cup dropped) = {}
        /\ \A t, u : t # u => HeardAt(t) \cap HeardAt(u) = {}
    BY DEF Apart, HeardAt
  <2>2. \A t \in DOMAIN inputs' : inputs'[t] \cap (edgeAcc' \cup dropped') = {}
    BY <2>1
  <2>3. ASSUME NEW t \in DOMAIN inputs', NEW u \in DOMAIN inputs', t # u
        PROVE  inputs'[t] \cap inputs'[u] = {}
    <3>1. CASE t = x
      BY <2>1, <2>3, <3>1
    <3>2. CASE u = x
      BY <2>1, <2>3, <3>2
    <3>3. CASE t # x /\ u # x
      BY <2>1, <2>3, <3>3
    <3> QED
      BY <3>1, <3>2, <3>3
  <2> QED
    BY <1>2, <2>2, <2>3 DEF Apart
<1>6. Somewhere'
  <2> SUFFICES ASSUME NEW e \in Issued
               PROVE  \/ e \in edgeAcc' \cup dropped' \/ Forgiven(e)
                      \/ \E t \in DOMAIN inputs' : e \in inputs'[t]
    BY <1>1, <1>2 DEF Somewhere, Forgiven
  <2>1. CASE e \in Devices \cup edgeAcc \cup dropped
    <3>1. e \in es \cup edgeAcc' \cup dropped'
      BY <2>1
    <3> QED
      BY <3>1
  <2>2. CASE \E t \in DOMAIN inputs : e \in inputs[t]
    <3>1. PICK t \in DOMAIN inputs : e \in inputs[t]
      BY <2>2
    <3>2. e \in HeardAt(t) /\ t \in DOMAIN inputs'
      BY <3>1 DEF HeardAt
    <3> QED
      BY <3>2
  <2> QED
    BY <2>1, <2>2 DEF Somewhere
<1> QED
  BY <1>4, <1>5, <1>6

-----------------------------------------------------------------------------
(***************************************************************************)
(* The steps of the devices.                                               *)
(***************************************************************************)
\* Which ticks have an input depends on little.
LEMMA WindowStays ==
  ASSUME Windowed, UNCHANGED <<online, tick, inputs, flushed, resyncs>>
  PROVE  Windowed'
BY DEF Windowed, Window, Frontier

\* Keys, mouse and finger.
LEMMA DeviceEventKeepsInv ==
  ASSUME StagingInv, DeviceEvent
  PROVE  StagingInv'
<1> USE DEF StagingInv
<1>1. /\ UNCHANGED <<button, online, wasDown, dropped, edgeAcc, debt, tick, inputs, flushed,
                     resyncs>>
      /\ \E d : Pushed(d) \/ Lifted(d)
  BY DEF DeviceEvent, KeyDown, KeyUp, TouchDown, TouchUp
<1>2. PICK d : Pushed(d) \/ Lifted(d)
  BY <1>1
<1>3. Windowed'
  BY <1>1, WindowStays
<1>4. CASE presses' = presses + 1 /\ Pushed(d)
  <2>1. d \notin holders /\ pressed' = pressed \cup {Press(presses + 1)}
        /\ UNCHANGED <<releases, released>>
    BY <1>4 DEF Pushed, Counted
  <2>2. /\ Issued' = Issued \cup {Press(presses + 1)} /\ Press(presses + 1) \notin Issued
        /\ Presses' = Presses \cup {Press(presses + 1)} /\ Releases' = Releases
        /\ presses' \in Nat
    BY <1>4, <2>1, PressIsNew
  <2>3. Known' /\ Apart' /\ Somewhere'
    <3> DEFINE fresh == {Press(presses + 1)}
    <3>1. fresh \cap Issued = {} /\ Issued' = Issued \cup fresh
      BY <2>2
    <3>2. pressed' \subseteq Presses' /\ released' \subseteq Releases' /\ dropped \subseteq dropped'
      BY <1>1, <2>1, <2>2 DEF Known
    <3>3. (Devices \cup dropped)' = Devices \cup dropped \cup fresh
      BY <1>1, <2>1 DEF Devices
    <3>4. (Devices \cap dropped)' = {}
      BY <1>1, <2>1, <2>2 DEF Devices, Apart, Known
    <3> HIDE DEF fresh
    <3> QED
      BY <1>1, <3>1, <3>2, <3>3, <3>4, DevicesKeepEdges
  <2>4. Counted'
    BY <1>1, <2>1, <2>2 DEF Counted
  <2> QED
    BY <1>3, <2>3, <2>4
<1>5. CASE releases' = releases + 1 /\ Lifted(d)
  <2>1. released' = released \cup {Release(releases + 1)} /\ UNCHANGED <<presses, pressed>>
    BY <1>5 DEF Lifted, Counted
  <2>2. /\ Issued' = Issued \cup {Release(releases + 1)} /\ Release(releases + 1) \notin Issued
        /\ Releases' = Releases \cup {Release(releases + 1)} /\ Presses' = Presses
        /\ releases' \in Nat
    BY <1>5, <2>1, ReleaseIsNew
  <2>3. Known' /\ Apart' /\ Somewhere'
    <3> DEFINE fresh == {Release(releases + 1)}
    <3>1. fresh \cap Issued = {} /\ Issued' = Issued \cup fresh
      BY <2>2
    <3>2. pressed' \subseteq Presses' /\ released' \subseteq Releases' /\ dropped \subseteq dropped'
      BY <1>1, <2>1, <2>2 DEF Known
    <3>3. (Devices \cup dropped)' = Devices \cup dropped \cup fresh
      BY <1>1, <2>1 DEF Devices
    <3>4. (Devices \cap dropped)' = {}
      BY <1>1, <2>1, <2>2 DEF Devices, Apart, Known
    <3> HIDE DEF fresh
    <3> QED
      BY <1>1, <3>1, <3>2, <3>3, <3>4, DevicesKeepEdges
  <2>4. Counted'
    BY <1>1, <2>1, <2>2 DEF Counted
  <2> QED
    BY <1>3, <2>3, <2>4
<1>6. CASE UNCHANGED <<presses, releases, pressed, released>>
  BY <1>1, <1>3, <1>6, NoneIssued
  DEF Counted, Known, Devices, Apart, Somewhere, Forgiven
<1> QED
  BY <1>2, <1>4, <1>5, <1>6 DEF Pushed, Lifted

\* What is let go, or taken to no tick, is forgotten or is still in the devices.
LEMMA ForgettingKeepsInv ==
  ASSUME StagingInv, UNCHANGED <<button, online, presses, edgeAcc, tick, inputs, flushed, resyncs>>,
         debt' \in Nat,
         NEW fresh, \/ releases' = releases + 1 /\ fresh = {Release(releases + 1)}
                    \/ releases' = releases /\ fresh = {},
         pressed' = {}, released' \subseteq released \cup fresh,
         dropped' = dropped \cup pressed \cup ((released \cup fresh) \ released')
  PROVE  StagingInv'
<1> USE DEF StagingInv
<1>1. /\ Issued' = Issued \cup fresh /\ fresh \cap Issued = {}
      /\ Releases' = Releases \cup fresh /\ Presses' = Presses /\ releases' \in Nat
  <2>1. CASE releases' = releases + 1 /\ fresh = {Release(releases + 1)}
    BY <2>1, ReleaseIsNew
  <2>2. CASE releases' = releases /\ fresh = {}
    BY <2>2, NoneIssued DEF Counted
  <2> QED
    BY <2>1, <2>2
<1>2. Known' /\ Apart' /\ Somewhere'
  <2>1. pressed' \subseteq Presses' /\ released' \subseteq Releases' /\ dropped \subseteq dropped'
    BY <1>1 DEF Known
  <2>2. (Devices \cup dropped)' = Devices \cup dropped \cup fresh
    BY DEF Devices
  <2>3. (Devices \cap dropped)' = {}
    <3>1. fresh \cap (dropped \cup pressed \cup released) = {}
      BY <1>1 DEF Known, Issued
    <3>2. pressed \cap released = {} /\ (pressed \cup released) \cap dropped = {}
      BY Kinds DEF Known, Apart, Devices
    <3> QED
      BY <3>1, <3>2 DEF Devices
  <2> QED
    BY <1>1, <2>1, <2>2, <2>3, DevicesKeepEdges
<1>3. Counted'
  BY <1>1 DEF Counted
<1> QED
  BY <1>2, <1>3, WindowStays

\* The window loses the focus, or the match is paused.
LEMMA ResetKeepsInv ==
  ASSUME StagingInv, Reset
  PROVE  StagingInv'
<1> DEFINE fresh == IF holders = {} THEN {} ELSE {Release(releases + 1)}
<1>1. /\ \/ releases' = releases + 1 /\ fresh = {Release(releases + 1)}
         \/ releases' = releases /\ fresh = {}
      /\ (IF holders = {} THEN released ELSE released \cup {Release(releases + 1)})
            = released \cup fresh
  BY DEF Reset
<1>2. LetGo(released \cup fresh)
  BY <1>1 DEF Reset
<1>3. /\ pressed' = {} /\ released' \subseteq released \cup fresh
      /\ dropped' = dropped \cup pressed \cup ((released \cup fresh) \ released')
  BY <1>2 DEF LetGo
<1>4. debt' \in Nat
  BY DEF Reset, StagingInv, Counted
<1> HIDE DEF fresh
<1> QED
  BY <1>1, <1>3, <1>4, ForgettingKeepsInv DEF Reset

\* A frame of another screen, and one of a match that the peer has paused.
LEMMA ForgettingFramesKeepInv ==
  ASSUME StagingInv, Elsewhere \/ IdleFrame
  PROVE  StagingInv'
<1>1. /\ UNCHANGED <<button, online, presses, releases, edgeAcc, tick, inputs, flushed, resyncs>>
      /\ debt' \in Nat
  BY DEF Elsewhere, IdleFrame, sources, StagingInv, Counted
<1>2. /\ pressed' = {} /\ released' \subseteq released
      /\ dropped' = dropped \cup pressed \cup (released \ released')
  BY DEF Elsewhere, LetGo, IdleFrame
<1> QED
  BY <1>1, <1>2, ForgettingKeepsInv

-----------------------------------------------------------------------------
(***************************************************************************)
(* The frames of a match.                                                  *)
(***************************************************************************)
\* Ticks are not taken on credit: the debt never becomes negative.
LEMMA ClockFacts ==
  ASSUME Counted, NEW e \in Elapsed
  PROVE  Due(e) \in Nat /\ Owed(e) - Due(e) * TickTime \in Nat
<1>1. debt \in Nat /\ e \in Nat /\ MaxDebt \in Nat /\ MaxCatchUp \in Nat
      /\ TickTime \in Nat /\ TickTime > 0
  BY InputAssumption DEF Counted
<1>2. Owed(e) \in Nat
  BY <1>1 DEF Owed, Lower
<1> DEFINE q == Owed(e) \div TickTime
<1>3. q \in Nat /\ q * TickTime <= Owed(e)
  BY <1>1, <1>2
<1>4. Due(e) \in Nat /\ Due(e) <= q
  BY <1>1, <1>3 DEF Due, Lower
<1> HIDE DEF q
<1>5. Due(e) * TickTime <= q * TickTime /\ Due(e) * TickTime \in Nat
  BY <1>1, <1>3, <1>4
<1> QED
  BY <1>1, <1>2, <1>3, <1>4, <1>5

\* The edges that a frame takes, and those that it forgets.
LEMMA TakeFacts ==
  ASSUME Known, Apart, Take
  PROVE  /\ pressed' = {} /\ released' = {} /\ UNCHANGED <<presses, releases>>
         /\ HandedOver \subseteq Devices /\ dropped' = dropped \cup (Devices \ HandedOver)
         /\ HandedOver \cap (dropped' \cup edgeAcc) = {}
<1>1. pressed' = {} /\ released' = {} /\ UNCHANGED <<presses, releases>>
  BY DEF Take, sources
<1>2. pressed \cap released = {}
  BY Kinds DEF Known
<1>3. HandedOver \subseteq Devices /\ dropped' = dropped \cup (Devices \ HandedOver)
  BY <1>2 DEF Take, HandedOver, Devices
<1> QED
  BY <1>1, <1>3 DEF Apart

\* Alone: the first of the ticks that are run hears of the edges.
LEMMA SoloFrameKeepsInv ==
  ASSUME StagingInv, SoloFrame
  PROVE  StagingInv'
<1> USE DEF StagingInv
<1>1. /\ ~online /\ UNCHANGED <<button, online, edgeAcc, flushed, resyncs>>
  BY DEF SoloFrame
<1>2. tick \in Nat /\ DOMAIN inputs = 0 .. (tick - 1)
  BY <1>1 DEF Counted, Windowed
<1>3. PICK e \in Elapsed :
        LET ran == tick .. (tick + Due(e) - 1) IN
          /\ ClockTicked(e) /\ tick' = tick + Due(e)
          /\ inputs' = [t \in DOMAIN inputs \cup ran |->
               IF t \notin ran THEN inputs[t] ELSE IF t \in Hearing(ran) THEN HandedOver ELSE {}]
          /\ IF ran = {} THEN UNCHANGED buttonState ELSE Take
  BY DEF SoloFrame
<1> DEFINE ran == tick .. (tick + Due(e) - 1)
<1>4. Due(e) \in Nat /\ debt' \in Nat /\ tick' = tick + Due(e) /\ tick' \in Nat
  BY <1>2, <1>3, ClockFacts DEF ClockTicked
<1>5. /\ inputs' = [t \in DOMAIN inputs \cup ran |->
            IF t \notin ran THEN inputs[t] ELSE IF t \in Hearing(ran) THEN HandedOver ELSE {}]
      /\ IF ran = {} THEN UNCHANGED buttonState ELSE Take
  BY <1>3
<1>6. DOMAIN inputs' = 0 .. (tick' - 1)
  BY <1>2, <1>4, <1>5
<1>7. Windowed'
  BY <1>1, <1>6 DEF Windowed
<1>8. CASE Due(e) = 0
  <2>1. ran = {}
    BY <1>2, <1>8
  <2>2. UNCHANGED buttonState
    BY <1>5, <2>1
  <2>3. DOMAIN inputs' = DOMAIN inputs /\ \A t \in DOMAIN inputs : inputs'[t] = inputs[t]
    BY <1>5, <2>1
  <2>4. UNCHANGED <<presses, releases, pressed, released, dropped>>
    BY <2>2 DEF buttonState, sources
  <2>5. Counted'
    BY <1>1, <1>4, <2>4 DEF Counted
  <2>6. Known' /\ Apart' /\ Somewhere'
    BY <1>1, <2>3, <2>4, NoneIssued DEF Known, Apart, Somewhere, Forgiven, Devices
  <2> QED
    BY <1>7, <2>5, <2>6
<1>9. CASE Due(e) # 0
  <2>1. tick \in ran /\ ran # {} /\ \A t \in ran : tick <= t
    BY <1>2, <1>4, <1>9
  <2>2. Hearing(ran) = {tick}
    <3>1. \A t \in ran : (\A u \in ran : t <= u) => t = tick
      BY <1>2, <1>4, <2>1
    <3>2. Earliest(ran) = tick
      BY <2>1, <3>1 DEF Earliest
    <3> QED
      BY <2>1, <3>2 DEF Hearing
  <2>3. Take
    BY <1>5, <2>1
  <2>4. tick \notin DOMAIN inputs /\ \A t \in ran : t \notin DOMAIN inputs
    BY <1>2, <1>4
  <2>5. /\ DOMAIN inputs' = DOMAIN inputs \cup ran
        /\ inputs'[tick] = HandedOver
        /\ \A t \in DOMAIN inputs' : t # tick => inputs'[t] = HeardAt(t)
    BY <1>5, <2>1, <2>2, <2>4 DEF HeardAt
  <2>6. /\ pressed' = {} /\ released' = {} /\ UNCHANGED <<presses, releases>>
        /\ HandedOver \subseteq Devices /\ dropped' = dropped \cup (Devices \ HandedOver)
        /\ HandedOver \cap (dropped' \cup edgeAcc) = {}
    BY <2>3, TakeFacts
  <2>7. Counted'
    BY <1>1, <1>4, <2>6 DEF Counted
  <2>8. Known' /\ Apart' /\ Somewhere'
    <3>1. edgeAcc' = edgeAcc /\ edgeAcc \cap dropped' = {}
      BY <1>1, <2>6 DEF Apart
    <3>2. HandedOver \cup edgeAcc' \cup dropped' = Devices \cup edgeAcc \cup dropped
      BY <2>6, <3>1
    <3> DEFINE es == HandedOver
    <3>3. /\ tick \in DOMAIN inputs' /\ DOMAIN inputs \subseteq DOMAIN inputs'
          /\ inputs'[tick] \subseteq HeardAt(tick) \cup es
          /\ \A f \in (HeardAt(tick) \cup es) \ inputs'[tick] : Forgiven(f)
      BY <2>1, <2>4, <2>5 DEF HeardAt
    <3>4. /\ es \subseteq Devices \cup edgeAcc /\ es \cap (edgeAcc' \cup dropped') = {}
          /\ edgeAcc' \cap dropped' = {}
          /\ es \cup edgeAcc' \cup dropped' = Devices \cup edgeAcc \cup dropped
      BY <2>6, <3>1, <3>2
    <3>5. \A t \in DOMAIN inputs' : t # tick => inputs'[t] = HeardAt(t)
      BY <2>5
    <3>6. UNCHANGED <<button, presses, releases, resyncs>> /\ pressed' = {} /\ released' = {}
      BY <1>1, <2>6
    <3> HIDE DEF es
    <3> QED
      BY <3>3, <3>4, <3>5, <3>6, FrameKeepsEdges
  <2> QED
    BY <1>7, <2>7, <2>8
<1> QED
  BY <1>8, <1>9

\* A resync goes back, and leaves the edges where they are.
LEMMA ResyncKeepsInv ==
  ASSUME StagingInv, Resync
  PROVE  StagingInv'
<1> USE DEF StagingInv
<1>1. /\ UNCHANGED <<button, online, edgeAcc, debt, inputs, flushed, pressed, released, dropped,
                     presses, releases>>
      /\ online /\ resyncs' = resyncs + 1 /\ resyncs \in Nat /\ tick \in Nat
      /\ tick' \in 0 .. tick
  BY DEF Resync, buttonState, sources, Counted
<1>2. tick' \in Nat /\ tick' <= tick /\ resyncs' \in Nat /\ resyncs' > 0
  BY <1>1
<1>3. Counted'
  BY <1>1, <1>2 DEF Counted
<1>4. Known' /\ Apart'
  BY <1>1, NoneIssued DEF Known, Apart, Devices
<1>5. Somewhere'
  BY <1>1, <1>2, NoneIssued DEF Somewhere, Forgiven, Devices, Counted
<1>6. Windowed'
  <2>1. PICK m \in Nat : Window(m)
    BY <1>1 DEF Windowed
  <2>2. tick' <= m /\ flushed' <= m /\ resyncs' # 0 /\ DOMAIN inputs' = 0 .. (m - 1)
    BY <1>1, <1>2, <2>1 DEF Window, Counted
  <2>3. Window(m)'
    BY <2>2 DEF Window
  <2> QED
    BY <1>1, <2>3 DEF Windowed
<1> QED
  BY <1>3, <1>4, <1>5, <1>6

\* Which ticks of an online match have an input, and which of them are to be sent.
LEMMA WindowFacts ==
  ASSUME Counted, NEW m \in Nat, Window(m)
  PROVE  /\ tick \in Nat /\ Frontier \in Nat /\ tick <= Frontier /\ flushed \in Nat
         /\ Watermark \in Nat /\ Watermark <= m /\ Gaps = m .. Frontier
         /\ Unsent # {} => Frontier \in Unsent
         /\ Unsent # {} /\ m > Frontier => resyncs > 0
         /\ DOMAIN inputs \cup Gaps = 0 .. (Higher(m, Frontier + 1) - 1)
<1>1. tick \in Nat /\ flushed \in Nat /\ resyncs \in Nat /\ Delay \in Nat
  BY InputAssumption DEF Counted
<1>2. Frontier \in Nat /\ tick <= Frontier /\ Frontier = tick + Delay
  BY <1>1 DEF Frontier
<1>3. /\ DOMAIN inputs = 0 .. (m - 1) /\ tick <= m /\ flushed <= m
      /\ resyncs = 0 => \/ flushed = m /\ flushed <= Frontier + 1
                        \/ flushed = 0 /\ tick = 0 /\ m = Delay
  BY DEF Window
<1>4. Watermark \in Nat /\ Watermark <= m /\ (flushed <= Frontier + 1 => Watermark = flushed)
  BY <1>1, <1>2, <1>3 DEF Watermark
<1>5. Gaps = m .. Frontier
  BY <1>1, <1>2, <1>3, <1>4 DEF Gaps, Unsent
<1>6. Unsent # {} => Frontier \in Unsent /\ Frontier >= Watermark
  BY <1>1, <1>2, <1>4 DEF Unsent
<1>7. Unsent # {} /\ m > Frontier => resyncs > 0
  BY <1>1, <1>2, <1>3, <1>4, <1>6
<1>8. DOMAIN inputs \cup Gaps = 0 .. (Higher(m, Frontier + 1) - 1)
  BY <1>2, <1>3, <1>5 DEF Higher
<1> QED
  BY <1>1, <1>2, <1>4, <1>5, <1>6, <1>7, <1>8

\* Where stageInput() puts the edges es: into the first tick without an input, or into
\* the frontier's, or nowhere yet.
LEMMA StagedFacts ==
  ASSUME Counted, Known, NEW es, es \subseteq Issued, HandedOver \subseteq es,
         NEW m \in Nat, Window(m)
  PROVE  \E x \in DOMAIN Staged(es) :
           /\ \A t \in DOMAIN Staged(es) : t # x => Staged(es)[t] = HeardAt(t)
           /\ IF Unsent = {} THEN Staged(es)[x] = HeardAt(x)
              ELSE /\ Staged(es)[x] \subseteq HeardAt(x) \cup es
                   /\ \A e \in (HeardAt(x) \cup es) \ Staged(es)[x] : Forgiven(e)
<1>1. /\ tick \in Nat /\ Frontier \in Nat /\ Gaps = m .. Frontier
      /\ Unsent # {} => Frontier \in Unsent
      /\ Unsent # {} /\ m > Frontier => resyncs > 0
      /\ DOMAIN inputs = 0 .. (m - 1)
  BY WindowFacts DEF Window
<1>2. DOMAIN Staged(es) = DOMAIN inputs \cup Gaps
  BY DEF Staged
<1>3. CASE m <= Frontier
  <2>1. m \in Gaps /\ Frontier \in Gaps /\ (\A t \in Gaps : m <= t /\ t \notin DOMAIN inputs)
    BY <1>1, <1>3
  <2>2. Earliest(Gaps) = m
    <3>1. \A t \in Gaps : (\A u \in Gaps : t <= u) => t = m
      BY <1>1, <2>1
    <3> QED
      BY <2>1, <3>1 DEF Earliest
  <2>3. \A t \in DOMAIN Staged(es) :
          Staged(es)[t] = IF t \in Gaps THEN IF t = m THEN es ELSE {} ELSE inputs[t]
    BY <1>2, <2>1, <2>2 DEF Staged
  <2>4. Unsent # {}
    BY <2>1 DEF Gaps
  <2>5. HeardAt(m) = {} /\ Staged(es)[m] = es /\ m \in DOMAIN Staged(es)
    BY <1>2, <2>1, <2>3 DEF HeardAt
  <2>6. \A t \in DOMAIN Staged(es) : t # m => Staged(es)[t] = HeardAt(t)
    BY <1>2, <2>1, <2>3 DEF HeardAt
  <2>7. (HeardAt(m) \cup es) \ Staged(es)[m] = {}
    BY <2>5
  <2> QED
    BY <2>4, <2>5, <2>6, <2>7
<1>4. CASE m > Frontier
  <2>1. Gaps = {} /\ Frontier \in DOMAIN inputs /\ DOMAIN Staged(es) = DOMAIN inputs
    BY <1>1, <1>2, <1>4
  <2>2. \A t \in DOMAIN inputs :
          Staged(es)[t] = IF t = Frontier /\ t \in Unsent THEN Anew(es) ELSE inputs[t]
    BY <2>1 DEF Staged
  <2>3. \A t \in DOMAIN Staged(es) : t # Frontier => Staged(es)[t] = HeardAt(t)
    BY <2>1, <2>2 DEF HeardAt
  <2>4. CASE Unsent = {}
    BY <2>1, <2>2, <2>3, <2>4 DEF HeardAt
  <2>5. CASE Unsent # {}
    <3>1. Staged(es)[Frontier] = Anew(es) /\ HeardAt(Frontier) = inputs[Frontier] /\ resyncs > 0
      BY <1>1, <1>4, <2>1, <2>2, <2>5 DEF HeardAt
    <3>2. HeardAt(Frontier) \cup es \subseteq Issued
      BY <2>1, <3>1 DEF Known
    <3>3. Anew(es) \subseteq HeardAt(Frontier) \cup es
      BY <3>1 DEF Anew, Only
    <3>4. ASSUME NEW e \in (HeardAt(Frontier) \cup es) \ Anew(es)
          PROVE  Forgiven(e)
      <4>1. button # "shot" /\ e.kind # "press"
        BY <3>1, <3>4 DEF Anew, Only
      <4>2. e.kind = "release"
        BY <3>2, <3>4, <4>1, Kinds DEF Issued
      <4> QED
        BY <3>1, <4>1, <4>2 DEF Forgiven, Counted
    <3> QED
      BY <2>1, <2>3, <2>5, <3>1, <3>3, <3>4
  <2> QED
    BY <2>4, <2>5
<1> QED
  BY <1>1, <1>3, <1>4

\* Online: the edges are staged, or wait, and the ticks that are run have an input.
LEMMA OnlineFrameKeepsInv ==
  ASSUME StagingInv, OnlineFrame
  PROVE  StagingInv'
<1> USE DEF StagingInv
<1> DEFINE es == edgeAcc \cup HandedOver
<1>1. /\ online /\ UNCHANGED <<button, online, resyncs>> /\ Take
      /\ inputs' = Staged(es) /\ edgeAcc' = Waiting(es)
      /\ flushed' = Higher(Watermark, Frontier + 1)
  BY DEF OnlineFrame
<1>2. PICK e \in Elapsed : \E n \in 0 .. Due(e) :
        /\ ClockTicked(e) /\ tick' = tick + n
        /\ \A t \in tick .. (tick + n - 1) : t \in DOMAIN inputs'
  BY DEF OnlineFrame
<1>3. PICK n \in 0 .. Due(e) :
        /\ ClockTicked(e) /\ tick' = tick + n
        /\ \A t \in tick .. (tick + n - 1) : t \in DOMAIN inputs'
  BY <1>2
<1>4. PICK m \in Nat : Window(m)
  BY <1>1 DEF Windowed
<1>5. /\ tick \in Nat /\ Frontier \in Nat /\ tick <= Frontier /\ flushed \in Nat
      /\ Watermark \in Nat /\ Watermark <= m
      /\ DOMAIN inputs \cup Gaps = 0 .. (Higher(m, Frontier + 1) - 1)
  BY <1>4, WindowFacts
<1>6. /\ pressed' = {} /\ released' = {} /\ UNCHANGED <<presses, releases>>
      /\ HandedOver \subseteq Devices /\ dropped' = dropped \cup (Devices \ HandedOver)
      /\ HandedOver \cap (dropped' \cup edgeAcc) = {}
  BY <1>1, TakeFacts
<1>7. n \in Nat /\ tick' = tick + n /\ tick' \in Nat /\ debt' \in Nat
  BY <1>3, <1>5, ClockFacts DEF ClockTicked
<1>8. Counted'
  <2>1. flushed' \in Nat
    BY <1>1, <1>5 DEF Higher
  <2> QED
    BY <1>1, <1>6, <1>7, <2>1 DEF Counted
<1>9. Windowed'
  <2> DEFINE k == Higher(m, Frontier + 1)
  <2>1. k \in Nat /\ m <= k /\ Frontier + 1 <= k /\ (k = m \/ k = Frontier + 1)
    BY <1>5 DEF Higher
  <2>2. DOMAIN inputs' = 0 .. (k - 1)
    BY <1>1, <1>5 DEF Staged
  <2>3. tick' <= k
    <3>1. CASE n = 0
      BY <1>5, <1>7, <2>1, <3>1
    <3>2. CASE n # 0
      <4>1. tick + n - 1 \in tick .. (tick + n - 1)
        BY <1>5, <1>7, <3>2
      <4>2. tick + n - 1 \in 0 .. (k - 1)
        BY <1>3, <2>2, <4>1
      <4> QED
        BY <1>5, <1>7, <2>1, <4>2
    <3> QED
      BY <3>1, <3>2
  <2>4. flushed' <= k
    BY <1>1, <1>5, <2>1 DEF Higher
  <2>5. Frontier' = tick' + Delay /\ Frontier = tick + Delay /\ Delay \in Nat
    BY InputAssumption DEF Frontier
  <2>6. CASE resyncs = 0
    <3>1. \/ flushed = m /\ flushed <= Frontier + 1
          \/ flushed = 0 /\ tick = 0 /\ m = Delay
      BY <1>4, <2>6 DEF Window
    <3>2. Watermark = flushed
      BY <1>5, <3>1 DEF Watermark
    <3>3. flushed' = k /\ flushed' <= Frontier + 1
      BY <1>1, <1>5, <2>1, <2>5, <3>1, <3>2 DEF Higher
    <3>4. flushed' <= Frontier' + 1
      BY <1>5, <1>7, <2>1, <2>5, <3>3
    <3> QED
      BY <2>1, <2>2, <2>3, <3>3, <3>4, <1>1, <2>4 DEF Windowed, Window
  <2>7. CASE resyncs # 0
    BY <1>1, <2>1, <2>2, <2>3, <2>4, <2>7 DEF Windowed, Window
  <2> QED
    BY <2>6, <2>7
<1>10. Known' /\ Apart' /\ Somewhere'
  <2>1. es \subseteq Issued /\ HandedOver \subseteq es /\ es \subseteq Devices \cup edgeAcc
    BY <1>6 DEF Known, Devices, Issued
  <2>2. es \cap dropped' = {} /\ es \cup dropped' = Devices \cup edgeAcc \cup dropped
    BY <1>6 DEF Apart
  <2> HIDE DEF es
  <2>3. PICK x \in DOMAIN Staged(es) :
           /\ \A t \in DOMAIN Staged(es) : t # x => Staged(es)[t] = HeardAt(t)
           /\ IF Unsent = {} THEN Staged(es)[x] = HeardAt(x)
              ELSE /\ Staged(es)[x] \subseteq HeardAt(x) \cup es
                   /\ \A f \in (HeardAt(x) \cup es) \ Staged(es)[x] : Forgiven(f)
    BY <1>4, <2>1, StagedFacts
  <2>4. x \in DOMAIN inputs' /\ (\A t \in DOMAIN inputs' : t # x => inputs'[t] = HeardAt(t))
        /\ DOMAIN inputs \subseteq DOMAIN inputs'
    BY <1>1, <2>3 DEF Staged
  <2>5. CASE Unsent = {}
    <3> DEFINE none == {}
    <3>1. edgeAcc' = es
      BY <1>1, <2>5 DEF Waiting
    <3>2. inputs'[x] \subseteq HeardAt(x) \cup none
          /\ \A f \in (HeardAt(x) \cup none) \ inputs'[x] : Forgiven(f)
      BY <1>1, <2>3, <2>5
    <3>3. /\ none \subseteq Devices \cup edgeAcc /\ none \cap (edgeAcc' \cup dropped') = {}
          /\ edgeAcc' \cap dropped' = {}
          /\ none \cup edgeAcc' \cup dropped' = Devices \cup edgeAcc \cup dropped
      BY <2>2, <3>1
    <3> HIDE DEF none
    <3> QED
      BY <1>1, <1>6, <2>4, <3>2, <3>3, FrameKeepsEdges
  <2>6. CASE Unsent # {}
    <3>1. edgeAcc' = {}
      BY <1>1, <2>6 DEF Waiting
    <3>2. inputs'[x] \subseteq HeardAt(x) \cup es
          /\ \A f \in (HeardAt(x) \cup es) \ inputs'[x] : Forgiven(f)
      BY <1>1, <2>3, <2>6
    <3>3. /\ es \cap (edgeAcc' \cup dropped') = {} /\ edgeAcc' \cap dropped' = {}
          /\ es \cup edgeAcc' \cup dropped' = Devices \cup edgeAcc \cup dropped
      BY <2>2, <3>1
    <3> QED
      BY <1>1, <1>6, <2>1, <2>4, <3>2, <3>3, FrameKeepsEdges
  <2> QED
    BY <2>5, <2>6
<1> QED
  BY <1>8, <1>9, <1>10

-----------------------------------------------------------------------------
(***************************************************************************)
(* Every edge lands once.                                                  *)
(***************************************************************************)
LEMMA InputInitHasInv ==
  ASSUME InputInit
  PROVE  StagingInv
<1>1. presses = 0 /\ releases = 0 /\ pressed = {} /\ released = {} /\ edgeAcc = {} /\ dropped = {}
      /\ debt = 0 /\ tick = 0 /\ flushed = 0 /\ resyncs = 0
      /\ button \in {"shot", "pass"} /\ online \in BOOLEAN
  BY DEF InputInit
<1>2. DOMAIN inputs = (IF online THEN 0 .. (Delay - 1) ELSE {})
      /\ \A t \in DOMAIN inputs : inputs[t] = {}
  BY DEF InputInit
<1>3. Issued = {}
  BY <1>1 DEF Issued, Presses, Releases
<1>4. Counted
  BY <1>1 DEF Counted
<1>5. Known /\ Apart /\ Somewhere
  BY <1>1, <1>2, <1>3 DEF Known, Apart, Somewhere, Devices
<1>6. Windowed
  <2>1. Delay \in Nat /\ 0 .. (0 - 1) = {}
    BY InputAssumption
  <2>2. online => Window(Delay)
    BY <1>1, <1>2, <2>1 DEF Window, Frontier
  <2> QED
    BY <1>1, <1>2, <2>1, <2>2 DEF Windowed
<1> QED
  BY <1>4, <1>5, <1>6 DEF StagingInv

\* Every step of the input keeps the staging in order.
LEMMA InputNextKeepsInv ==
  ASSUME StagingInv, [InputNext]_inputVars
  PROVE  StagingInv'
<1>1. CASE InputNext
  BY <1>1, DeviceEventKeepsInv, ResetKeepsInv, SoloFrameKeepsInv, OnlineFrameKeepsInv,
     ResyncKeepsInv, ForgettingFramesKeepInv DEF InputNext
<1>2. CASE UNCHANGED inputVars
  <2>1. UNCHANGED <<presses, releases, pressed, released, dropped, button, online, edgeAcc, debt,
                    tick, inputs, flushed, resyncs>>
    BY <1>2 DEF inputVars, buttonState, sources
  <2> QED
    BY <2>1, NoneIssued
    DEF StagingInv, Counted, Known, Apart, Somewhere, Forgiven, Devices, Windowed, Window, Frontier
<1> QED
  BY <1>1, <1>2

\* Each edge is counted once: in the tick that hears of it, or where it waits.
LEMMA InvCountsEdges ==
  ASSUME StagingInv
  PROVE  EachEdgeOnce
<1> DEFINE place == [device |-> Devices, kept |-> edgeAcc, lost |-> dropped]
           Ticks(e) == {t \in DOMAIN inputs : e \in inputs[t]}
           Where(e) == {p \in DOMAIN place : e \in place[p]}
<1>1. /\ DOMAIN place = {"device", "kept", "lost"}
      /\ place["device"] = Devices /\ place["kept"] = edgeAcc /\ place["lost"] = dropped
  OBVIOUS
<1>2. ASSUME NEW e \in Issued
      PROVE  \/ Cardinality(Ticks(e)) + Cardinality(Where(e)) = 1
             \/ Cardinality(Ticks(e)) + Cardinality(Where(e)) = 0 /\ Forgiven(e)
  <2>1. Cardinality({}) = 0 /\ \A x : Cardinality({x}) = 1
    BY FS_EmptySet, FS_Singleton
  <2>2. CASE Ticks(e) # {}
    <3>1. PICK t : t \in Ticks(e)
      BY <2>2
    <3>2. Ticks(e) = {t}
      BY <3>1 DEF StagingInv, Apart
    <3>3. Where(e) = {}
      BY <1>1, <3>1 DEF StagingInv, Apart
    <3> QED
      BY <2>1, <3>2, <3>3
  <2>3. CASE Ticks(e) = {} /\ Where(e) # {}
    <3>1. \E p : Where(e) = {p}
      <4>1. CASE e \in Devices
        <5>1. Where(e) = {"device"}
          BY <1>1, <4>1 DEF StagingInv, Apart
        <5> QED
          BY <5>1
      <4>2. CASE e \in edgeAcc
        <5>1. Where(e) = {"kept"}
          BY <1>1, <4>2 DEF StagingInv, Apart
        <5> QED
          BY <5>1
      <4>3. CASE e \in dropped
        <5>1. Where(e) = {"lost"}
          BY <1>1, <4>3 DEF StagingInv, Apart
        <5> QED
          BY <5>1
      <4> QED
        BY <1>1, <2>3, <4>1, <4>2, <4>3
    <3>2. Cardinality(Where(e)) = 1 /\ Cardinality(Ticks(e)) = 0
      BY <2>1, <2>3, <3>1
    <3> QED
      BY <3>2
  <2>4. CASE Ticks(e) = {} /\ Where(e) = {}
    <3>1. Cardinality(Ticks(e)) = 0 /\ Cardinality(Where(e)) = 0
      BY <2>1, <2>4
    <3>2. e \notin Devices \cup edgeAcc \cup dropped
      BY <1>1, <2>4
    <3>3. Forgiven(e)
      BY <2>4, <3>2 DEF StagingInv, Somewhere
    <3> QED
      BY <3>1, <3>3
  <2> QED
    BY <2>2, <2>3, <2>4
<1> QED
  BY <1>2 DEF EachEdgeOnce, Issued, Presses, Releases, Devices, Forgiven

\* Every press and every release of a button is an edge of exactly one tick, or is on its
\* way there or lost before a match has seen it, for any delay, clock and frames; only
\* the release of a pass may be lost once a resync has staged its tick anew.
THEOREM EachEdgeOnceHolds == InputSpec => []EachEdgeOnce
<1>1. InputInit => StagingInv
  BY InputInitHasInv
<1>2. StagingInv /\ [InputNext]_inputVars => StagingInv'
  BY InputNextKeepsInv
<1>3. StagingInv => EachEdgeOnce
  BY InvCountsEdges
<1> QED
  BY <1>1, <1>2, <1>3, PTL DEF InputSpec

-----------------------------------------------------------------------------
(***************************************************************************)
(* The stops of a match: the inductive invariant.                          *)
(***************************************************************************)
\* Where a tick is, and what a stop is.  Only during play a tick has further parts, and
\* only a human has a turn.
Staging ==
  /\ phase \in RestartPhase \cup {"playing", "goal", "halftime", "fulltime"}
  /\ stage \in Stage /\ turn \in Team /\ remote \in BOOLEAN
  /\ stage # "update" => phase = "playing"
  /\ stage \in {"contract", "act"} /\ turn = 1 => remote
  /\ goal \in [by : Team, time : Nat] \cup {None}
  /\ restart \in [team : Team, taker : Player, wait : Int] \cup {None}
  /\ lastTouch \in Team

StopInv == Staging /\ RestartTaken

\* The times are natural numbers.
LEMMA Times ==
  /\ SetupTicks \in Nat /\ IdleTicks \in Nat /\ AITicks \in Nat /\ GoalTicks \in Nat
  /\ BufferTicks \in Nat /\ LockTicks \in Nat /\ AITicks <= IdleTicks /\ LockTicks > 1
  /\ BufferTicks < SetupTicks
BY EngineAssumption

\* The players, and whose they are.
LEMMA Players ==
  /\ \A t \in Team : Other(t) \in Team /\ Taker(t) \in Player /\ Side(Taker(t)) = t
                    /\ Keeper(t) \in Player /\ Side(Keeper(t)) = t
                    /\ Field(t) \subseteq Player /\ \A p \in Field(t) : Side(p) = t
  /\ FieldPlayer \subseteq Player /\ \A p \in Player : Side(p) \in Team
<1>1. Outfielders \in Nat
  BY EngineAssumption
<1>2. \A t \in Team : Other(t) \in Team /\ Taker(t) \in Player /\ Side(Taker(t)) = t
                    /\ Keeper(t) \in Player /\ Side(Keeper(t)) = t
  BY <1>1 DEF Team, Other, Taker, Keeper, Player, Side
<1>3. \A t \in Team : Field(t) \subseteq Player /\ \A p \in Field(t) : Side(p) = t
  BY <1>1 DEF Team, Field, Player, Side
<1>4. \A p \in Player : Side(p) \in Team
  BY DEF Player, Side
<1> QED
  BY <1>2, <1>3, <1>4 DEF FieldPlayer, Team

\* A restart or a kick-off is set up.
LEMMA PlacedKeepsStops ==
  ASSUME StopInv, NEW ph \in RestartPhase, NEW t \in Team, NEW p \in Player, Side(p) = t,
         Placed(ph, t, p), goal' = None, stage' = "update", turn' \in Team, remote' = remote
  PROVE  StopInv'
<1>1. /\ phase' = ph /\ restart' = [team |-> t, taker |-> p, wait |-> SetupTicks]
      /\ owner' = None /\ lastTouch' = t
  BY DEF Placed
<1>2. restart' \in [team : Team, taker : Player, wait : Int] /\ restart' # None
  BY <1>1, Times, NoneIsNothing
<1>3. restart'.team = t /\ restart'.taker = p /\ restart'.wait = SetupTicks
  BY <1>1
<1>4. Staging'
  BY <1>1, <1>2 DEF StopInv, Staging, RestartPhase, Stage
<1>5. RestartTaken'
  <2>1. restart'.wait \in -IdleTicks .. SetupTicks
    BY <1>3, Times
  <2> QED
    BY <1>1, <1>2, <1>3, <2>1 DEF RestartTaken, RestartPhase
<1> QED
  BY <1>4, <1>5 DEF StopInv

\* Most parts of a tick leave the stops alone.
LEMMA PlayKeepsStops ==
  ASSUME StopInv, UNCHANGED <<phase, goal, restart>>, remote' \in BOOLEAN,
         stage' \in Stage, turn' \in Team, lastTouch' \in Team,
         stage' # "update" => phase = "playing",
         stage' \in {"contract", "act"} /\ turn' = 1 => remote',
         owner' = owner \/ phase = "playing"
  PROVE  StopInv'
<1>1. phase = "playing" => restart = None
  BY DEF StopInv, RestartTaken, RestartPhase
<1>2. Staging'
  BY DEF StopInv, Staging
<1>3. RestartTaken'
  BY <1>1 DEF StopInv, RestartTaken
<1> QED
  BY <1>2, <1>3 DEF StopInv

\* A goal is celebrated, then there is a kick-off.
LEMMA CelebrateKeepsStops ==
  ASSUME StopInv, Celebrate
  PROVE  StopInv'
<1>1. /\ phase = "goal" /\ UNCHANGED <<stage, turn, remote>> /\ stage = "update"
  BY DEF Celebrate, Ticked
<1>2. goal # None /\ goal \in [by : Team, time : Nat] /\ restart = None
  BY <1>1 DEF StopInv, Staging, RestartTaken, RestartPhase
<1>3. CASE goal.time < GoalTicks /\ goal' = [goal EXCEPT !.time = @ + 1]
           /\ UNCHANGED <<phase, restart, restartBuf, ball, charging, charge, control, hold>>
  <2>1. goal' \in [by : Team, time : Nat] /\ goal' # None
    BY <1>2, <1>3, NoneIsNothing
  <2> QED
    BY <1>1, <1>2, <1>3, <2>1 DEF StopInv, Staging, RestartTaken, RestartPhase, ball
<1>4. CASE goal.time = GoalTicks /\ goal' = None /\ Kickoff(Other(goal.by))
  <2>1. goal.by \in Team
    BY <1>2
  <2>2. Other(goal.by) \in Team /\ Taker(Other(goal.by)) \in Player
        /\ Side(Taker(Other(goal.by))) = Other(goal.by)
    BY <2>1, Players
  <2> QED
    BY <1>1, <1>4, <2>2, PlacedKeepsStops DEF Kickoff, RestartPhase, StopInv, Staging
<1> QED
  BY <1>3, <1>4 DEF Celebrate

\* A restart is set up, for no longer than the code waits.
LEMMA SetUpKeepsStops ==
  ASSUME StopInv, SetUp
  PROVE  StopInv'
<1>1. /\ phase \in RestartPhase /\ restart # None /\ stage = "update"
      /\ UNCHANGED <<phase, goal, stage, turn, owner, lastTouch, remote>>
  BY DEF SetUp, Ticked, ball
<1>2. restart \in [team : Team, taker : Player, wait : Int]
      /\ restart.wait \in -IdleTicks .. SetupTicks
  BY <1>1 DEF StopInv, Staging, RestartTaken
<1>3. /\ restart' = [restart EXCEPT !.wait = restart.wait - 1]
      /\ restart.wait - 1 <= 0 => ~TimedOut(restart.team, restart.wait - 1)
  BY DEF SetUp
<1>4. restart.wait - 1 \in -IdleTicks .. SetupTicks
  BY <1>2, <1>3, Times DEF TimedOut
<1>5. /\ restart' \in [team : Team, taker : Player, wait : Int] /\ restart' # None
      /\ restart'.team = restart.team /\ restart'.taker = restart.taker
      /\ restart'.wait = restart.wait - 1
  BY <1>2, <1>3, NoneIsNothing
<1> QED
  BY <1>1, <1>4, <1>5 DEF StopInv, Staging, RestartTaken, RestartPhase

\* Play goes on, or stops, between two ticks or within one.
LEMMA NextKeepsStops ==
  ASSUME StopInv, Next
  PROVE  StopInv'
<1>1. CASE Celebrate
  BY <1>1, CelebrateKeepsStops
<1>2. CASE SetUp
  BY <1>2, SetUpKeepsStops
<1>3. CASE TakeRestart
  <2>1. /\ phase \in RestartPhase /\ restart # None /\ stage = "update"
        /\ phase' = "playing" /\ restart' = None /\ owner' = None
        /\ UNCHANGED <<goal, stage, turn, remote>> /\ lastTouch' = restart.team
    BY <1>3 DEF TakeRestart, Ticked
  <2>2. restart.team \in Team /\ goal = None
    BY <2>1 DEF StopInv, Staging, RestartTaken, RestartPhase
  <2> QED
    BY <2>1, <2>2 DEF StopInv, Staging, RestartTaken, RestartPhase
<1>4. CASE EndHalf
  <2>1. /\ phase = "playing" /\ phase' \in {"halftime", "fulltime"} /\ restart' = None
        /\ stage = "update" /\ UNCHANGED <<goal, stage, turn, remote, lastTouch>>
    BY <1>4 DEF EndHalf, Ticked, ball
  <2> QED
    BY <2>1 DEF StopInv, Staging, RestartTaken, RestartPhase
<1>5. CASE Play
  BY <1>5, PlayKeepsStops DEF Play, Ticked, Goto, Stage, Team, ball, StopInv, Staging
<1>6. CASE UpdateAI
  <2>1. /\ stage = "updateAI" /\ stage' = "contract" /\ turn' = 0
        /\ UNCHANGED <<phase, goal, restart, remote>>
    BY <1>6 DEF UpdateAI, Goto, match
  <2>2. lastTouch' \in Team
    BY <1>6 DEF UpdateAI, KeeperHolds, KeeperReleases, ComputerPlays, NobodyPlays, Distributed,
                Launched, NotLaunched, ball, StopInv, Staging
  <2> QED
    BY <2>1, <2>2, PlayKeepsStops DEF Stage, Team, StopInv, Staging
<1>7. ASSUME NEW t \in Team, Contract(t)
      PROVE  StopInv'
  <2>1. /\ stage = "contract" /\ turn = t /\ stage' = "act" /\ turn' = t
        /\ UNCHANGED <<phase, goal, restart, remote>>
    BY <1>7 DEF Contract, Goto, match
  <2>2. lastTouch' \in Team
    BY <1>7 DEF Contract, BufferedStrike, Struck, Launched, NotLaunched, ball, StopInv, Staging
  <2> QED
    BY <2>1, <2>2, PlayKeepsStops DEF Stage, StopInv, Staging
<1>8. ASSUME NEW t \in Team, Act(t)
      PROVE  StopInv'
  <2>1. stage = "act" /\ turn = t /\ Acted(t)
    BY <1>8 DEF Act, KeepersTurn, PressPass, HoldPass, LongBall, Charge, Shoot, FirstTime, Tackle,
                Watch, Turn, OnBall, Free, Defending
  <2>2. lastTouch' = lastTouch \/ lastTouch' = t
    BY <1>8 DEF Act, KeepersTurn, PressPass, HoldPass, LongBall, Charge, Shoot, FirstTime, Tackle,
                Watch, Strikes, Struck, Passed, Lofted, Crossed, Launched, NotLaunched, ball
  <2>3. /\ UNCHANGED <<phase, goal, restart, remote>> /\ stage' \in {"contract", "move"}
        /\ turn' \in Team /\ (stage' = "contract" /\ turn' = 1 => remote')
    BY <2>1 DEF Acted, Goto, match, Team
  <2> QED
    BY <2>1, <2>2, <2>3, PlayKeepsStops DEF Stage, StopInv, Staging
<1>9. CASE Roll
  BY <1>9, PlayKeepsStops DEF Roll, Goto, Stage, Team, match, BallOnly, StopInv, Staging
<1>10. CASE Goal
  <2>1. /\ phase' = "goal" /\ restart' = None /\ stage' = "update" /\ turn' = 0
        /\ UNCHANGED <<lastTouch, remote>>
    BY <1>10 DEF Goal, Goto, BallOnly
  <2>2. goal' \in [by : Team, time : Nat] /\ goal' # None
    BY <1>10, NoneIsNothing DEF Goal
  <2> QED
    BY <2>1, <2>2 DEF StopInv, Staging, RestartTaken, RestartPhase, Stage, Team
<1>11. CASE Out
  <2>1. /\ stage = "move" /\ stage' = "update" /\ turn' \in Team /\ UNCHANGED <<goal, remote>>
    BY <1>11 DEF Out, Goto, BallOnly, Team
  <2>2. goal = None /\ lastTouch \in Team
    BY <2>1 DEF StopInv, Staging, RestartTaken
  <2> DEFINE t == Other(lastTouch)
  <2>3. t \in Team /\ Keeper(t) \in Player /\ Side(Keeper(t)) = t /\ Field(t) \subseteq Player
        /\ \A p \in Field(t) : Side(p) = t
    BY <2>2, Players
  <2>4. \/ \E p \in Field(t), ph \in {"throwin", "corner"} : Placed(ph, t, p)
        \/ Placed("goalkick", t, Keeper(t))
    BY <1>11 DEF Out
  <2> HIDE DEF t
  <2>5. \E p \in Player, ph \in RestartPhase : Side(p) = t /\ Placed(ph, t, p)
    BY <2>3, <2>4 DEF RestartPhase
  <2> QED
    BY <2>1, <2>2, <2>3, <2>5, PlacedKeepsStops
<1>12. CASE Challenges
  <2>1. /\ stage = "challenges" /\ stage' = "collect" /\ turn' = 0
        /\ UNCHANGED <<phase, goal, restart, remote>>
    BY <1>12 DEF Challenges, Goto, match, BallOnly
  <2>2. lastTouch' \in Team
    BY <1>12, Players DEF Challenges, Knocked, Gathered, ball, StopInv, Staging, Team
  <2> QED
    BY <2>1, <2>2, PlayKeepsStops DEF Stage, Team, StopInv, Staging
<1>13. CASE Collect
  <2>1. /\ stage = "collect" /\ stage' = "update" /\ turn' = 0
        /\ UNCHANGED <<phase, goal, restart, remote>>
    BY <1>13 DEF Collect, Goto, match, BallOnly
  <2>2. lastTouch' \in Team
    BY <1>13, Players DEF Collect, Knocked, Gathered, ball, StopInv, Staging
  <2> QED
    BY <2>1, <2>2, PlayKeepsStops DEF Stage, Team, StopInv, Staging
<1>14. CASE ContinueHalf
  <2>1. phase = "halftime" /\ Kickoff(1) /\ UNCHANGED <<goal, stage, turn, remote>>
    BY <1>14 DEF ContinueHalf
  <2>2. goal = None /\ stage = "update" /\ turn \in Team
    BY <2>1 DEF StopInv, Staging, RestartTaken
  <2>3. 1 \in Team /\ Taker(1) \in Player /\ Side(Taker(1)) = 1
    BY Players DEF Team
  <2> QED
    BY <2>1, <2>2, <2>3, PlacedKeepsStops DEF Kickoff, RestartPhase
<1>15. CASE DropPeer
  BY <1>15, PlayKeepsStops DEF DropPeer, match, ball, StopInv, Staging
<1> QED
  BY <1>1, <1>2, <1>3, <1>4, <1>5, <1>6, <1>7, <1>8, <1>9, <1>10, <1>11, <1>12, <1>13, <1>14,
     <1>15 DEF Next, Step

\* A match starts with a kick-off that is set up.
LEMMA InitHasStops ==
  ASSUME Init
  PROVE  StopInv
<1>1. /\ phase = "kickoff" /\ goal = None /\ owner = None /\ lastTouch = 0 /\ remote \in BOOLEAN
      /\ restart = [team |-> 0, taker |-> Taker(0), wait |-> SetupTicks]
      /\ stage = "update" /\ turn = 0
  BY DEF Init
<1>2. 0 \in Team /\ Taker(0) \in Player /\ Side(Taker(0)) = 0
  BY Players DEF Team
<1>3. /\ restart \in [team : Team, taker : Player, wait : Int] /\ restart # None
      /\ restart.team = 0 /\ restart.taker = Taker(0) /\ restart.wait = SetupTicks
  BY <1>1, <1>2, Times, NoneIsNothing
<1>4. SetupTicks \in -IdleTicks .. SetupTicks
  BY Times
<1> QED
  BY <1>1, <1>2, <1>3, <1>4 DEF StopInv, Staging, RestartTaken, RestartPhase, Stage

\* So the stops are in order in every state of a match.
LEMMA SpecHasStops == Spec => []StopInv
<1>1. Init => StopInv
  BY InitHasStops
<1>2. StopInv /\ [Next]_vars => StopInv'
  <2>1. CASE UNCHANGED vars
    BY <2>1 DEF vars, match, ball, StopInv, Staging, RestartTaken
  <2> QED
    BY <2>1, NextKeepsStops
<1> QED
  BY <1>1, <1>2, PTL DEF Spec

\* Play resumes by itself after every stop: for any times of the code, a kick-off, throw-in,
\* corner or goal kick always has a taker of its side, and is waited for no longer than
\* an idle human is given; and a goal is always celebrated.
THEOREM RestartTakenHolds == Spec => []RestartTaken
<1>1. StopInv => RestartTaken
  BY DEF StopInv
<1> QED
  BY <1>1, SpecHasStops, PTL

-----------------------------------------------------------------------------
(***************************************************************************)
(* Presses that stand: the inductive invariant.                            *)
(***************************************************************************)
AnyGesture == [actor : Player, action : {"pass", "shot"}, age : Nat]
AnyStrike == [actor : Player, left : Int]

\* Types of what the humans' buttons have come to.
Pressing ==
  /\ gesture \in [Team -> AnyGesture \cup {None}]
  /\ strike \in [Team -> AnyStrike \cup {None}]
  /\ \A t \in Team : strike[t] # None => strike[t].left <= BufferTicks
  /\ charging \in [Team -> Player \cup {None}]
  /\ control \in [Team -> Player \cup {None}]
  /\ \A t \in Team : Human(t) => control[t] # None
  /\ kept \in [Team -> BOOLEAN] /\ live \in [Team -> BOOLEAN]

\* Side t has had its turn in this tick, and the ball has not moved yet.
HasActed(t) == stage = "move" \/ (stage \in {"contract", "act"} /\ t < turn)

\* The ball has been kicked, and nobody gathers it in this tick.
Kicked == owner = None /\ lock = LockTicks

\* While a side acts, the ball is where its turn began, or has been kicked since.
OnTurn == stage = "act" => owner = carrier \/ Kicked

\* A press that stands is one of the player who has the ball.
KeptOnBall ==
  \A t \in Team : kept[t] =>
    /\ gesture[t] # None /\ phase = "playing"
    /\ gesture[t].actor = owner \/ (Turn(t) /\ gesture[t].actor = carrier)

\* A press that does not stand any more is found to be lost before its side acts: its
\* player does not have the ball, and cannot get it back in this tick.
BrokenOff ==
  \A t \in Team : gesture[t] # None /\ ~kept[t] /\ phase = "playing" /\ Human(t) =>
    /\ owner # gesture[t].actor /\ ~Turn(t)
    /\ HasActed(t) => Kicked
    /\ stage \in {"challenges", "collect"} => lock > 0

\* A shot is charged during its press, or is forgotten at its side's turn.
Charging ==
  \A t \in Team : charging[t] # None /\ gesture[t] = None =>
    /\ stage \in {"contract", "act"} /\ turn <= t /\ Human(t) /\ owner = None
    /\ Turn(t) => carrier = None

\* A strike waits as it was asked for only while play goes on; one from before a stop is
\* too old when play starts again.
Fades ==
  \A t \in Team :
    /\ live[t] => phase = "playing"
    /\ strike[t] # None /\ ~live[t] =>
         /\ phase = "playing" => strike[t].left < 0
         /\ restart # None => strike[t].left < 0 \/ strike[t].left < restart.wait

PressInv == Pressing /\ OnTurn /\ KeptOnBall /\ BrokenOff /\ Charging /\ Fades

\* What a step must not do.
Stands ==
  \A t \in Team : turn = t /\ kick' # kick =>
    /\ kick' = "held" => kept[t]
    /\ kick' = "buffered" => live[t]

\* A player is not null.
LEMMA PlayersAreSomebody == \A p \in Player : p # None
BY NoneIsNothing

\* Nor is a gesture.
LEMMA GesturesAreSomething == \A g \in AnyGesture : g # None
BY NoneIsNothing DEF AnyGesture

\* What Standing says of each side.
LEMMA StandingFacts ==
  ASSUME Standing
  PROVE  /\ kept' \in [Team -> BOOLEAN] /\ live' \in [Team -> BOOLEAN]
         /\ \A t \in Team :
              /\ kept'[t] <=> /\ gesture'[t] # None /\ phase' = "playing"
                              /\ \/ gesture'[t].actor = owner'
                                 \/ stage' = "act" /\ turn' = t /\ gesture'[t].actor = carrier'
                              /\ kept[t] \/ (Turn(t) /\ gesture'[t].age = 0)
              /\ live'[t] <=> strike'[t] # None /\ phase' = "playing" /\ (live[t] \/ Turn(t))
BY DEF Standing

\* A press stands only while its player has the ball: so a step leaves it.
LEMMA StandingKeepsOnBall ==
  ASSUME Standing
  PROVE  KeptOnBall'
BY StandingFacts DEF KeptOnBall, Turn

\* A player that a side selects.
LEMMA ControlledFacts ==
  ASSUME Pressing, NEW t \in Team, NEW p \in Player, Controlled(t, p), remote' = remote
  PROVE  /\ control' \in [Team -> Player \cup {None}]
         /\ \A u \in Team : Human(u)' => control'[u] # None
BY PlayersAreSomebody DEF Pressing, Controlled, Human

\* A tick begins: presses are a tick older, and waiting strikes have a tick less.
LEMMA TickedFacts ==
  ASSUME Pressing, NEW f, Ticked(f)
  PROVE  /\ stage = "update" /\ UNCHANGED <<remote, carrier>>
         /\ gesture' \in [Team -> AnyGesture \cup {None}]
         /\ strike' \in [Team -> AnyStrike \cup {None}]
         /\ \A t \in Team :
              /\ gesture'[t] = None <=> gesture[t] = None
              /\ gesture[t] # None => gesture'[t].actor = gesture[t].actor
              /\ strike'[t] # None => 
                   /\ strike[t] # None /\ strike'[t].left <= BufferTicks
                   /\ IF strike[t].left < 0 THEN strike'[t].left = strike[t].left
                      ELSE strike'[t].left = strike[t].left - 1
<1>1. /\ stage = "update" /\ UNCHANGED <<remote, carrier>>
      /\ gesture' = [t \in Team |-> Aged(t)] /\ strike' = [t \in Team |-> Fading(t)]
  BY DEF Ticked
<1>2. ASSUME NEW t \in Team
      PROVE  /\ Aged(t) \in AnyGesture \cup {None} /\ (Aged(t) = None <=> gesture[t] = None)
             /\ gesture[t] # None => Aged(t).actor = gesture[t].actor
  <2>1. CASE gesture[t] = None \/ gesture[t].age > PassTicks
    BY <2>1 DEF Aged, Pressing
  <2>2. CASE ~(gesture[t] = None \/ gesture[t].age > PassTicks)
    <3>1. Aged(t) = [gesture[t] EXCEPT !.age = gesture[t].age + 1] /\ gesture[t] \in AnyGesture
      BY <2>2 DEF Aged, Pressing
    <3>2. Aged(t) \in AnyGesture /\ Aged(t).actor = gesture[t].actor
      BY <3>1 DEF AnyGesture
    <3> QED
      BY <2>2, <3>2, GesturesAreSomething
  <2> QED
    BY <2>1, <2>2
<1>3. ASSUME NEW t \in Team
      PROVE  /\ Fading(t) \in AnyStrike \cup {None}
             /\ Fading(t) # None =>
                  /\ strike[t] # None /\ Fading(t).left <= BufferTicks
                  /\ IF strike[t].left < 0 THEN Fading(t).left = strike[t].left
                     ELSE Fading(t).left = strike[t].left - 1
  BY <1>3, Times DEF Fading, Pressing, AnyStrike
<1> QED
  BY <1>1, <1>2, <1>3

\* What has to be shown of a step after which play is stopped: nothing but the types,
\* that no shot is being charged without its press, and that strikes are old enough.
LEMMA StopKeepsPresses ==
  ASSUME PressInv, Standing, phase' # "playing", stage' = "update",
         stage \notin {"contract", "act"},
         gesture' \in [Team -> AnyGesture \cup {None}],
         strike' \in [Team -> AnyStrike \cup {None}],
         charging' \in [Team -> Player \cup {None}],
         control' \in [Team -> Player \cup {None}],
         \A t \in Team : Human(t)' => control'[t] # None,
         \A t \in Team : gesture'[t] = None => gesture[t] = None,
         \A t \in Team : charging'[t] \in {charging[t], None},
         \A t \in Team : strike'[t] # None =>
           /\ strike'[t].left <= BufferTicks
           /\ restart' # None => strike'[t].left < 0 \/ strike'[t].left < restart'.wait
  PROVE  PressInv'
<1>1. Pressing'
  BY StandingFacts DEF Pressing
<1>2. OnTurn' /\ BrokenOff'
  BY DEF OnTurn, BrokenOff
<1>3. Charging'
  BY DEF PressInv, Charging
<1>4. Fades'
  BY StandingFacts DEF Fades
<1> QED
  BY <1>1, <1>2, <1>3, <1>4, StandingKeepsOnBall DEF PressInv

\* A restart that is set up comes later than any strike that was waiting.
LEMMA PlacedFacts ==
  ASSUME Pressing, NEW ph, NEW t \in Team, NEW p \in Player, Placed(ph, t, p), remote' = remote
  PROVE  /\ control' \in [Team -> Player \cup {None}]
         /\ \A u \in Team : Human(u)' => control'[u] # None
         /\ charging' \in [Team -> Player \cup {None}]
         /\ \A u \in Team : charging'[u] \in {charging[u], None}
         /\ restart'.wait > BufferTicks
<1>1. restart'.wait = SetupTicks /\ Controlled(t, p) /\ ShotCancelled(0)
  BY DEF Placed
<1> QED
  BY <1>1, Times, ControlledFacts DEF ShotCancelled, Pressing

\* A tick that begins without play, or that ends it.
LEMMA CelebrateKeepsPresses ==
  ASSUME StopInv, PressInv, Celebrate, Standing
  PROVE  PressInv'
<1>1. PICK f \in Frames : Ticked(f)
  BY DEF Celebrate
<1>2. Pressing
  BY DEF PressInv
<1>3. /\ stage = "update" /\ stage' = "update" /\ remote' = remote
      /\ phase = "goal" /\ goal \in [by : Team, time : Nat]
  BY <1>1, <1>2, TickedFacts DEF Celebrate, StopInv, Staging, RestartTaken
<1>4. CASE UNCHANGED <<phase, restart, restartBuf, ball, charging, charge, control, hold>>
  <2>1. restart = None
    BY <1>3 DEF StopInv, RestartTaken, RestartPhase
  <2>2. /\ charging' \in [Team -> Player \cup {None}] /\ control' \in [Team -> Player \cup {None}]
        /\ \A t \in Team : charging'[t] \in {charging[t], None}
        /\ \A t \in Team : Human(t)' => control'[t] # None
    BY <1>2, <1>3, <1>4 DEF Pressing, Human
  <2> QED
    BY <1>1, <1>2, <1>3, <1>4, <2>1, <2>2, TickedFacts, StopKeepsPresses
<1>5. CASE Kickoff(Other(goal.by))
  <2> DEFINE t == Other(goal.by)
  <2>1. t \in Team /\ Taker(t) \in Player
    BY <1>3, Players
  <2>2. Placed("kickoff", t, Taker(t)) /\ phase' = "kickoff"
    BY <1>5 DEF Kickoff, Placed
  <2> HIDE DEF t
  <2>3. /\ control' \in [Team -> Player \cup {None}]
        /\ \A u \in Team : Human(u)' => control'[u] # None
        /\ charging' \in [Team -> Player \cup {None}]
        /\ \A u \in Team : charging'[u] \in {charging[u], None}
        /\ restart'.wait > BufferTicks /\ restart'.wait \in Int
    BY <1>2, <1>3, <2>1, <2>2, PlacedFacts, Times DEF Placed
  <2>4. \A u \in Team : strike'[u] # None =>
          strike'[u].left <= BufferTicks /\ strike'[u].left < restart'.wait
    BY <1>1, <1>2, <2>3, TickedFacts, Times DEF AnyStrike
  <2> QED
    BY <1>1, <1>2, <1>3, <2>2, <2>3, <2>4, TickedFacts, StopKeepsPresses
<1> QED
  BY <1>4, <1>5 DEF Celebrate

\* While a restart is set up, a waiting strike gets older as fast as the set-up does.
LEMMA SetUpKeepsPresses ==
  ASSUME StopInv, PressInv, SetUp, Standing
  PROVE  PressInv'
<1>1. PICK f \in Frames : Ticked(f)
  BY DEF SetUp
<1>2. Pressing
  BY DEF PressInv
<1>3. /\ stage = "update" /\ stage' = "update" /\ remote' = remote
      /\ phase' = phase /\ phase # "playing" /\ UNCHANGED <<charging, control>>
      /\ restart # None /\ restart' = [restart EXCEPT !.wait = restart.wait - 1]
  BY <1>1, <1>2, TickedFacts DEF SetUp, RestartPhase
<1>4. restart \in [team : Team, taker : Player, wait : Int]
  BY <1>3 DEF StopInv, Staging
<1>5. restart'.wait = restart.wait - 1 /\ restart.wait \in Int
  BY <1>3, <1>4
<1>6. /\ charging' \in [Team -> Player \cup {None}] /\ control' \in [Team -> Player \cup {None}]
      /\ \A t \in Team : charging'[t] \in {charging[t], None}
      /\ \A t \in Team : Human(t)' => control'[t] # None
  BY <1>2, <1>3 DEF Pressing, Human
<1>7. ASSUME NEW t \in Team, strike'[t] # None
      PROVE  strike'[t].left <= BufferTicks
             /\ (strike'[t].left < 0 \/ strike'[t].left < restart'.wait)
  <2>1. /\ strike[t] # None /\ strike'[t].left <= BufferTicks
        /\ IF strike[t].left < 0 THEN strike'[t].left = strike[t].left
           ELSE strike'[t].left = strike[t].left - 1
    BY <1>1, <1>2, <1>7, TickedFacts
  <2>2. strike[t].left \in Int
    BY <1>2, <2>1 DEF Pressing, AnyStrike
  <2>3. ~live[t]
    BY <1>3 DEF PressInv, Fades
  <2>4. strike[t].left < 0 \/ strike[t].left < restart.wait
    BY <1>3, <2>1, <2>3 DEF PressInv, Fades
  <2> QED
    BY <1>5, <2>1, <2>2, <2>4
<1> QED
  BY <1>1, <1>2, <1>3, <1>6, <1>7, TickedFacts, StopKeepsPresses

\* A half ends.
LEMMA EndHalfKeepsPresses ==
  ASSUME StopInv, PressInv, EndHalf, Standing
  PROVE  PressInv'
<1>1. PICK f \in Frames : Ticked(f)
  BY DEF EndHalf
<1>2. Pressing
  BY DEF PressInv
<1>3. /\ stage = "update" /\ stage' = "update" /\ remote' = remote
      /\ phase' # "playing" /\ restart' = None /\ control' = control /\ ShotCancelled(0)
  BY <1>1, <1>2, TickedFacts DEF EndHalf
<1>4. /\ charging' \in [Team -> Player \cup {None}] /\ control' \in [Team -> Player \cup {None}]
      /\ \A t \in Team : charging'[t] \in {charging[t], None}
      /\ \A t \in Team : Human(t)' => control'[t] # None
  BY <1>2, <1>3 DEF Pressing, Human, ShotCancelled
<1> QED
  BY <1>1, <1>2, <1>3, <1>4, TickedFacts, StopKeepsPresses

\* The ball crosses a line.
LEMMA GoalKeepsPresses ==
  ASSUME StopInv, PressInv, Goal, Standing
  PROVE  PressInv'
<1>1. Pressing
  BY DEF PressInv
<1>2. /\ stage = "move" /\ stage' = "update" /\ phase' # "playing" /\ restart' = None
      /\ UNCHANGED <<remote, gesture, strike, control>> /\ ShotCancelled(0)
  BY DEF Goal, BallOnly, Goto
<1>3. /\ charging' \in [Team -> Player \cup {None}] /\ control' \in [Team -> Player \cup {None}]
      /\ \A t \in Team : charging'[t] \in {charging[t], None}
      /\ \A t \in Team : Human(t)' => control'[t] # None
      /\ gesture' \in [Team -> AnyGesture \cup {None}]
      /\ strike' \in [Team -> AnyStrike \cup {None}]
      /\ \A t \in Team : strike'[t] # None => strike'[t].left <= BufferTicks
  BY <1>1, <1>2 DEF Pressing, Human, ShotCancelled
<1> QED
  BY <1>2, <1>3, StopKeepsPresses

\* A restart is set up while gestures and strikes stay as they are.
LEMMA RestartKeepsPresses ==
  ASSUME PressInv, Standing, NEW ph, ph # "playing", NEW t \in Team, NEW p \in Player,
         Placed(ph, t, p), stage' = "update", stage \notin {"contract", "act"},
         UNCHANGED <<remote, gesture, strike>>
  PROVE  PressInv'
<1>1. Pressing
  BY DEF PressInv
<1>2. /\ control' \in [Team -> Player \cup {None}]
      /\ \A u \in Team : Human(u)' => control'[u] # None
      /\ charging' \in [Team -> Player \cup {None}]
      /\ \A u \in Team : charging'[u] \in {charging[u], None}
      /\ restart'.wait > BufferTicks /\ restart'.wait \in Int /\ phase' # "playing"
  BY <1>1, PlacedFacts, Times DEF Placed
<1>3. \A u \in Team : strike'[u] # None =>
        strike'[u].left <= BufferTicks /\ strike'[u].left < restart'.wait
  BY <1>1, <1>2, Times DEF Pressing, AnyStrike
<1>4. gesture' \in [Team -> AnyGesture \cup {None}] /\ strike' \in [Team -> AnyStrike \cup {None}]
  BY <1>1 DEF Pressing
<1> QED
  BY <1>2, <1>3, <1>4, StopKeepsPresses

\* The ball goes out.
LEMMA OutKeepsPresses ==
  ASSUME StopInv, PressInv, Out, Standing
  PROVE  PressInv'
<1>1. /\ stage = "move" /\ stage' = "update" /\ UNCHANGED <<remote, gesture, strike>>
      /\ lastTouch \in Team
  BY DEF Out, Goto, BallOnly, StopInv, Staging
<1> DEFINE t == Other(lastTouch)
<1>2. t \in Team /\ Keeper(t) \in Player /\ Field(t) \subseteq Player
  BY <1>1, Players
<1>3. \/ \E p \in Field(t), ph \in {"throwin", "corner"} : Placed(ph, t, p)
      \/ Placed("goalkick", t, Keeper(t))
  BY DEF Out
<1> HIDE DEF t
<1>4. PICK p \in Player, ph \in RestartPhase : Placed(ph, t, p)
  BY <1>2, <1>3 DEF RestartPhase
<1>5. ph # "playing"
  BY DEF RestartPhase
<1> QED
  BY <1>1, <1>2, <1>4, <1>5, RestartKeepsPresses

\* The second half begins.
LEMMA ContinueKeepsPresses ==
  ASSUME StopInv, PressInv, ContinueHalf, Standing
  PROVE  PressInv'
<1>1. /\ stage = "update" /\ stage' = "update" /\ UNCHANGED <<remote, gesture, strike>>
      /\ Placed("kickoff", 1, Taker(1))
  BY DEF ContinueHalf, Kickoff, StopInv, Staging
<1>2. 1 \in Team /\ Taker(1) \in Player
  BY Players DEF Team
<1> QED
  BY <1>1, <1>2, RestartKeepsPresses

\* A restart is taken: what was pressed before the whistle is lost, or too old.
LEMMA TakeRestartKeepsPresses ==
  ASSUME StopInv, PressInv, TakeRestart, Standing
  PROVE  PressInv'
<1>1. PICK f \in Frames : 
        /\ Ticked(f) /\ restart.wait - 1 <= 0 /\ owner' = None
        /\ \E p \in HandedTo(restart, Human(restart.team)
              /\ (Of(f, restart.team).pass.hit \/ (restartBuf # None /\ restartBuf.pass))) :
             Controlled(restart.team, p)
  BY DEF TakeRestart
<1>2. Pressing
  BY DEF PressInv
<1>3. /\ stage = "update" /\ stage' = "update" /\ remote' = remote /\ charging' = charging
      /\ phase # "playing" /\ restart # None /\ restart' = None
  BY <1>1, <1>2, TickedFacts DEF TakeRestart, RestartPhase
<1>4. restart \in [team : Team, taker : Player, wait : Int]
  BY <1>3 DEF StopInv, Staging
<1>5. control' \in [Team -> Player \cup {None}] /\ \A u \in Team : Human(u)' => control'[u] # None
  <2>1. Field(restart.team) \subseteq Player /\ restart.team \in Team /\ restart.taker \in Player
    BY <1>4, Players
  <2>2. \A short : HandedTo(restart, short) \subseteq Player
    BY <2>1 DEF HandedTo
  <2>3. PICK p \in Player : Controlled(restart.team, p)
    BY <1>1, <2>2
  <2> QED
    BY <1>2, <1>3, <2>1, <2>3, ControlledFacts
<1>6. Pressing'
  BY <1>1, <1>2, <1>3, <1>5, TickedFacts, StandingFacts DEF Pressing
<1>7. OnTurn'
  BY <1>3 DEF OnTurn
<1>8. BrokenOff'
  <2>1. \A t \in Team : gesture'[t] # None => gesture'[t].actor # None
    BY <1>6, PlayersAreSomebody DEF Pressing, AnyGesture
  <2> QED
    BY <1>1, <1>3, <2>1 DEF BrokenOff, Turn, HasActed
<1>9. Charging'
  BY <1>1, <1>2, <1>3, TickedFacts DEF PressInv, Charging
<1>10. Fades'
  <2>1. ASSUME NEW t \in Team, strike'[t] # None
        PROVE  strike'[t].left < 0
    <3>1. /\ strike[t] # None
          /\ IF strike[t].left < 0 THEN strike'[t].left = strike[t].left
             ELSE strike'[t].left = strike[t].left - 1
      BY <1>1, <1>2, <2>1, TickedFacts
    <3>2. strike[t].left \in Int /\ restart.wait \in Int /\ restart.wait - 1 <= 0
      BY <1>1, <1>2, <1>4, <3>1 DEF Pressing, AnyStrike
    <3>3. strike[t].left < 0 \/ strike[t].left < restart.wait
      BY <1>3, <3>1 DEF PressInv, Fades
    <3> QED
      BY <3>1, <3>2, <3>3
  <2> QED
    BY <1>3, <2>1, StandingFacts DEF Fades
<1> QED
  BY <1>6, <1>7, <1>8, <1>9, <1>10, StandingKeepsOnBall DEF PressInv

\* A tick of play begins.
LEMMA PlayKeepsPresses ==
  ASSUME StopInv, PressInv, Play, Standing
  PROVE  PressInv'
<1>1. PICK f \in Frames : Ticked(f)
  BY DEF Play
<1>2. Pressing
  BY DEF PressInv
<1>3. /\ stage = "update" /\ stage' = "updateAI" /\ phase = "playing" /\ phase' = "playing"
      /\ UNCHANGED <<remote, charging, restart, owner>>
      /\ \E p \in Selected(0), q \in Selected(1) :
           control' = [t \in Team |-> IF t = 0 THEN p ELSE q]
  BY <1>1, <1>2, TickedFacts DEF Play, Goto, ball
<1>4. control' \in [Team -> Player \cup {None}] /\ \A u \in Team : Human(u)' => control'[u] # None
  <2>1. \A t \in Team : /\ Selected(t) \subseteq Player \cup {None}
                        /\ Human(t) => None \notin Selected(t)
    BY <1>2, Players, PlayersAreSomebody DEF Selected, Pressing
  <2>2. 0 \in Team /\ 1 \in Team /\ \A t \in Team : t = 0 \/ t = 1
    BY DEF Team
  <2> QED
    BY <1>3, <2>1, <2>2 DEF Human
<1>5. Pressing'
  BY <1>1, <1>2, <1>3, <1>4, TickedFacts, StandingFacts DEF Pressing
<1>6. OnTurn'
  BY <1>3 DEF OnTurn
<1>7. BrokenOff'
  <2>1. ASSUME NEW t \in Team, gesture'[t] # None, ~kept'[t], Human(t)
        PROVE  owner # gesture'[t].actor
    <3>1. gesture[t] # None /\ gesture'[t].actor = gesture[t].actor
      BY <1>1, <1>2, <2>1, TickedFacts
    <3>2. ~kept[t] \/ gesture'[t].actor # owner
      BY <1>3, <2>1, StandingFacts
    <3> QED
      BY <1>3, <2>1, <3>1, <3>2 DEF PressInv, BrokenOff
  <2> QED
    BY <1>3, <2>1 DEF BrokenOff, Turn, HasActed, Human
<1>8. Charging'
  BY <1>1, <1>2, <1>3, TickedFacts DEF PressInv, Charging
<1>9. Fades'
  <2>1. ASSUME NEW t \in Team, strike'[t] # None, ~live'[t]
        PROVE  strike'[t].left < 0
    <3>1. strike[t] # None /\ (strike[t].left < 0 => strike'[t].left = strike[t].left)
      BY <1>1, <1>2, <2>1, TickedFacts
    <3>2. ~live[t]
      BY <1>3, <2>1, StandingFacts
    <3> QED
      BY <1>3, <3>1, <3>2 DEF PressInv, Fades
  <2>2. restart = None
    BY <1>3 DEF StopInv, RestartTaken, RestartPhase
  <2> QED
    BY <1>3, <2>1, <2>2, StandingFacts DEF Fades
<1> QED
  BY <1>5, <1>6, <1>7, <1>8, <1>9, StandingKeepsOnBall DEF PressInv

\* The computer takes over.
LEMMA DropPeerKeepsPresses ==
  ASSUME StopInv, PressInv, DropPeer, Standing
  PROVE  PressInv'
<1>1. /\ stage = "update" /\ remote' = FALSE /\ control' = [control EXCEPT ![1] = None]
      /\ charging' = [charging EXCEPT ![1] = None]
      /\ UNCHANGED <<phase, restart, owner, gesture, strike, stage, turn>>
  BY DEF DropPeer, ShotCancelled, match, ball
<1>2. Pressing'
  BY <1>1, StandingFacts DEF PressInv, Pressing, Human, Team
<1>3. OnTurn'
  BY <1>1 DEF OnTurn
<1>4. BrokenOff'
  BY <1>1, StandingFacts DEF PressInv, BrokenOff, KeptOnBall, Turn, HasActed, Human
<1>5. Charging'
  BY <1>1 DEF PressInv, Pressing, Charging
<1>6. Fades'
  BY <1>1, StandingFacts DEF PressInv, Fades
<1> QED
  BY <1>2, <1>3, <1>4, <1>5, <1>6, StandingKeepsOnBall DEF PressInv

\* Within a tick play goes on, and strikes only wait.
LEMMA WaitingFades ==
  ASSUME PressInv, Standing, UNCHANGED <<phase, restart>>,
         \A t \in Team : strike'[t] = strike[t] \/ strike'[t] = None \/ Turn(t)
  PROVE  Fades' \/ phase # "playing"
BY StandingFacts DEF PressInv, Fades

\* The keepers and the computer's players have their turn.
LEMMA UpdateAIKeepsPresses ==
  ASSUME StopInv, PressInv, UpdateAI, Standing
  PROVE  PressInv'
<1>1. /\ stage = "updateAI" /\ stage' = "contract" /\ turn' = 0 /\ phase = "playing"
      /\ UNCHANGED <<phase, restart, remote, control, charging, strike>>
  BY DEF UpdateAI, Goto, match, StopInv, Staging
<1>2. Pressing
  BY DEF PressInv
<1>3. /\ owner' = owner \/ owner' = None
      /\ \A t \in Team : \/ gesture'[t] = gesture[t]
                         \/ gesture'[t] = None /\ owner' = None /\ Human(t)
      /\ gesture' \in [Team -> AnyGesture \cup {None}]
  BY <1>2 DEF UpdateAI, KeeperHolds, KeeperReleases, Distributed, ComputerPlays, NobodyPlays,
              Launched, NotLaunched, ball, ActionCancelled, Pressing
<1>4. Pressing'
  BY <1>1, <1>2, <1>3, StandingFacts DEF Pressing, Human
<1>5. OnTurn'
  BY <1>1 DEF OnTurn
<1>6. BrokenOff'
  <2>1. ASSUME NEW t \in Team, gesture'[t] # None, ~kept'[t], Human(t)
        PROVE  owner' # gesture'[t].actor
    <3>1. gesture'[t] = gesture[t] /\ gesture[t].actor # None
      BY <1>2, <1>3, <2>1, PlayersAreSomebody DEF Pressing, AnyGesture
    <3>2. ~kept[t] \/ gesture'[t].actor # owner'
      BY <1>1, <2>1, StandingFacts
    <3> QED
      BY <1>1, <1>3, <2>1, <3>1, <3>2 DEF PressInv, BrokenOff
  <2> QED
    BY <1>1, <2>1 DEF BrokenOff, Turn, HasActed, Human, Team
<1>7. Charging'
  <2>1. ASSUME NEW t \in Team, charging'[t] # None, gesture'[t] = None
        PROVE  owner' = None /\ Human(t)
    BY <1>1, <1>3, <2>1 DEF PressInv, Charging
  <2> QED
    BY <1>1, <2>1 DEF Charging, Turn, Human, Team
<1>8. Fades'
  BY <1>1, WaitingFades
<1> QED
  BY <1>4, <1>5, <1>6, <1>7, <1>8, StandingKeepsOnBall DEF PressInv

\* What side t does to the ball, and what is left of the presses, when its turn begins.
LEMMA ContractFacts ==
  ASSUME StopInv, PressInv, NEW t \in Team, Contract(t)
  PROVE  /\ stage = "contract" /\ turn = t /\ stage' = "act" /\ turn' = t /\ phase = "playing"
         /\ UNCHANGED <<phase, restart, remote, control>> /\ carrier' = owner /\ Human(t)
         /\ UNCHANGED <<owner, lock>> \/ Kicked'
         /\ owner' = owner \/ owner' = None
         /\ gesture' \in [Team -> AnyGesture \cup {None}]
         /\ charging' \in [Team -> Player \cup {None}]
         /\ \A u \in Team \ {t} : gesture'[u] = gesture[u] /\ charging'[u] = charging[u]
         /\ \/ gesture'[t] = None /\ charging'[t] = None
            \/ /\ gesture'[t] = gesture[t] /\ charging'[t] = charging[t]
               /\ gesture[t] = None \/ owner = gesture[t].actor
         /\ strike' \in [Team -> AnyStrike \cup {None}]
         /\ \A u \in Team : strike'[u] = strike[u] \/ strike'[u] = None
<1>1. /\ stage = "contract" /\ turn = t /\ stage' = "act" /\ turn' = t
      /\ UNCHANGED <<phase, restart, remote, control>> /\ carrier' = owner
      /\ IF Lost(t) THEN ActionCancelled(t) /\ ShotCancelled(t) ELSE UNCHANGED held
      /\ BufferedStrike(t)
  BY DEF Contract, Goto, match
<1>2. phase = "playing" /\ Human(t)
  BY <1>1 DEF StopInv, Staging, Human, Team
<1>3. UNCHANGED <<owner, lock>> \/ Kicked'
  BY <1>1 DEF BufferedStrike, Struck, Launched, NotLaunched, ball, Kicked
<1>4. /\ gesture' \in [Team -> AnyGesture \cup {None}]
      /\ charging' \in [Team -> Player \cup {None}]
      /\ \A u \in Team \ {t} : gesture'[u] = gesture[u] /\ charging'[u] = charging[u]
      /\ \/ gesture'[t] = None /\ charging'[t] = None
         \/ /\ gesture'[t] = gesture[t] /\ charging'[t] = charging[t]
            /\ gesture[t] = None \/ owner = gesture[t].actor
  BY <1>1 DEF Lost, ActionCancelled, ShotCancelled, held, PressInv, Pressing
<1>5. /\ strike' \in [Team -> AnyStrike \cup {None}]
      /\ \A u \in Team : strike'[u] = strike[u] \/ strike'[u] = None
  BY <1>1 DEF BufferedStrike, PressInv, Pressing
<1> QED
  BY <1>1, <1>2, <1>3, <1>4, <1>5 DEF Kicked

\* A side whose player has lost the ball loses its press as its turn begins.
LEMMA ContractKeepsPresses ==
  ASSUME StopInv, PressInv, NEW t \in Team, Contract(t), Standing
  PROVE  PressInv'
<1>1. /\ stage = "contract" /\ turn = t /\ stage' = "act" /\ turn' = t /\ phase = "playing"
      /\ UNCHANGED <<phase, restart, remote, control>> /\ carrier' = owner /\ Human(t)
      /\ UNCHANGED <<owner, lock>> \/ Kicked'
      /\ owner' = owner \/ owner' = None
      /\ gesture' \in [Team -> AnyGesture \cup {None}]
      /\ charging' \in [Team -> Player \cup {None}]
      /\ \A u \in Team \ {t} : gesture'[u] = gesture[u] /\ charging'[u] = charging[u]
      /\ \/ gesture'[t] = None /\ charging'[t] = None
         \/ /\ gesture'[t] = gesture[t] /\ charging'[t] = charging[t]
            /\ gesture[t] = None \/ owner = gesture[t].actor
      /\ strike' \in [Team -> AnyStrike \cup {None}]
      /\ \A u \in Team : strike'[u] = strike[u] \/ strike'[u] = None
  BY ContractFacts
<1>2. Pressing'
  BY <1>1, StandingFacts DEF PressInv, Pressing, Human
<1>3. OnTurn'
  BY <1>1 DEF OnTurn, Kicked
<1>4. BrokenOff'
  <2>1. ASSUME NEW u \in Team \ {t}, gesture'[u] # None, ~kept'[u], Human(u)
        PROVE  /\ owner' # gesture'[u].actor
               /\ u < t => Kicked'
    <3>1. gesture'[u] = gesture[u] /\ gesture[u].actor # None
      BY <1>1, <2>1, PlayersAreSomebody DEF PressInv, Pressing, AnyGesture
    <3>2. ~kept[u] \/ gesture'[u].actor # owner'
      BY <1>1, <2>1, StandingFacts
    <3>3. CASE ~kept[u]
      <4>1. owner # gesture[u].actor /\ (u < t => Kicked)
        BY <1>1, <2>1, <3>1, <3>3 DEF PressInv, BrokenOff, HasActed
      <4> QED
        BY <1>1, <3>1, <4>1 DEF Kicked
    <3>4. CASE kept[u]
      <4>1. gesture[u].actor = owner
        BY <1>1, <3>4 DEF PressInv, KeptOnBall, Turn
      <4> QED
        BY <1>1, <3>1, <3>2, <3>4, <4>1
    <3> QED
      BY <3>3, <3>4
  <2>2. gesture'[t] # None => kept'[t]
    <3>1. gesture'[t] # None => gesture'[t] = gesture[t] /\ owner = gesture[t].actor
      BY <1>1
    <3>2. gesture'[t] # None => kept[t]
      BY <1>1, <3>1 DEF PressInv, BrokenOff
    <3> QED
      BY <1>1, <3>1, <3>2, StandingFacts
  <2> QED
    BY <1>1, <2>1, <2>2 DEF BrokenOff, Turn, HasActed, Human
<1>5. Charging'
  <2>1. ASSUME NEW u \in Team, charging'[u] # None, gesture'[u] = None
        PROVE  turn <= u /\ Human(u) /\ owner = None
    BY <1>1, <2>1 DEF PressInv, Charging
  <2> QED
    BY <1>1, <2>1 DEF Charging, Turn, Human
<1>6. Fades'
  BY <1>1, WaitingFades
<1> QED
  BY <1>2, <1>3, <1>4, <1>5, <1>6, StandingKeepsOnBall DEF PressInv

\* What side t does on its turn: to the ball, to its own press, and to its strike.
LEMMA ActFacts ==
  ASSUME StopInv, PressInv, NEW t \in Team, Act(t)
  PROVE  /\ Turn(t) /\ phase = "playing" /\ UNCHANGED <<phase, restart, remote>> /\ Human(t)
         /\ \/ t = 0 /\ remote /\ stage' = "contract" /\ turn' = 1
            \/ ~(t = 0 /\ remote) /\ stage' = "move" /\ turn' = 0
         /\ UNCHANGED <<owner, lock>> \/ Kicked'
         /\ control' \in [Team -> Player \cup {None}]
         /\ \A u \in Team : Human(u)' => control'[u] # None
         /\ gesture' \in [Team -> AnyGesture \cup {None}]
         /\ charging' \in [Team -> Player \cup {None}]
         /\ \A u \in Team \ {t} : gesture'[u] = gesture[u] /\ charging'[u] = charging[u]
                                  /\ strike'[u] = strike[u]
         /\ \/ gesture'[t] = gesture[t] \/ gesture'[t] = None
            \/ gesture'[t].age = 0 /\ gesture'[t].actor = carrier
         /\ charging'[t] # None => gesture'[t] # None
         /\ strike' \in [Team -> AnyStrike \cup {None}]
         /\ \A u \in Team : strike'[u] # None => strike'[u].left <= BufferTicks
<1>1. Turn(t) /\ Acted(t)
  BY DEF Act, KeepersTurn, PressPass, HoldPass, LongBall, Charge, Shoot, FirstTime, Tackle,
         Watch, OnBall, Free, Defending
<1>2. phase = "playing" /\ Human(t) /\ UNCHANGED <<phase, restart, remote>>
  BY <1>1 DEF StopInv, Staging, Human, Team, Turn, Acted, match
<1>3. \/ t = 0 /\ remote /\ stage' = "contract" /\ turn' = 1
      \/ ~(t = 0 /\ remote) /\ stage' = "move" /\ turn' = 0
  BY <1>1 DEF Acted, Goto
<1>4. UNCHANGED <<owner, lock>> \/ Kicked'
  BY DEF Act, KeepersTurn, PressPass, HoldPass, LongBall, Charge, Shoot, FirstTime, Tackle, Watch,
         Strikes, Struck, Passed, Lofted, Crossed, Launched, NotLaunched, ball, Kicked
<1>5. Pressing
  BY DEF PressInv
<1>6. control[t] \in Player /\ control[t] # None
  BY <1>2, <1>5 DEF Pressing
<1>7. control' \in [Team -> Player \cup {None}] /\ \A u \in Team : Human(u)' => control'[u] # None
  <2>1. control' = control \/ \E p \in Player : Controlled(t, p)
    BY Players DEF Act, KeepersTurn, PressPass, HoldPass, LongBall, Charge, Shoot, FirstTime,
         Tackle, Watch, Lofted, Crossed
  <2>2. CASE control' = control
    BY <1>2, <1>5, <2>2 DEF Pressing, Human
  <2> QED
    BY <1>2, <1>5, <2>1, <2>2, ControlledFacts
<1>8. /\ gesture' \in [Team -> AnyGesture \cup {None}]
      /\ \A u \in Team \ {t} : gesture'[u] = gesture[u]
      /\ \/ gesture'[t] = gesture[t] \/ gesture'[t] = None
         \/ gesture'[t].age = 0 /\ gesture'[t].actor = carrier
  <2>1. \/ gesture' = gesture \/ ActionCancelled(t)
        \/ OnBall(t) /\ \E a \in {"pass", "shot"} : Began(t, control[t], a)
    BY DEF Act, KeepersTurn, PressPass, HoldPass, LongBall, Charge, Shoot, FirstTime,
         Tackle, Watch, Free, held
  <2>2. CASE gesture' = gesture \/ ActionCancelled(t)
    BY <1>5, <2>2 DEF Pressing, ActionCancelled
  <2>3. ASSUME OnBall(t), NEW a \in {"pass", "shot"}, Began(t, control[t], a)
        PROVE  /\ gesture' \in [Team -> AnyGesture \cup {None}]
               /\ \A u \in Team \ {t} : gesture'[u] = gesture[u]
               /\ gesture'[t].age = 0 /\ gesture'[t].actor = carrier
    <3> DEFINE g == [actor |-> control[t], action |-> a, age |-> 0]
    <3>1. g \in AnyGesture /\ g.age = 0 /\ g.actor = carrier
      BY <1>6, <2>3 DEF AnyGesture, OnBall
    <3>2. gesture' = [gesture EXCEPT ![t] = g]
      BY <2>3 DEF Began
    <3> HIDE DEF g
    <3> QED
      BY <1>5, <3>1, <3>2 DEF Pressing
  <2> QED
    BY <2>1, <2>2, <2>3
<1>9. /\ charging' \in [Team -> Player \cup {None}]
      /\ \A u \in Team \ {t} : charging'[u] = charging[u]
      /\ charging'[t] # None => gesture'[t] # None
  <2>1. CASE ShotCancelled(t)
    BY <1>5, <2>1 DEF Pressing, ShotCancelled
  <2>2. CASE HoldPass(t) /\ UNCHANGED held
    BY <1>5, <2>2 DEF Pressing, HoldPass, PassOpen, held
  <2>3. CASE Charge(t)
    <3>1. CASE In(t).shoot.hit
      <4> DEFINE g == [actor |-> control[t], action |-> "shot", age |-> 0]
      <4>1. g # None
        BY <1>6, GesturesAreSomething DEF AnyGesture
      <4>2. gesture' = [gesture EXCEPT ![t] = g] /\ charging' = [charging EXCEPT ![t] = control[t]]
        BY <2>3, <3>1 DEF Charge, Began
      <4> HIDE DEF g
      <4> QED
        BY <1>5, <1>6, <4>1, <4>2 DEF Pressing
    <3>2. CASE ~In(t).shoot.hit
      <4>1. gesture' = gesture /\ charging' = charging /\ carrier = control[t]
        BY <2>3, <3>2 DEF Charge, Free, OnBall
      <4>2. gesture[t] = None => charging[t] = None
        BY <1>1, <1>6, <4>1 DEF PressInv, Charging
      <4> QED
        BY <1>5, <4>1, <4>2 DEF Pressing
    <3> QED
      BY <3>1, <3>2
  <2> QED
    BY <2>1, <2>2, <2>3 DEF Act, KeepersTurn, PressPass, HoldPass, LongBall, Shoot, FirstTime,
         Tackle, Watch, Defending
<1>10. /\ strike' \in [Team -> AnyStrike \cup {None}]
       /\ \A u \in Team \ {t} : strike'[u] = strike[u]
       /\ \A u \in Team : strike'[u] # None => strike'[u].left <= BufferTicks
  <2> DEFINE s == [actor |-> control[t], left |-> BufferTicks]
  <2>1. strike' = strike \/ strike' = [strike EXCEPT ![t] = s]
    BY DEF Act, KeepersTurn, PressPass, HoldPass, LongBall, Charge, Shoot, FirstTime, Tackle,
         Watch, Strikes
  <2>2. s \in AnyStrike /\ s.left = BufferTicks /\ BufferTicks \in Int
    BY <1>6, Times DEF AnyStrike
  <2> HIDE DEF s
  <2> QED
    BY <1>5, <2>1, <2>2 DEF Pressing
<1> QED
  BY <1>1, <1>2, <1>3, <1>4, <1>7, <1>8, <1>9, <1>10

\* After a side's turn its press stands, unless the ball has been kicked.
LEMMA ActKeepsPresses ==
  ASSUME StopInv, PressInv, NEW t \in Team, Act(t), Standing
  PROVE  PressInv'
<1>1. /\ Turn(t) /\ phase = "playing" /\ UNCHANGED <<phase, restart, remote>> /\ Human(t)
      /\ \/ t = 0 /\ remote /\ stage' = "contract" /\ turn' = 1
         \/ ~(t = 0 /\ remote) /\ stage' = "move" /\ turn' = 0
      /\ UNCHANGED <<owner, lock>> \/ Kicked'
      /\ control' \in [Team -> Player \cup {None}]
      /\ \A u \in Team : Human(u)' => control'[u] # None
      /\ gesture' \in [Team -> AnyGesture \cup {None}]
      /\ charging' \in [Team -> Player \cup {None}]
      /\ \A u \in Team \ {t} : gesture'[u] = gesture[u] /\ charging'[u] = charging[u]
                               /\ strike'[u] = strike[u]
      /\ \/ gesture'[t] = gesture[t] \/ gesture'[t] = None
         \/ gesture'[t].age = 0 /\ gesture'[t].actor = carrier
      /\ charging'[t] # None => gesture'[t] # None
      /\ strike' \in [Team -> AnyStrike \cup {None}]
      /\ \A u \in Team : strike'[u] # None => strike'[u].left <= BufferTicks
  BY ActFacts
<1>2. Pressing'
  BY <1>1, StandingFacts DEF Pressing
<1>3. OnTurn'
  BY <1>1 DEF OnTurn
<1>4. BrokenOff'
  <2>1. ASSUME NEW u \in Team, gesture'[u] # None, ~kept'[u], Human(u)
        PROVE  /\ owner' # gesture'[u].actor
               /\ (u = t \/ u < t \/ HasActed(u)) => Kicked'
    <3>1. gesture'[u].actor # None
      BY <1>1, <2>1, PlayersAreSomebody DEF AnyGesture
    <3>2. ~(/\ gesture'[u].actor = owner'
            /\ kept[u] \/ (Turn(u) /\ gesture'[u].age = 0))
      BY <1>1, <2>1, StandingFacts
    <3>3. CASE Kicked'
      BY <3>1, <3>3 DEF Kicked
    <3>4. CASE UNCHANGED <<owner, lock>> /\ u # t
      <4>1. gesture'[u] = gesture[u] /\ ~Turn(u) /\ stage = "act"
        BY <1>1, <3>4 DEF Turn
      <4>2. ~kept[u]
        BY <3>2, <3>4, <4>1 DEF PressInv, KeptOnBall
      <4>3. owner # gesture[u].actor /\ (HasActed(u) => Kicked)
        BY <1>1, <2>1, <4>1, <4>2 DEF PressInv, BrokenOff
      <4> QED
        BY <1>1, <3>4, <4>1, <4>3 DEF Kicked, HasActed, Turn
    <3>5. CASE UNCHANGED <<owner, lock>> /\ u = t /\ gesture'[t] = gesture[t]
      <4>1. kept[t]
        BY <1>1, <2>1, <3>5 DEF PressInv, BrokenOff
      <4>2. gesture[t].actor = carrier /\ owner # carrier
        BY <3>2, <3>5, <4>1 DEF PressInv, KeptOnBall
      <4>3. Kicked
        BY <1>1, <4>2 DEF PressInv, OnTurn, Turn
      <4> QED
        BY <3>1, <3>5, <4>3 DEF Kicked
    <3>6. CASE UNCHANGED <<owner, lock>> /\ gesture'[t].age = 0 /\ gesture'[t].actor = carrier
               /\ u = t
      <4>1. owner # carrier
        BY <1>1, <3>2, <3>6
      <4>2. Kicked
        BY <1>1, <4>1 DEF PressInv, OnTurn, Turn
      <4> QED
        BY <3>1, <3>6, <4>2 DEF Kicked
    <3> QED
      BY <1>1, <2>1, <3>3, <3>4, <3>5, <3>6
  <2>2. \A u \in Team : HasActed(u)' /\ Human(u) => u = t \/ u < t
    BY <1>1 DEF HasActed, Human, Team
  <2> QED
    BY <1>1, <2>1, <2>2 DEF BrokenOff, Turn, Human
<1>5. Charging'
  <2>1. ASSUME NEW u \in Team, charging'[u] # None, gesture'[u] = None
        PROVE  u # t /\ turn <= u /\ Human(u) /\ owner = None
    BY <1>1, <2>1 DEF PressInv, Charging
  <2> QED
    BY <1>1, <2>1 DEF Charging, Turn, Human, Team, Kicked
<1>6. Fades'
  BY <1>1, WaitingFades
<1> QED
  BY <1>2, <1>3, <1>4, <1>5, <1>6, StandingKeepsOnBall DEF PressInv

\* The parts about the ball: what they leave, and what has to be shown of them.  A side
\* whose press is broken off must not have the ball again, nor be able to get it.
LEMMA BallKeepsPresses ==
  ASSUME StopInv, PressInv, Standing, stage \in {"move", "challenges", "collect"},
         stage' \notin {"contract", "act", "move"},
         UNCHANGED <<phase, restart, remote, gesture, charging, strike>>,
         control' \in [Team -> Player \cup {None}],
         \A u \in Team : Human(u)' => control'[u] # None,
         \A u \in Team : gesture[u] # None /\ ~kept[u] /\ Human(u) =>
           /\ owner' # gesture[u].actor
           /\ stage' \in {"challenges", "collect"} => lock' > 0,
         \A u \in Team : gesture[u] # None /\ gesture[u].actor = owner /\ owner' # owner
           /\ stage' \in {"challenges", "collect"} => lock' > 0
  PROVE  PressInv'
<1>1. phase = "playing"
  BY DEF StopInv, Staging
<1>2. Pressing'
  BY StandingFacts DEF PressInv, Pressing
<1>3. OnTurn'
  BY DEF OnTurn
<1>4. BrokenOff'
  <2>1. ASSUME NEW u \in Team, gesture[u] # None, ~kept'[u], Human(u)
        PROVE  owner' # gesture[u].actor /\ (stage' \in {"challenges", "collect"} => lock' > 0)
    <3>1. kept[u] => gesture[u].actor = owner
      BY <2>1 DEF PressInv, KeptOnBall, Turn
    <3>2. kept[u] => gesture[u].actor # owner'
      BY <1>1, <2>1, StandingFacts
    <3> QED
      BY <2>1, <3>1, <3>2
  <2> QED
    BY <2>1 DEF BrokenOff, Turn, HasActed, Human
<1>5. Charging'
  BY DEF PressInv, Charging
<1>6. Fades'
  BY <1>1, WaitingFades
<1> QED
  BY <1>2, <1>3, <1>4, <1>5, <1>6, StandingKeepsOnBall DEF PressInv

\* The ball rolls, or runs away from a dribbler.
LEMMA RollKeepsPresses ==
  ASSUME StopInv, PressInv, Roll, Standing
  PROVE  PressInv'
<1>1. /\ stage = "move" /\ stage' = "challenges"
      /\ UNCHANGED <<phase, restart, remote, gesture, charging, strike, control>>
      /\ \/ owner' = owner /\ lock' = Fewer(lock)
         \/ owner' = None /\ lock' = LockTicks
  BY DEF Roll, Goto, match, BallOnly
<1>2. control' \in [Team -> Player \cup {None}] /\ \A u \in Team : Human(u)' => control'[u] # None
  BY <1>1 DEF PressInv, Pressing, Human
<1>3. ASSUME NEW u \in Team, gesture[u] # None, ~kept[u], Human(u)
      PROVE  owner' # gesture[u].actor /\ lock' > 0
  <2>1. owner = None /\ lock = LockTicks /\ gesture[u].actor # None
    BY <1>1, <1>3, PlayersAreSomebody
       DEF StopInv, Staging, PressInv, Pressing, AnyGesture, BrokenOff, HasActed, Kicked
  <2> QED
    BY <1>1, <2>1, Times DEF Fewer
<1>4. owner' # owner => lock' > 0
  BY <1>1, Times
<1> QED
  BY <1>1, <1>2, <1>3, <1>4, BallKeepsPresses

\* Somebody knocks the ball away, or gathers it.
LEMMA ChallengesKeepPresses ==
  ASSUME StopInv, PressInv, Challenges, Standing
  PROVE  PressInv'
<1>1. /\ stage = "challenges" /\ stage' = "collect"
      /\ UNCHANGED <<phase, restart, remote, gesture, charging, strike>>
  BY DEF Challenges, Goto, match, BallOnly
<1>2. Pressing
  BY DEF PressInv
<1>3. /\ \/ UNCHANGED <<owner, lock>>
         \/ lock = 0 /\ (owner # None => lock' = LockTicks)
      /\ \/ control' = control
         \/ \E p \in Player : Controlled(Side(p), p)
         \/ \E p \in Player, q \in Player \cup {None} :
              control' = [control EXCEPT ![0] = p, ![1] = IF q # None /\ Human(1) THEN q ELSE @]
  BY Players, PlayersAreSomebody DEF Challenges, ball, Knocked, Gathered, Team
<1>4. control' \in [Team -> Player \cup {None}] /\ \A u \in Team : Human(u)' => control'[u] # None
  <2>1. CASE control' = control
    BY <1>1, <1>2, <2>1 DEF Pressing, Human
  <2>2. CASE \E p \in Player : Controlled(Side(p), p)
    BY <1>1, <1>2, <2>2, Players, ControlledFacts
  <2>3. ASSUME NEW p \in Player, NEW q \in Player \cup {None},
               control' = [control EXCEPT ![0] = p, ![1] = IF q # None /\ Human(1) THEN q ELSE @]
        PROVE  /\ control' \in [Team -> Player \cup {None}]
               /\ \A u \in Team : Human(u)' => control'[u] # None
    BY <1>1, <1>2, <2>3, PlayersAreSomebody DEF Pressing, Human, Team
  <2> QED
    BY <1>3, <2>1, <2>2, <2>3
<1>5. ASSUME NEW u \in Team, gesture[u] # None, ~kept[u], Human(u)
      PROVE  owner' # gesture[u].actor /\ lock' > 0
  BY <1>1, <1>3, <1>5 DEF StopInv, Staging, PressInv, BrokenOff
<1>6. ASSUME NEW u \in Team, gesture[u] # None, gesture[u].actor = owner, owner' # owner
      PROVE  lock' > 0
  BY <1>2, <1>3, <1>6, Times, PlayersAreSomebody DEF Pressing, AnyGesture
<1> QED
  BY <1>1, <1>4, <1>5, <1>6, BallKeepsPresses

\* A keeper or a player stops the ball.
LEMMA CollectKeepsPresses ==
  ASSUME StopInv, PressInv, Collect, Standing
  PROVE  PressInv'
<1>1. /\ stage = "collect" /\ stage' = "update"
      /\ UNCHANGED <<phase, restart, remote, gesture, charging, strike>>
      /\ owner' = owner \/ lock = 0
  BY DEF Collect, Goto, match, BallOnly, ball
<1>2. control' \in [Team -> Player \cup {None}] /\ \A u \in Team : Human(u)' => control'[u] # None
  <2>1. control' = control \/ \E p \in Player : Controlled(Side(p), p)
    BY Players DEF Collect, Gathered
  <2>2. CASE control' = control
    BY <1>1, <2>2 DEF PressInv, Pressing, Human
  <2>3. CASE \E p \in Player : Controlled(Side(p), p)
    BY <1>1, <2>3, Players, ControlledFacts DEF PressInv
  <2> QED
    BY <2>1, <2>2, <2>3
<1>3. ASSUME NEW u \in Team, gesture[u] # None, ~kept[u], Human(u)
      PROVE  owner' # gesture[u].actor
  BY <1>1, <1>3 DEF StopInv, Staging, PressInv, BrokenOff
<1> QED
  BY <1>1, <1>2, <1>3, BallKeepsPresses

\* Every step keeps the presses in order.
LEMMA NextKeepsPresses ==
  ASSUME StopInv, PressInv, Next
  PROVE  PressInv'
<1>1. Standing
  BY DEF Next
<1>2. CASE Celebrate \/ SetUp \/ TakeRestart \/ EndHalf
  BY <1>1, <1>2, CelebrateKeepsPresses, SetUpKeepsPresses, TakeRestartKeepsPresses,
     EndHalfKeepsPresses
<1>3. CASE Play \/ UpdateAI
  BY <1>1, <1>3, PlayKeepsPresses, UpdateAIKeepsPresses
<1>4. CASE \E t \in Team : Contract(t) \/ Act(t)
  BY <1>1, <1>4, ContractKeepsPresses, ActKeepsPresses
<1>5. CASE Roll \/ Goal \/ Out \/ Challenges \/ Collect
  BY <1>1, <1>5, RollKeepsPresses, GoalKeepsPresses, OutKeepsPresses, ChallengesKeepPresses,
     CollectKeepsPresses
<1>6. CASE ContinueHalf \/ DropPeer
  BY <1>1, <1>6, ContinueKeepsPresses, DropPeerKeepsPresses
<1> QED
  BY <1>2, <1>3, <1>4, <1>5, <1>6 DEF Next, Step

\* Nobody has pressed anything when a match starts.
LEMMA InitHasPresses ==
  ASSUME Init
  PROVE  PressInv
<1>1. Pressing
  BY Players, PlayersAreSomebody DEF Init, Pressing, Human, Team
<1>2. OnTurn /\ KeptOnBall /\ BrokenOff /\ Charging /\ Fades
  BY DEF Init, OnTurn, KeptOnBall, BrokenOff, Charging, Fades
<1> QED
  BY <1>1, <1>2 DEF PressInv

\* Only two parts of a tick kick the ball for an earlier press.
LEMMA KickFacts ==
  ASSUME Next, kick' # kick, kick' \in {"held", "buffered"}
  PROVE  \E t \in Team :
           \/ kick' = "buffered" /\ Contract(t) /\ strike[t] # None /\ ~Stale(t)
           \/ kick' = "held" /\ ((HoldPass(t) /\ PassOpen(t)) \/ Shoot(t))
<1>1. None \notin {"held", "buffered"}
  BY NoneIsNothing DEF Why
<1>2. ~(\/ Celebrate \/ SetUp \/ TakeRestart \/ EndHalf \/ Play)
  BY <1>1 DEF Celebrate, SetUp, TakeRestart, EndHalf, Play, Ticked
<1>3. ~UpdateAI
  BY DEF UpdateAI, KeeperHolds, KeeperReleases, Distributed, ComputerPlays, NobodyPlays, Launched,
         NotLaunched
<1>4. ~(Roll \/ Goal \/ Out \/ Challenges \/ Collect \/ ContinueHalf \/ DropPeer)
  BY DEF Roll, Goal, Out, Challenges, Collect, ContinueHalf, DropPeer, BallOnly
<1>5. PICK t \in Team : Contract(t) \/ Act(t)
  BY <1>2, <1>3, <1>4 DEF Next, Step
<1>6. CASE Contract(t)
  BY <1>6 DEF Contract, BufferedStrike, Struck, Launched, NotLaunched
<1>7. CASE Act(t)
  <2>1. HoldPass(t) \/ Shoot(t)
    BY <1>7 DEF Act, KeepersTurn, PressPass, LongBall, Charge, FirstTime, Tackle, Watch, Strikes,
                Struck, Lofted, Crossed, Launched, NotLaunched
  <2>2. kick' = "held"
    BY <2>1 DEF HoldPass, Shoot, Strikes, Struck, Passed, Launched, NotLaunched
  <2> QED
    BY <2>1, <2>2 DEF HoldPass
<1> QED
  BY <1>5, <1>6, <1>7

\* A ball that is kicked for an earlier press is kicked for one that still stands.
LEMMA NextStands ==
  ASSUME StopInv, PressInv, Next
  PROVE  Stands
<1> SUFFICES ASSUME NEW t \in Team, turn = t, kick' # kick, kick' \in {"held", "buffered"}
             PROVE  /\ kick' = "held" => kept[t]
                    /\ kick' = "buffered" => live[t]
  BY DEF Stands
<1>1. PICK u \in Team :
        \/ kick' = "buffered" /\ Contract(u) /\ strike[u] # None /\ ~Stale(u)
        \/ kick' = "held" /\ ((HoldPass(u) /\ PassOpen(u)) \/ Shoot(u))
  BY KickFacts
<1>2. CASE kick' = "buffered"
  <2>1. u = t /\ strike[t] # None /\ ~Stale(t) /\ stage = "contract"
    BY <1>1, <1>2 DEF Contract
  <2>2. phase = "playing"
    BY <2>1 DEF StopInv, Staging
  <2> QED
    BY <1>2, <2>1, <2>2 DEF Stale, PressInv, Fades
<1>3. CASE kick' = "held"
  <2>1. u = t /\ OnBall(t) /\ (PassOpen(t) \/ Shoot(t))
    BY <1>1, <1>3 DEF HoldPass, Shoot, Free, OnBall, Turn
  <2>2. phase = "playing" /\ Human(t) /\ control[t] # None
    BY <2>1 DEF StopInv, Staging, OnBall, Turn, Human, Team, PressInv, Pressing
  <2>3. gesture[t] # None
    <3>1. CASE PassOpen(t)
      BY <3>1 DEF PassOpen
    <3>2. CASE Shoot(t)
      \* A shot that leaves was being charged, so its press is still there.
      <4>1. charging[t] = control[t]
        BY <3>2 DEF Shoot, ShotLeaves
      <4> QED
        BY <2>1, <2>2, <4>1 DEF PressInv, Charging, OnBall
    <3> QED
      BY <2>1, <3>1, <3>2
  <2> QED
    BY <1>3, <2>1, <2>2, <2>3 DEF PressInv, BrokenOff, OnBall
<1> QED
  BY <1>2, <1>3

\* The kick that an earlier press leads to is still the one it was pressed for, whatever
\* the times of the code are, so long as a set-up outlasts a waiting strike.
THEOREM PressStandsHolds == Spec => PressStands
<1>1. Init => PressInv
  BY InitHasPresses
<1>2. StopInv /\ PressInv /\ [Next]_vars => PressInv'
  <2>1. CASE UNCHANGED vars
    BY <2>1 DEF vars, match, ball, held, PressInv, Pressing, OnTurn, KeptOnBall, BrokenOff,
                Charging, Fades, Human, HasActed, Kicked, Turn
  <2> QED
    BY <2>1, NextKeepsPresses
<1>3. StopInv /\ PressInv /\ [Next]_vars => [Stands]_vars
  BY NextStands
<1>4. Spec => [][Stands]_vars
  BY <1>1, <1>2, <1>3, SpecHasStops, PTL DEF Spec
<1> QED
  BY <1>4 DEF PressStands, Stands
=============================================================================
