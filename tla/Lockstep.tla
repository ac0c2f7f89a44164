------------------------------ MODULE Lockstep ------------------------------
(***************************************************************************)
(* A running online match: two peers, each with a LockstepSession          *)
(* (net/session.ts) pumped by a NetDriver (net/driver.ts) under the screen *)
(* loop of main.ts, joined by an ordered byte pipe.                        *)
(*                                                                         *)
(* JavaScript runs each handler to completion, so one render frame, one    *)
(* received packet and one key press are each one action.                  *)
(*                                                                         *)
(* The engine is deterministic: its state is determined by the inputs      *)
(* applied to it so far.  It is represented by that history, "log", and a  *)
(* state hash by the history hashed: two engines agree exactly when their  *)
(* logs do.                                                                *)
(*                                                                         *)
(* Operators whose comment starts with "Slip:" are not part of the model.  *)
(* Each is a definition as a plausible mistake would have it; put in its   *)
(* place, it must break the property PROJECT.json names beside it.         *)
(***************************************************************************)
EXTENDS Integers, Sequences

CONSTANTS
  Input,        \* encoded input frames (codec.ts)
  Idle,         \* the encoded EMPTY_INPUT
  None,         \* an absent map entry
  Delay,        \* input delay in ticks                       (3 in the code)
  HashEvery,    \* HASH_EVERY                                (15 in the code)
  MaxHistory,   \* ticks of history a session keeps         (240 in the code)
  MaxCatchUp,   \* most ticks stepped in one frame            (4 in the code)
  HalfLen,      \* engine updates in one half
  MaxTick,      \* bound: no session steps past this tick
  MaxPauses,    \* bound: how often users open the pause screen in all
  MayQuit,      \* whether users leave the match in this instance
  MayFail       \* whether the link fails in this instance

ASSUME LockstepAssumption ==
  /\ None \notin Input /\ Idle \in Input
  /\ Delay \in Nat \ {0} /\ HashEvery \in Nat \ {0}
  /\ MaxHistory \in Nat /\ MaxHistory >= 2 * HashEvery
  /\ MaxCatchUp \in Nat \ {0} /\ HalfLen \in Nat \ {0}
  /\ MaxTick \in Nat /\ MaxPauses \in Nat
  /\ {MayQuit, MayFail} \subseteq BOOLEAN

VARIABLES
  tick,         \* session: the next tick to step
  local,        \* session: my staged input for each tick
  remote,       \* session: the peer's input for each tick
  snaps,        \* session: the engine snapshot taken before each hash tick
  lastAgree,    \* session: lastAgreeTick
  log,          \* engine: the inputs applied so far
  paused,       \* engine: state.paused
  desynced,     \* driver: desyncs # lastDesyncs, a mismatch not yet reported
  flushed,      \* driver: every tick below this has been sent
  lastHash,     \* driver: lastHashTick
  halfPending,  \* driver: halfContinuePending
  screen,       \* main: which screen is up ("title": the driver is closed;
                \* "city": the world table after the match, with the driver open)
  inbox,        \* packets on their way to each peer, oldest first
  link,         \* "up", or "dead": silently losing everything
  pauses        \* how often users have opened the pause screen

session == <<tick, local, remote, snaps, lastAgree>>
driver == <<desynced, flushed, lastHash, halfPending>>
vars == <<session, log, paused, driver, screen, inbox, link, pauses>>

Host == 0       \* team 0, myTeam of the room's creator
Guest == 1
Peers == {Host, Guest}
Peer(p) == 1 - p

Ticks == 0 .. (MaxTick + Delay)
Screens == {"match", "pause", "half", "full", "city", "title"}

(***************************************************************************)
(* The engine.  An entry of a log is the pair of inputs of one update;     *)
(* continueHalf() leaves the entry SecondHalf.                             *)
(***************************************************************************)
Bytes == Input \cup {None}
Step == Bytes \X Bytes
SecondHalf == <<None, None>>

Phase(l) == CASE Len(l) = HalfLen -> "halftime"
              [] Len(l) = 2 * HalfLen + 1 -> "fulltime"
              [] OTHER -> "playing"

Lesser(a, b) == IF a <= b THEN a ELSE b
Greater(a, b) == IF a >= b THEN a ELSE b

\* Updates left before the half in progress ends.
Room(l) == (IF Len(l) <= HalfLen THEN HalfLen ELSE 2 * HalfLen + 1) - Len(l)

\* update() once for each step of xs: it does nothing once the half has ended.
Updated(l, xs) == l \o SubSeq(xs, 1, Lesser(Len(xs), Room(l)))

ContinueHalf(l) == IF Phase(l) = "halftime" THEN Append(l, SecondHalf) ELSE l

(***************************************************************************)
(* Packets.                                                                *)
(***************************************************************************)
InputPacket(t, b) == [kind |-> "input", tick |-> t, bytes |-> b]
HashPacket(t, l) == [kind |-> "hash", tick |-> t, log |-> l]
SnapshotPacket(t, l) == [kind |-> "snapshot", tick |-> t, log |-> l]
ResyncRequest(t) == [kind |-> "resync-request", tick |-> t]
Control(k) == [kind |-> k]

Packet ==
  [kind : {"input"}, tick : Ticks, bytes : Bytes]
    \cup [kind : {"hash", "snapshot"}, tick : 0 .. MaxTick, log : Seq(Step)]
    \cup [kind : {"resync-request"}, tick : -1 .. MaxTick]
    \cup [kind : {"pause", "resume", "continue-half", "quit"}]

\* The inboxes after p sends ps: a closed or dead end receives nothing.
Sent(box, p, ps) ==
  IF link = "up" /\ screen[Peer(p)] # "title"
  THEN [box EXCEPT ![Peer(p)] = @ \o ps] ELSE box

Init ==
  /\ tick = [p \in Peers |-> 0]
  /\ local = [p \in Peers |-> [t \in Ticks |-> IF t < Delay THEN Idle ELSE None]]
  /\ remote = [p \in Peers |-> [t \in Ticks |-> None]]
  /\ snaps = [p \in Peers |-> [t \in Ticks |-> None]]
  /\ lastAgree = [p \in Peers |-> -1]
  /\ log = [p \in Peers |-> <<>>]
  /\ paused = [p \in Peers |-> FALSE]
  /\ desynced = [p \in Peers |-> FALSE]
  /\ flushed = [p \in Peers |-> 0]
  /\ lastHash = [p \in Peers |-> -1]
  /\ halfPending = [p \in Peers |-> FALSE]
  /\ screen = [p \in Peers |-> "match"]
  /\ inbox = [p \in Peers |-> <<>>]
  /\ link = "up"
  /\ pauses = 0

-----------------------------------------------------------------------------
(***************************************************************************)
(* frame(): one render frame on the match screen.                          *)
(***************************************************************************)
Frontier(p) == tick[p] + Delay

\* A snapshot moved the session back: what was sent is sent again.
Rewound(p) == flushed[p] > Frontier(p) + 1

\* Slip: only the newest tick is sent, and the startup burst never is.
SendNewest(p) == Frontier(p)

SendFrom(p) == IF Rewound(p) THEN tick[p] ELSE flushed[p]

\* Slip: ticks that have been sent are not skipped.
StagingThawed(p) ==
  {t \in tick[p] .. Frontier(p) : local[p][t] = None \/ t = Frontier(p)}

\* Slip: sendLocal() alone, which leaves the ticks of a catch-up jump empty.
StagingFrontier(p) == {Frontier(p)}

\* The ticks stageInput() writes: the gaps, and the frontier itself.
Staging(p) ==
  {t \in tick[p] .. Frontier(p) :
     t >= SendFrom(p) /\ (local[p][t] = None \/ t = Frontier(p))}

Staged(p, in) ==
  [t \in Ticks |-> IF t \in Staging(p) THEN in[t] ELSE local[p][t]]

Outgoing(p, own) ==
  [k \in 1 .. (Frontier(p) + 1 - SendFrom(p)) |->
     InputPacket(SendFrom(p) + k - 1, own[SendFrom(p) + k - 1])]

\* Slip: my input first, whichever team is mine.
StepInputsMineFirst(p, own, n) ==
  [k \in 1 .. n |-> LET t == tick[p] + k - 1 IN <<own[t], remote[p][t]>>]

\* The steps for ticks tick[p], ..., tick[p] + n - 1, host's input first.
StepInputs(p, own, n) ==
  [k \in 1 .. n |->
     LET t == tick[p] + k - 1
     IN IF p = Host THEN <<own[t], remote[p][t]>> ELSE <<remote[p][t], own[t]>>]

\* Slip: a tick does not wait for the peer.
CanStepAlone(p, own, n) ==
  /\ tick[p] + n <= MaxTick
  /\ \A t \in tick[p] .. (tick[p] + n - 1) : own[t] # None

CanStep(p, own, n) ==
  /\ tick[p] + n <= MaxTick
  /\ \A t \in tick[p] .. (tick[p] + n - 1) : own[t] # None /\ remote[p][t] # None

\* Slip: step() snapshots the engine after the tick.
SnapshottedLate(p, l, xs) ==
  [t \in Ticks |->
     IF t \in tick[p] .. (tick[p] + Len(xs) - 1) /\ t % HashEvery = 0
     THEN Updated(l, SubSeq(xs, 1, t - tick[p] + 1)) ELSE snaps[p][t]]

\* step() snapshots the engine before every HashEvery-th tick.
Snapshotted(p, l, xs) ==
  [t \in Ticks |->
     IF t \in tick[p] .. (tick[p] + Len(xs) - 1) /\ t % HashEvery = 0
     THEN Updated(l, SubSeq(xs, 1, t - tick[p])) ELSE snaps[p][t]]

\* Slip: the engine's phase is taken for the name of the screen.
ScreenAfterPhase(l) == Phase(l)

ScreenAfter(l) == CASE Phase(l) = "halftime" -> "half"
                    [] Phase(l) = "fulltime" -> "full"
                    [] OTHER -> "match"

Frame(p, in, n) ==
  LET l == IF halfPending[p] THEN ContinueHalf(log[p]) ELSE log[p]
      own == Staged(p, in)
      xs == StepInputs(p, own, n)
      after == Updated(l, xs)
      shots == Snapshotted(p, l, xs)
      ht == (tick[p] + n) - ((tick[p] + n) % HashEvery)
      due == ht # (IF Rewound(p) THEN -1 ELSE lastHash[p]) /\ shots[ht] # None
      hash == IF due THEN <<HashPacket(ht, shots[ht])>> ELSE <<>>
      report == IF desynced[p] THEN <<ResyncRequest(lastAgree[p])>> ELSE <<>>
  IN /\ screen[p] = "match" /\ ~paused[p]
     /\ CanStep(p, own, n)
     /\ halfPending' = [halfPending EXCEPT ![p] = @ /\ Phase(log[p]) # "halftime"]
     /\ local' = [local EXCEPT ![p] = own]
     /\ flushed' = [flushed EXCEPT ![p] = Greater(SendFrom(p), Frontier(p) + 1)]
     /\ tick' = [tick EXCEPT ![p] = @ + n]
     /\ log' = [log EXCEPT ![p] = after]
     /\ snaps' = [snaps EXCEPT ![p] = shots]
     /\ lastHash' = [lastHash EXCEPT ![p] = IF due THEN ht
                                            ELSE IF Rewound(p) THEN -1 ELSE @]
     /\ desynced' = [desynced EXCEPT ![p] = FALSE]
     /\ screen' = [screen EXCEPT ![p] = ScreenAfter(after)]
     /\ inbox' = Sent(inbox, p, Outgoing(p, own) \o hash \o report)
     /\ UNCHANGED <<remote, lastAgree, paused, link, pauses>>

-----------------------------------------------------------------------------
(***************************************************************************)
(* closeNet(): say goodbye, close the driver, go back to the title.        *)
(***************************************************************************)
\* Slip: the driver is closed without a goodbye.
LeaveQuietly(p) ==
  /\ screen' = [screen EXCEPT ![p] = "title"]
  /\ inbox' = [inbox EXCEPT ![p] = <<>>]
  /\ UNCHANGED <<session, log, paused, driver, link, pauses>>

Leave(p) ==
  /\ screen' = [screen EXCEPT ![p] = "title"]
  /\ inbox' = [Sent(inbox, p, <<Control("quit")>>) EXCEPT ![p] = <<>>]
  /\ UNCHANGED <<session, log, paused, driver, link, pauses>>

\* missingRemote() reads the bytes of team 1: on the guest, its own.
MissingRemote(p) ==
  (IF p = Guest THEN local[p][tick[p]] ELSE remote[p][tick[p]]) = None

\* p has sent all it can and neither tick nor resync will make it send more.
SentOut(p) == flushed[p] = Frontier(p) + 1 /\ ~desynced[p]

\* Nothing will come from p's peer any more: the link is dead, or the peer,
\* with nothing left to handle, is on a screen it will not leave by itself.
PeerSilent(p) ==
  LET q == Peer(p)
  IN \/ link = "dead"
     \/ /\ inbox[q] = <<>>
        /\ CASE screen[q] = "match" ->
                    paused[q] \/ (SentOut(q) /\ remote[q][tick[q]] = None)
             [] screen[q] = "half" -> q = Guest /\ Phase(log[q]) = "halftime"
             [] OTHER -> TRUE

\* DROP_AFTER_STALL frames in a row found nothing to step: onPeerGone().
StallOut(p) ==
  /\ screen[p] = "match" /\ ~paused[p]
  /\ SentOut(p) /\ MissingRemote(p)
  /\ inbox[p] = <<>> /\ PeerSilent(p)
  /\ Leave(p)

\* The transport reports 'closed', because the peer left or because it failed:
\* onClose() and onPeerGone().
LinkClosed(p) ==
  /\ screen[p] # "title"
  /\ screen[Peer(p)] = "title" \/ MayFail
  /\ screen' = [screen EXCEPT ![p] = "title"]
  /\ inbox' = [inbox EXCEPT ![p] = <<>>]
  /\ link' = IF screen[Peer(p)] = "title" THEN link ELSE "dead"
  /\ UNCHANGED <<session, log, paused, driver, pauses>>

\* The network goes silent: packets on their way are lost, none will follow.
LinkDies ==
  /\ MayFail /\ link = "up"
  /\ link' = "dead"
  /\ inbox' = [p \in Peers |-> <<>>]
  /\ UNCHANGED <<session, log, paused, driver, screen, pauses>>

-----------------------------------------------------------------------------
(***************************************************************************)
(* The user: the pause menu, and the half-time and full-time screens.      *)
(***************************************************************************)
\* openPause(): Escape, a tap on the scoreboard, or the window losing focus.
Pause(p) ==
  /\ screen[p] = "match" /\ pauses < MaxPauses
  /\ pauses' = pauses + 1
  /\ paused' = [paused EXCEPT ![p] = TRUE]
  /\ screen' = [screen EXCEPT ![p] = "pause"]
  /\ inbox' = Sent(inbox, p, <<Control("pause")>>)
  /\ UNCHANGED <<session, log, driver, link>>

\* resumePlay().
Resume(p) ==
  /\ screen[p] = "pause"
  /\ paused' = [paused EXCEPT ![p] = FALSE]
  /\ screen' = [screen EXCEPT ![p] = "match"]
  /\ inbox' = Sent(inbox, p, <<Control("resume")>>)
  /\ UNCHANGED <<session, log, driver, link, pauses>>

\* continueFromHalf() on the host: a key press, or by itself after 2.5 s.
HostContinues ==
  /\ screen[Host] = "half"
  /\ log' = [log EXCEPT ![Host] = ContinueHalf(@)]
  /\ screen' = [screen EXCEPT ![Host] = "match"]
  /\ inbox' = Sent(inbox, Host, <<Control("continue-half")>>)
  /\ UNCHANGED <<session, paused, driver, link, pauses>>

\* continueFromHalf() on the guest waits for its engine to leave half time.
GuestContinues ==
  /\ screen[Guest] = "half" /\ Phase(log[Guest]) # "halftime"
  /\ screen' = [screen EXCEPT ![Guest] = "match"]
  /\ UNCHANGED <<session, log, paused, driver, inbox, link, pauses>>

\* WORLD TABLE on the full-time screen, and the menus one comes to from there:
\* the match is off the screen, and the driver stays open.
WorldTable(p) ==
  /\ MayQuit /\ screen[p] = "full"
  /\ screen' = [screen EXCEPT ![p] = "city"]
  /\ UNCHANGED <<session, log, paused, driver, inbox, link, pauses>>

\* The other entries of the pause and full-time menus, and the next match chosen
\* behind the world table, all of which call closeNet().
Quit(p) ==
  /\ MayQuit /\ screen[p] \in {"pause", "full", "city"}
  /\ Leave(p)

-----------------------------------------------------------------------------
(***************************************************************************)
(* onData() and onControl(): one packet arrives.                           *)
(***************************************************************************)
Arrives(p, kind) ==
  /\ inbox[p] # <<>> /\ Head(inbox[p]).kind = kind

Consumed(p) == [inbox EXCEPT ![p] = Tail(@)]

\* History the session forgets on an input for tick t.
Pruned(map, t) == [k \in Ticks |-> IF k < t - MaxHistory THEN None ELSE map[k]]

ReceiveRemote(p) ==
  /\ Arrives(p, "input")
  /\ LET m == Head(inbox[p])
     IN /\ local' = [local EXCEPT ![p] = Pruned(@, m.tick)]
        /\ remote' = [remote EXCEPT ![p] =
                        Pruned([@ EXCEPT ![m.tick] = m.bytes], m.tick)]
        /\ snaps' = [snaps EXCEPT ![p] = Pruned(@, m.tick)]
  /\ inbox' = Consumed(p)
  /\ UNCHANGED <<tick, lastAgree, log, paused, driver, screen, link, pauses>>

\* The engine state the session can compare with a hash for tick t, if any:
\* a snapshot, or the live engine when it stands at t.  Others are ignored.
Comparable(p, t) == snaps[p][t] # None \/ t = tick[p]
StateAt(p, t) == IF snaps[p][t] # None THEN snaps[p][t] ELSE log[p]

ReceiveHash(p) ==
  /\ Arrives(p, "hash")
  /\ LET m == Head(inbox[p])
         agrees == Comparable(p, m.tick) /\ StateAt(p, m.tick) = m.log
         differs == Comparable(p, m.tick) /\ StateAt(p, m.tick) # m.log
     IN /\ lastAgree' = [lastAgree EXCEPT ![p] =
                           IF agrees THEN Greater(@, m.tick) ELSE @]
        /\ desynced' = [desynced EXCEPT ![p] = @ \/ differs]
  /\ inbox' = Consumed(p)
  /\ UNCHANGED <<tick, local, remote, snaps, log, paused,
                 flushed, lastHash, halfPending, screen, link, pauses>>

\* Either peer answers, with its own snapshot of the tick if it still has one.
Answer(p, t) ==
  IF t < 0 THEN <<>>
  ELSE IF snaps[p][t] = None THEN <<>> ELSE <<SnapshotPacket(t, snaps[p][t])>>

ReceiveResyncRequest(p) ==
  /\ Arrives(p, "resync-request")
  /\ inbox' = Sent(Consumed(p), p, Answer(p, Head(inbox[p]).tick))
  /\ UNCHANGED <<session, log, paused, driver, screen, link, pauses>>

\* applySnapshot().  Snapshots are taken by step(), so never of a paused engine.
ReceiveSnapshot(p) ==
  /\ Arrives(p, "snapshot")
  /\ LET m == Head(inbox[p])
     IN /\ log' = [log EXCEPT ![p] = m.log]
        /\ tick' = [tick EXCEPT ![p] = m.tick]
        /\ snaps' = [snaps EXCEPT ![p] =
                       [t \in Ticks |-> IF t = m.tick THEN m.log ELSE None]]
  /\ paused' = [paused EXCEPT ![p] = FALSE]
  /\ inbox' = Consumed(p)
  /\ UNCHANGED <<local, remote, lastAgree, driver, screen, link, pauses>>

\* peerPaused reaches main: openPause(), which answers with a pause of its own.
ReceivePause(p) ==
  /\ Arrives(p, "pause")
  /\ paused' = [paused EXCEPT ![p] = TRUE]
  /\ IF screen[p] = "match"
     THEN /\ screen' = [screen EXCEPT ![p] = "pause"]
          /\ inbox' = Sent(Consumed(p), p, <<Control("pause")>>)
     ELSE /\ inbox' = Consumed(p)
          /\ UNCHANGED screen
  /\ UNCHANGED <<session, log, driver, link, pauses>>

\* Slip: the screen is left but the engine stays paused.
ReceiveResumeFrozen(p) ==
  /\ Arrives(p, "resume")
  /\ screen' = [screen EXCEPT ![p] = IF @ = "pause" THEN "match" ELSE @]
  /\ inbox' = Consumed(p)
  /\ UNCHANGED <<session, log, paused, driver, link, pauses>>

ReceiveResume(p) ==
  /\ Arrives(p, "resume")
  /\ paused' = [paused EXCEPT ![p] = FALSE]
  /\ screen' = [screen EXCEPT ![p] = IF @ = "pause" THEN "match" ELSE @]
  /\ inbox' = Consumed(p)
  /\ UNCHANGED <<session, log, driver, link, pauses>>

ReceiveContinueHalf(p) ==
  /\ Arrives(p, "continue-half")
  /\ log' = [log EXCEPT ![p] = ContinueHalf(@)]
  /\ halfPending' = [halfPending EXCEPT ![p] = @ \/ Phase(log[p]) # "halftime"]
  /\ inbox' = Consumed(p)
  /\ UNCHANGED <<session, paused, desynced, flushed, lastHash, screen, link, pauses>>

\* peerQuit reaches main: closeNet().
ReceiveQuit(p) ==
  /\ Arrives(p, "quit")
  /\ Leave(p)

-----------------------------------------------------------------------------
Render(p) ==
  \E n \in 0 .. MaxCatchUp : \E in \in [Staging(p) -> Input] : Frame(p, in, n)

Receive(p) ==
  \/ ReceiveRemote(p) \/ ReceiveHash(p) \/ ReceiveResyncRequest(p)
  \/ ReceiveSnapshot(p) \/ ReceivePause(p) \/ ReceiveResume(p)
  \/ ReceiveContinueHalf(p) \/ ReceiveQuit(p)

User(p) == Pause(p) \/ Resume(p) \/ WorldTable(p) \/ Quit(p)

Continue(p) == (p = Host /\ HostContinues) \/ (p = Guest /\ GuestContinues)

Next ==
  \/ \E p \in Peers : \/ Render(p) \/ Receive(p) \/ User(p) \/ Continue(p)
                      \/ StallOut(p) \/ LinkClosed(p)
  \/ LinkDies

Spec == Init /\ [][Next]_vars

\* Frames go on rendering and, the clock being what it is, go on being due for
\* a tick; delivered packets are handled; the half-time screen continues by
\* itself; a stall is counted.  Users owe nothing, and no link need fail.
Stepping(p) ==
  \E n \in 1 .. MaxCatchUp : \E in \in [Staging(p) -> Input] : Frame(p, in, n)

Fairness ==
  \A p \in Peers : /\ WF_vars(Render(p)) /\ WF_vars(Stepping(p))
                   /\ WF_vars(Receive(p)) /\ WF_vars(Continue(p))
                   /\ WF_vars(StallOut(p))

FairSpec == Spec /\ Fairness

-----------------------------------------------------------------------------
(***************************************************************************)
(* Properties.                                                             *)
(***************************************************************************)
TypeOK ==
  /\ tick \in [Peers -> 0 .. MaxTick]
  /\ local \in [Peers -> [Ticks -> Bytes]]
  /\ remote \in [Peers -> [Ticks -> Bytes]]
  /\ snaps \in [Peers -> [Ticks -> Seq(Step) \cup {None}]]
  /\ lastAgree \in [Peers -> -1 .. MaxTick]
  /\ log \in [Peers -> Seq(Step)]
  /\ paused \in [Peers -> BOOLEAN]
  /\ desynced \in [Peers -> BOOLEAN]
  /\ flushed \in [Peers -> 0 .. (MaxTick + Delay + 1)]
  /\ lastHash \in [Peers -> -1 .. MaxTick]
  /\ halfPending \in [Peers -> BOOLEAN]
  /\ screen \in [Peers -> Screens]
  /\ inbox \in [Peers -> Seq(Packet)]
  /\ link \in {"up", "dead"}
  /\ pauses \in 0 .. MaxPauses

\* The two engines are bit-identical as far as both have run: whatever the
\* delay, the catch-up jumps, the pauses and the order of packets, no peer
\* steps a tick with another input than its peer (session.ts, header).
PlayedAlike ==
  \A k \in 1 .. Lesser(Len(log[Host]), Len(log[Guest])) :
    log[Host][k] = log[Guest][k]

\* The hash exchange raises no false alarm: while the engines have played
\* alike, nobody counts a desync or asks for a snapshot.
NoFalseAlarm ==
  \A p \in Peers :
    /\ ~desynced[p]
    /\ \A i \in 1 .. Len(inbox[p]) :
         inbox[p][i].kind \notin {"resync-request", "snapshot"}

\* A catch-up jump never leaves a tick without input: every tick from the
\* next one to step up to what was sent is staged, and every tick in the window
\* frame() sends had bytes to send (driver.ts, stageInput).
OwnInputStaged ==
  \A p \in Peers :
    /\ \A t \in tick[p] .. (flushed[p] - 1) : local[p][t] # None
    /\ \A i \in 1 .. Len(inbox[p]) :
         inbox[p][i].kind = "input" => inbox[p][i].bytes # None

\* A peer never runs ahead of the input its peer has committed to, so the two
\* are at most Delay + 1 ticks apart.
BoundedSkew ==
  \A p \in Peers :
    /\ tick[p] <= flushed[Peer(p)]
    /\ tick[p] - tick[Peer(p)] <= Delay + 1

\* A pause never strands a match: with nothing on its way, a paused engine
\* has somebody on the pause screen who can resume it.
PauseHasResumer ==
  (link = "up" /\ \A p \in Peers : inbox[p] = <<>> /\ screen[p] # "title")
    => \A p \in Peers : paused[p] => \E q \in Peers : screen[q] = "pause"

\* Sent ticks are immutable: a staged input that has been sent is never
\* replaced by another one (driver.ts, stageInput and frame).
SentTicksFrozen ==
  [][\A p \in Peers : \A t \in Ticks :
       t < flushed[p] /\ local[p][t] # None /\ local'[p][t] # None
         => local'[p][t] = local[p][t]]_vars

\* The match is one history that both peers play, at most Delay + 1 ticks
\* apart: the two sessions, drivers and everything between them implement
\* Agreement (session.ts, header).
Shared == INSTANCE Agreement WITH
  Reader <- Peers, MaxLead <- Delay + 1,
  history <- IF Len(log[Host]) >= Len(log[Guest]) THEN log[Host] ELSE log[Guest],
  played <- log

OneHistory == Shared!Spec

\* Two peers never wait for each other's input: unless somebody opens the pause
\* screen, a match runs on.
Progress == [](pauses = 0) => <>(\A p \in Peers : tick[p] = MaxTick)

\* Whoever closes the match, even from the world table behind full time, takes
\* the other along, as long as the link carries packets (main.ts, closeNet).  A
\* peer that goes no further than the world table has closed nothing.
LeaveTogether ==
  \A p \in Peers :
    screen[p] = "title" ~> (link = "dead" \/ screen[Peer(p)] = "title")

\* The guest of a host that plays on after half time plays on too
\* (driver.ts, onControl: "a dropped packet strands the guest").
GuestFollowsHost ==
  Len(log[Host]) > HalfLen ~> Len(log[Guest]) > HalfLen

\* A peer that waits for a dead link gives the match up (driver.ts,
\* DROP_AFTER_STALL), unless this instance's last tick is reached first.
DeadLinkNoticed ==
  \A p \in Peers :
    (link = "dead" /\ screen[p] = "match")
      ~> (screen[p] # "match" \/ tick[p] = MaxTick)
=============================================================================
