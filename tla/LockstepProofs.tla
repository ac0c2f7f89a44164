--------------------------- MODULE LockstepProofs ---------------------------
(***************************************************************************)
(* Proofs about Lockstep, for every input set, delay, hash interval,       *)
(* history length, catch-up limit and half length; and that it implements  *)
(* Agreement.                                                              *)
(***************************************************************************)
EXTENDS Lockstep, SequenceTheorems, TLAPS

(***************************************************************************)
(* Lemmas about the operators.                                             *)
(***************************************************************************)
LEMMA PeerType == \A p \in Peers : Peer(p) \in Peers /\ Peer(Peer(p)) = p /\ Peer(p) # p
BY DEF Peers, Peer, Host, Guest

\* The hash tick of a session at tick n is a tick not later than n.
LEMMA HashTick ==
  ASSUME NEW n \in Nat
  PROVE  n - (n % HashEvery) \in 0 .. n
<1>1. HashEvery \in Nat \ {0}
  BY LockstepAssumption
<1>2. n % HashEvery \in 0 .. (HashEvery - 1)
  BY <1>1
<1>3. n = HashEvery * (n \div HashEvery) + (n % HashEvery)
  BY <1>1
<1>4. n % HashEvery <= n
  <2>1. n \div HashEvery \in Int /\ n \div HashEvery >= 0
    BY <1>1
  <2>2. HashEvery * (n \div HashEvery) >= 0
    BY <1>1, <2>1
  <2> QED
    BY <1>1, <1>2, <1>3, <2>1, <2>2
<1> QED
  BY <1>1, <1>2, <1>4

\* Running the engine for some steps appends a prefix of them to its history.
LEMMA UpdatedType ==
  ASSUME NEW l \in Seq(Step), NEW xs \in Seq(Step)
  PROVE  Updated(l, xs) \in Seq(Step)
<1> DEFINE k == Lesser(Len(xs), Room(l))
<1>1. Len(xs) \in Nat /\ Len(l) \in Nat /\ HalfLen \in Nat
  BY LenProperties, LockstepAssumption
<1>2. Room(l) \in Int
  BY <1>1 DEF Room
<1>3. k \in Int /\ k <= Len(xs)
  BY <1>1, <1>2 DEF Lesser
<1>4. \A i \in 1 .. k : xs[i] \in Step
  BY <1>1, <1>3, ElementOfSeq
<1>5. SubSeq(xs, 1, k) \in Seq(Step)
  BY <1>3, <1>4, SubSeqProperties
<1> QED
  BY <1>5, ConcatProperties DEF Updated

LEMMA ContinueHalfType ==
  ASSUME NEW l \in Seq(Step)
  PROVE  ContinueHalf(l) \in Seq(Step)
BY AppendProperties DEF ContinueHalf, SecondHalf, Step, Bytes

\* A staged window holds bytes, on the ticks of the session.
LEMMA StagedType ==
  ASSUME TypeOK, NEW p \in Peers, NEW in \in [Staging(p) -> Input]
  PROVE  Staged(p, in) \in [Ticks -> Bytes]
BY DEF TypeOK, Staged, Staging, Bytes

LEMMA Cursors ==
  ASSUME TypeOK, NEW p \in Peers
  PROVE  /\ tick[p] \in 0 .. MaxTick /\ tick[p] \in Nat
         /\ Frontier(p) \in Nat /\ Frontier(p) = tick[p] + Delay
         /\ SendFrom(p) \in Nat
         /\ SendFrom(p) <= MaxTick + Delay + 1
         /\ Greater(SendFrom(p), Frontier(p) + 1) \in 0 .. (MaxTick + Delay + 1)
BY LockstepAssumption DEF TypeOK, Frontier, SendFrom, Greater

LEMMA OutgoingType ==
  ASSUME TypeOK, NEW p \in Peers, NEW own \in [Ticks -> Bytes]
  PROVE  /\ Outgoing(p, own) \in Seq(Packet)
<1> DEFINE n == Frontier(p) + 1 - SendFrom(p)
           e(k) == InputPacket(SendFrom(p) + k - 1, own[SendFrom(p) + k - 1])
<1>1. \A k \in 1 .. n : e(k) \in Packet
  <2> SUFFICES ASSUME NEW k \in 1 .. n PROVE e(k) \in Packet
    OBVIOUS
  <2>1. n \in Int /\ SendFrom(p) + k - 1 \in Ticks
    BY Cursors, LockstepAssumption DEF Ticks
  <2> QED
    BY <2>1 DEF InputPacket, Packet
<1>2. n \in Int
  BY Cursors
<1>3. CASE n \in Nat
  <2>1. [k \in 1 .. n |-> e(k)] \in Seq(Packet)
    <3> HIDE DEF e
    <3> QED
    BY <1>1, <1>3, SeqDef
  <2> QED
    BY <2>1 DEF Outgoing
<1>4. CASE n \notin Nat
  <2>1. 1 .. n = {} /\ 1 .. 0 = {}
    BY <1>2, <1>4
  <2>2. [k \in 1 .. n |-> e(k)] \in [1 .. 0 -> Packet]
    BY <2>1
  <2> QED
    BY <2>2, SeqDef DEF Outgoing
<1> QED
  BY <1>3, <1>4

\* What n steps consume: pairs of bytes.
LEMMA StepInputsType ==
  ASSUME TypeOK, NEW p \in Peers, NEW own \in [Ticks -> Bytes],
         NEW n \in 0 .. MaxCatchUp, CanStep(p, own, n)
  PROVE  /\ StepInputs(p, own, n) \in Seq(Step)
         /\ Len(StepInputs(p, own, n)) = n
         /\ tick[p] + n \in 0 .. MaxTick
<1> DEFINE e(k) == LET t == tick[p] + k - 1
                   IN IF p = Host THEN <<own[t], remote[p][t]>>
                      ELSE <<remote[p][t], own[t]>>
<1>1. n \in Nat /\ tick[p] \in Nat /\ tick[p] + n \in 0 .. MaxTick
  BY LockstepAssumption, Cursors DEF CanStep
<1>2. \A k \in 1 .. n : e(k) \in Step
  <2> SUFFICES ASSUME NEW k \in 1 .. n PROVE e(k) \in Step
    OBVIOUS
  <2>1. tick[p] + k - 1 \in Ticks
    BY <1>1, LockstepAssumption DEF Ticks
  <2>2. remote[p] \in [Ticks -> Bytes]
    BY DEF TypeOK
  <2> QED
    BY <2>1, <2>2 DEF Step
<1>3. StepInputs(p, own, n) = [k \in 1 .. n |-> e(k)]
  BY DEF StepInputs
<1>4. [k \in 1 .. n |-> e(k)] \in [1 .. n -> Step]
  <2> HIDE DEF e
  <2> QED BY <1>2
<1>5. StepInputs(p, own, n) \in [1 .. n -> Step]
  BY <1>3, <1>4
<1> QED
  BY <1>1, <1>5, SeqDef

LEMMA SnapshottedType ==
  ASSUME TypeOK, NEW p \in Peers, NEW l \in Seq(Step), NEW xs \in Seq(Step)
  PROVE  Snapshotted(p, l, xs) \in [Ticks -> Seq(Step) \cup {None}]
<1> SUFFICES ASSUME NEW t \in Ticks,
                    t \in tick[p] .. (tick[p] + Len(xs) - 1)
             PROVE  Updated(l, SubSeq(xs, 1, t - tick[p])) \in Seq(Step)
  BY DEF Snapshotted, TypeOK
<1>1. Len(xs) \in Nat /\ tick[p] \in Nat /\ t \in Int
  BY Cursors, LenProperties
<1>2. t - tick[p] \in Int /\ t - tick[p] <= Len(xs)
  BY <1>1
<1>3. \A i \in 1 .. (t - tick[p]) : xs[i] \in Step
  BY <1>1, <1>2, ElementOfSeq
<1>4. SubSeq(xs, 1, t - tick[p]) \in Seq(Step)
  BY <1>2, <1>3, SubSeqProperties
<1> QED
  BY <1>4, UpdatedType

\* Sending packets keeps the inboxes sequences of packets.
LEMMA SentType ==
  ASSUME NEW box \in [Peers -> Seq(Packet)], NEW p \in Peers, NEW ps \in Seq(Packet)
  PROVE  Sent(box, p, ps) \in [Peers -> Seq(Packet)]
<1>1. Peer(p) \in Peers
  BY PeerType
<1>2. box[Peer(p)] \o ps \in Seq(Packet)
  BY <1>1, ConcatProperties
<1> QED
  BY <1>1, <1>2 DEF Sent

LEMMA ControlType ==
  \A k \in {"pause", "resume", "continue-half", "quit"} :
    <<Control(k)>> \in Seq(Packet)
BY DEF Control, Packet

LEMMA ConsumedType ==
  ASSUME TypeOK, NEW p \in Peers, inbox[p] # <<>>
  PROVE  /\ Consumed(p) \in [Peers -> Seq(Packet)]
         /\ Head(inbox[p]) \in Packet
<1>1. inbox[p] \in Seq(Packet) /\ inbox \in [Peers -> Seq(Packet)]
  BY DEF TypeOK
<1>2. Tail(inbox[p]) \in Seq(Packet) /\ Head(inbox[p]) \in Packet
  BY <1>1, HeadTailProperties
<1> QED
  BY <1>1, <1>2 DEF Consumed

-----------------------------------------------------------------------------
(***************************************************************************)
(* Type correctness, action by action.                                     *)
(***************************************************************************)
LEMMA InitType == Init => TypeOK
<1> SUFFICES ASSUME Init PROVE TypeOK
  OBVIOUS
<1>1. <<>> \in Seq(Step) /\ <<>> \in Seq(Packet)
  BY EmptySeq
<1> QED
  BY <1>1, LockstepAssumption DEF Init, TypeOK, Bytes, Ticks, Screens

LEMMA FrameType ==
  ASSUME TypeOK, NEW p \in Peers, NEW n \in 0 .. MaxCatchUp,
         NEW in \in [Staging(p) -> Input], Frame(p, in, n)
  PROVE  TypeOK'
<1> DEFINE l == IF halfPending[p] THEN ContinueHalf(log[p]) ELSE log[p]
           own == Staged(p, in)
           xs == StepInputs(p, own, n)
           after == Updated(l, xs)
           shots == Snapshotted(p, l, xs)
           ht == (tick[p] + n) - ((tick[p] + n) % HashEvery)
           due == ht # (IF Rewound(p) THEN -1 ELSE lastHash[p]) /\ shots[ht] # None
           hash == IF due THEN <<HashPacket(ht, shots[ht])>> ELSE <<>>
           report == IF desynced[p] THEN <<ResyncRequest(lastAgree[p])>> ELSE <<>>
<1>1. l \in Seq(Step)
  BY ContinueHalfType DEF TypeOK
<1>2. own \in [Ticks -> Bytes]
  BY StagedType
<1>3. xs \in Seq(Step) /\ tick[p] + n \in 0 .. MaxTick
  BY <1>2, StepInputsType DEF Frame
<1>4. after \in Seq(Step) /\ shots \in [Ticks -> Seq(Step) \cup {None}]
  BY <1>1, <1>3, UpdatedType, SnapshottedType
<1>5. ht \in 0 .. MaxTick /\ ht \in Ticks
  <2>1. tick[p] + n \in Nat /\ tick[p] + n <= MaxTick
    BY <1>3, LockstepAssumption
  <2>2. ht \in 0 .. (tick[p] + n)
    BY <2>1, HashTick, Zenon
  <2> HIDE DEF ht
  <2> QED
    BY <2>1, <2>2, LockstepAssumption DEF Ticks
<1>6. hash \in Seq(Packet)
  <2>1. CASE due
    <3>1. shots[ht] \in Seq(Step)
      BY <1>4, <1>5, <2>1
    <3>2. HashPacket(ht, shots[ht]) \in Packet
      BY <1>5, <3>1 DEF HashPacket, Packet
    <3> QED BY <2>1, <3>2
  <2>2. CASE ~due
    BY <2>2, EmptySeq
  <2> QED BY <2>1, <2>2
<1>7. report \in Seq(Packet)
  <2>1. ResyncRequest(lastAgree[p]) \in Packet
    BY DEF TypeOK, ResyncRequest, Packet
  <2>2. CASE desynced[p]
    BY <2>1, <2>2
  <2>3. CASE ~desynced[p]
    BY <2>3, EmptySeq
  <2> QED BY <2>2, <2>3
<1>8. Outgoing(p, own) \in Seq(Packet)
  BY <1>2, OutgoingType
<1>9. Outgoing(p, own) \o hash \o report \in Seq(Packet)
  BY <1>6, <1>7, <1>8, ConcatProperties
<1>10. inbox' \in [Peers -> Seq(Packet)]
  BY <1>9, SentType DEF Frame, TypeOK
<1> HIDE DEF l, own, xs, after, shots, ht, hash, report, due
<1>11. /\ tick' \in [Peers -> 0 .. MaxTick]
       /\ local' \in [Peers -> [Ticks -> Bytes]]
       /\ remote' \in [Peers -> [Ticks -> Bytes]]
       /\ snaps' \in [Peers -> [Ticks -> Seq(Step) \cup {None}]]
       /\ lastAgree' \in [Peers -> -1 .. MaxTick]
       /\ log' \in [Peers -> Seq(Step)]
  BY <1>2, <1>3, <1>4 DEF Frame, TypeOK, l, own, xs, after, shots
<1>12. flushed' \in [Peers -> 0 .. (MaxTick + Delay + 1)]
  BY Cursors DEF Frame, TypeOK
<1>13. lastHash' \in [Peers -> -1 .. MaxTick]
  BY <1>5, LockstepAssumption DEF Frame, TypeOK, l, own, xs, shots, ht
<1>14. screen' \in [Peers -> Screens]
  BY DEF Frame, TypeOK, ScreenAfter, Screens
<1>15. halfPending' \in [Peers -> BOOLEAN] /\ desynced' \in [Peers -> BOOLEAN]
  BY DEF Frame, TypeOK
<1> QED
  BY <1>10, <1>11, <1>12, <1>13, <1>14, <1>15 DEF Frame, TypeOK

LEMMA LeaveType ==
  ASSUME TypeOK, NEW p \in Peers, Leave(p)
  PROVE  TypeOK'
<1>1. Sent(inbox, p, <<Control("quit")>>) \in [Peers -> Seq(Packet)]
  BY SentType, ControlType DEF TypeOK
<1>2. [Sent(inbox, p, <<Control("quit")>>) EXCEPT ![p] = <<>>] \in [Peers -> Seq(Packet)]
  BY <1>1, EmptySeq
<1> QED
  BY <1>2 DEF Leave, TypeOK, Screens, session, driver

LEMMA LinkType ==
  ASSUME TypeOK, NEW p \in Peers, LinkClosed(p) \/ LinkDies
  PROVE  TypeOK'
<1>1. <<>> \in Seq(Packet)
  BY EmptySeq
<1>2. CASE LinkClosed(p)
  <2>1. inbox' \in [Peers -> Seq(Packet)]
    BY <1>1, <1>2 DEF LinkClosed, TypeOK
  <2>2. screen' \in [Peers -> Screens] /\ link' \in {"up", "dead"}
    BY <1>2 DEF LinkClosed, TypeOK, Screens
  <2> QED
    BY <1>2, <2>1, <2>2 DEF LinkClosed, TypeOK, session, driver
<1>3. CASE LinkDies
  <2>1. inbox' \in [Peers -> Seq(Packet)] /\ link' \in {"up", "dead"}
    BY <1>1, <1>3 DEF LinkDies
  <2> QED
    BY <1>3, <2>1 DEF LinkDies, TypeOK, session, driver
<1> QED
  BY <1>2, <1>3

LEMMA UserType ==
  ASSUME TypeOK, NEW p \in Peers, User(p) \/ Continue(p)
  PROVE  TypeOK'
<1>1. \A k \in {"pause", "resume", "continue-half", "quit"} :
        \A q \in Peers : Sent(inbox, q, <<Control(k)>>) \in [Peers -> Seq(Packet)]
  BY SentType, ControlType DEF TypeOK
<1>2. CASE Pause(p)
  <2>1. inbox' \in [Peers -> Seq(Packet)]
    BY <1>1, <1>2 DEF Pause
  <2>2. screen' \in [Peers -> Screens] /\ paused' \in [Peers -> BOOLEAN]
    BY <1>2 DEF Pause, TypeOK, Screens
  <2>3. pauses' \in 0 .. MaxPauses
    BY <1>2, LockstepAssumption DEF Pause, TypeOK
  <2> QED
    BY <1>2, <2>1, <2>2, <2>3 DEF Pause, TypeOK, session, driver
<1>3. CASE Resume(p)
  BY <1>1, <1>3 DEF Resume, TypeOK, Screens, session, driver
<1>4. CASE Quit(p)
  BY <1>4, LeaveType DEF Quit
<1>5. CASE HostContinues
  <2>1. ContinueHalf(log[Host]) \in Seq(Step)
    BY ContinueHalfType DEF TypeOK, Peers
  <2> QED
    BY <1>1, <1>5, <2>1 DEF HostContinues, TypeOK, Screens, session, driver, Peers
<1>6. CASE GuestContinues
  BY <1>6 DEF GuestContinues, TypeOK, Screens, session, driver
<1>7. CASE WorldTable(p)
  BY <1>7 DEF WorldTable, TypeOK, Screens, session, driver
<1> QED
  BY <1>2, <1>3, <1>4, <1>5, <1>6, <1>7 DEF User, Continue

LEMMA PrunedType ==
  ASSUME NEW S, NEW map \in [Ticks -> S \cup {None}], NEW t \in Ticks
  PROVE  Pruned(map, t) \in [Ticks -> S \cup {None}]
BY DEF Pruned

LEMMA ReceiveType ==
  ASSUME TypeOK, NEW p \in Peers, Receive(p)
  PROVE  TypeOK'
<1> DEFINE m == Head(inbox[p])
<1>1. /\ Consumed(p) \in [Peers -> Seq(Packet)]
      /\ m \in Packet
  BY ConsumedType
     DEF Receive, ReceiveRemote, ReceiveHash, ReceiveResyncRequest, ReceiveSnapshot,
         ReceivePause, ReceiveResume, ReceiveContinueHalf, ReceiveQuit, Arrives
<1>2. CASE ReceiveRemote(p)
  <2>1. m.tick \in Ticks /\ m.bytes \in Bytes
    BY <1>1, <1>2 DEF ReceiveRemote, Arrives, Packet
  <2>2. /\ Pruned(local[p], m.tick) \in [Ticks -> Bytes]
        /\ Pruned([remote[p] EXCEPT ![m.tick] = m.bytes], m.tick) \in [Ticks -> Bytes]
    BY <2>1, PrunedType DEF Bytes, TypeOK
  <2>3. Pruned(snaps[p], m.tick) \in [Ticks -> Seq(Step) \cup {None}]
    BY <2>1, PrunedType DEF TypeOK
  <2> QED
    BY <1>1, <1>2, <2>2, <2>3 DEF ReceiveRemote, TypeOK, driver
<1>3. CASE ReceiveHash(p)
  <2>1. m.tick \in 0 .. MaxTick
    BY <1>1, <1>3 DEF ReceiveHash, Arrives, Packet
  <2>2. lastAgree' \in [Peers -> -1 .. MaxTick]
    BY <1>3, <2>1, LockstepAssumption DEF ReceiveHash, TypeOK, Greater
  <2>3. desynced' \in [Peers -> BOOLEAN]
    BY <1>3 DEF ReceiveHash, TypeOK
  <2> QED
    BY <1>1, <1>3, <2>2, <2>3 DEF ReceiveHash, TypeOK
<1>4. CASE ReceiveResyncRequest(p)
  <2>1. m.tick \in -1 .. MaxTick
    BY <1>1, <1>4 DEF ReceiveResyncRequest, Arrives, Packet
  <2>2. Answer(p, m.tick) \in Seq(Packet)
    <3>1. CASE m.tick < 0 \/ snaps[p][m.tick] = None
      BY <3>1, EmptySeq DEF Answer
    <3>2. CASE ~(m.tick < 0) /\ snaps[p][m.tick] # None
      <4>1. m.tick \in 0 .. MaxTick /\ m.tick \in Ticks
        BY <2>1, <3>2, LockstepAssumption DEF Ticks
      <4>2. snaps[p][m.tick] \in Seq(Step)
        BY <3>2, <4>1 DEF TypeOK
      <4>3. SnapshotPacket(m.tick, snaps[p][m.tick]) \in Packet
        BY <4>1, <4>2 DEF SnapshotPacket, Packet
      <4> QED
        BY <3>2, <4>3 DEF Answer
    <3> QED BY <3>1, <3>2
  <2>3. Sent(Consumed(p), p, Answer(p, m.tick)) \in [Peers -> Seq(Packet)]
    BY <1>1, <2>2, SentType
  <2> QED
    BY <1>4, <2>3 DEF ReceiveResyncRequest, TypeOK, session, driver
<1>5. CASE ReceiveSnapshot(p)
  <2>1. m.tick \in 0 .. MaxTick /\ m.log \in Seq(Step)
    BY <1>1, <1>5 DEF ReceiveSnapshot, Arrives, Packet
  <2> QED
    BY <1>1, <1>5, <2>1 DEF ReceiveSnapshot, TypeOK, driver
<1>6. CASE ReceivePause(p)
  <2>1. Sent(Consumed(p), p, <<Control("pause")>>) \in [Peers -> Seq(Packet)]
    BY <1>1, SentType, ControlType
  <2> QED
    BY <1>1, <1>6, <2>1 DEF ReceivePause, TypeOK, Screens, session, driver
<1>7. CASE ReceiveResume(p)
  BY <1>1, <1>7 DEF ReceiveResume, TypeOK, Screens, session, driver
<1>8. CASE ReceiveContinueHalf(p)
  BY <1>1, <1>8, ContinueHalfType DEF ReceiveContinueHalf, TypeOK, session
<1>9. CASE ReceiveQuit(p)
  BY <1>9, LeaveType DEF ReceiveQuit
<1> QED
  BY <1>2, <1>3, <1>4, <1>5, <1>6, <1>7, <1>8, <1>9 DEF Receive

LEMMA NextType == TypeOK /\ [Next]_vars => TypeOK'
<1> SUFFICES ASSUME TypeOK, [Next]_vars PROVE TypeOK'
  OBVIOUS
<1>1. ASSUME NEW p \in Peers, Render(p) PROVE TypeOK'
  BY <1>1, FrameType DEF Render
<1>2. ASSUME NEW p \in Peers, Receive(p) PROVE TypeOK'
  BY <1>2, ReceiveType
<1>3. ASSUME NEW p \in Peers, User(p) \/ Continue(p) PROVE TypeOK'
  BY <1>3, UserType
<1>4. ASSUME NEW p \in Peers, StallOut(p) PROVE TypeOK'
  BY <1>4, LeaveType DEF StallOut
<1>5. ASSUME NEW p \in Peers, LinkClosed(p) PROVE TypeOK'
  BY <1>5, LinkType
<1>6. CASE LinkDies
  BY <1>6, LinkType DEF Peers
<1>7. CASE UNCHANGED vars
  BY <1>7 DEF vars, session, driver, TypeOK
<1> QED
  BY <1>1, <1>2, <1>3, <1>4, <1>5, <1>6, <1>7 DEF Next

\* Every reachable state of a match is well typed: what is staged, stored,
\* snapshotted, hashed and sent is always of the kind its reader expects
\* (session.ts, driver.ts), half time, resyncs, pauses and lost links included.
THEOREM TypeCorrect == Spec => []TypeOK
<1>1. Init => TypeOK
  BY InitType
<1>2. TypeOK /\ [Next]_vars => TypeOK'
  BY NextType
<1> QED
  BY <1>1, <1>2, PTL DEF Spec

-----------------------------------------------------------------------------
(***************************************************************************)
(* The first half.  A script c gives, for each peer and tick, the bytes    *)
(* that peer has committed to.  Everything either peer holds, has sent or  *)
(* has played agrees with one script: what was sent is never changed       *)
(* again, and what was not sent yet nobody else has used.                  *)
(***************************************************************************)
Script == [Peers -> [Ticks -> Bytes]]

PlayedTo(c, n) == [k \in 1 .. n |-> <<c[Host][k - 1], c[Guest][k - 1]>>]

LEMMA PlayedType ==
  ASSUME NEW c \in Script, NEW n \in 0 .. MaxTick
  PROVE  PlayedTo(c, n) \in Seq(Step) /\ Len(PlayedTo(c, n)) = n
<1>1. n \in Nat /\ \A k \in 1 .. n : k - 1 \in Ticks
  BY LockstepAssumption DEF Ticks
<1>2. PlayedTo(c, n) \in [1 .. n -> Step]
  BY <1>1 DEF PlayedTo, Script, Step, Peers
<1> QED
  BY <1>1, <1>2, SeqDef

LEMMA PlayedSame ==
  ASSUME NEW c \in Script, NEW d \in Script, NEW n \in Nat,
         \A q \in Peers : \A t \in 0 .. (n - 1) : c[q][t] = d[q][t]
  PROVE  PlayedTo(c, n) = PlayedTo(d, n)
<1>1. \A k \in 1 .. n : k - 1 \in 0 .. (n - 1)
  OBVIOUS
<1>2. \A k \in 1 .. n : c[Host][k - 1] = d[Host][k - 1] /\ c[Guest][k - 1] = d[Guest][k - 1]
  BY <1>1 DEF Peers
<1> QED
  BY <1>2 DEF PlayedTo

\* Stepping an engine in the first half with the script's bytes follows the script.
LEMMA PlayedOn ==
  ASSUME MaxTick < HalfLen,
         NEW c \in Script, NEW n \in 0 .. MaxTick, NEW xs \in Seq(Step),
         n + Len(xs) <= MaxTick,
         \A i \in 1 .. Len(xs) : xs[i] = <<c[Host][n + i - 1], c[Guest][n + i - 1]>>
  PROVE  Updated(PlayedTo(c, n), xs) = PlayedTo(c, n + Len(xs))
<1> DEFINE l == PlayedTo(c, n)
           m == Len(xs)
<1>1. m \in Nat /\ n \in Nat /\ HalfLen \in Nat /\ MaxTick \in Nat
  BY LenProperties, LockstepAssumption
<1>2. l \in Seq(Step) /\ Len(l) = n
  BY PlayedType
<1>3. Lesser(m, Room(l)) = m
  BY <1>1, <1>2 DEF Lesser, Room
<1>4. SubSeq(xs, 1, m) = xs
  BY SubSeqFull
<1>5. Updated(l, xs) = l \o xs
  BY <1>3, <1>4 DEF Updated
<1>6. /\ l \o xs \in Seq(Step)
      /\ Len(l \o xs) = n + m
      /\ \A i \in 1 .. (n + m) : (l \o xs)[i] = IF i <= n THEN l[i] ELSE xs[i - n]
  <2> HIDE DEF l
  <2> QED
    BY <1>2, ConcatProperties
<1>7. n + m \in 0 .. MaxTick
  BY <1>1
<1>8. PlayedTo(c, n + m) \in Seq(Step) /\ Len(PlayedTo(c, n + m)) = n + m
  BY <1>7, PlayedType
<1>9. ASSUME NEW i \in 1 .. (n + m)
      PROVE  (l \o xs)[i] = PlayedTo(c, n + m)[i]
  <2>1. PlayedTo(c, n + m)[i] = <<c[Host][i - 1], c[Guest][i - 1]>>
    BY DEF PlayedTo
  <2>2. CASE i <= n
    <3>1. i \in 1 .. n
      BY <1>1, <2>2
    <3>2. l[i] = <<c[Host][i - 1], c[Guest][i - 1]>>
      BY <3>1 DEF PlayedTo
    <3> QED
      BY <1>6, <2>1, <2>2, <3>2
  <2>3. CASE ~(i <= n)
    <3>1. i - n \in 1 .. m /\ n + (i - n) - 1 = i - 1
      BY <1>1, <2>3
    <3>2. xs[i - n] = <<c[Host][i - 1], c[Guest][i - 1]>>
      BY <3>1
    <3> QED
      BY <1>6, <2>1, <2>3, <3>2
  <2> QED BY <2>2, <2>3
<1>10. l \o xs = PlayedTo(c, n + m)
  <2> HIDE DEF l, m
  <2> QED
    BY <1>6, <1>8, <1>9, SeqEqual
<1> QED
  BY <1>5, <1>10

\* What may be on its way to p: committed inputs, hashes of states its peer has
\* been in, and the pause menu's packets.
FirstHalfPackets(c, p) ==
  {m \in Packet :
     \/ /\ m.kind = "input" /\ m.tick < flushed[Peer(p)]
        /\ m.bytes = c[Peer(p)][m.tick]
     \/ /\ m.kind = "hash" /\ m.tick <= tick[Peer(p)]
        /\ m.log = PlayedTo(c, m.tick)
     \/ m.kind \in {"pause", "resume", "quit"}}

FirstHalf(c) ==
  /\ \A p \in Peers : screen[p] \notin {"half", "full", "city"} /\ ~halfPending[p] /\ ~desynced[p]
  /\ \A p \in Peers : log[p] = PlayedTo(c, tick[p])
  /\ \A p \in Peers : flushed[p] <= Frontier(p) + 1
  /\ \A p, q \in Peers : tick[p] <= flushed[q]
  /\ \A p \in Peers : \A t \in Ticks : t < flushed[p] => c[p][t] # None
  /\ \A p \in Peers : \A t \in Ticks :
       local[p][t] # None =>
         IF t < flushed[p] THEN local[p][t] = c[p][t] ELSE t < Delay
  /\ \A p \in Peers : \A t \in Ticks :
       remote[p][t] # None => t < flushed[Peer(p)] /\ remote[p][t] = c[Peer(p)][t]
  /\ \A p \in Peers : \A t \in Ticks :
       snaps[p][t] # None => t <= tick[p] /\ snaps[p][t] = PlayedTo(c, t)
  /\ \A p \in Peers : inbox[p] \in Seq(FirstHalfPackets(c, p))

FirstHalfInv == TypeOK /\ \E c \in Script : FirstHalf(c)

LEMMA FirstHalfInit == Init => FirstHalfInv
<1> SUFFICES ASSUME Init PROVE \E c \in Script : FirstHalf(c)
  BY InitType DEF FirstHalfInv
<1> DEFINE c == [p \in Peers |-> [t \in Ticks |-> Idle]]
<1>1. c \in Script
  BY LockstepAssumption DEF Script, Bytes
<1>2. PlayedTo(c, 0) = <<>>
  <2>1. 0 \in 0 .. MaxTick
    BY LockstepAssumption
  <2> HIDE DEF c
  <2>2. PlayedTo(c, 0) \in Seq(Step) /\ Len(PlayedTo(c, 0)) = 0
    BY <1>1, <2>1, PlayedType
  <2> QED
    BY <2>2, EmptySeq
<1>3. \A p \in Peers : inbox[p] \in Seq(FirstHalfPackets(c, p))
  BY EmptySeq DEF Init
<1>4. FirstHalf(c)
  <2> HIDE DEF c
  <2> QED
    BY <1>2, <1>3, PeerType, LockstepAssumption DEF Init, FirstHalf, Frontier, Ticks
<1> QED
  BY <1>1, <1>4

\* Nothing in flight in the first half can set off a resync or a half.
LEMMA FirstHalfHead ==
  ASSUME NEW c \in Script, FirstHalf(c), NEW p \in Peers, inbox[p] # <<>>
  PROVE  /\ Head(inbox[p]) \in FirstHalfPackets(c, p)
         /\ Tail(inbox[p]) \in Seq(FirstHalfPackets(c, p))
<1>1. inbox[p] \in Seq(FirstHalfPackets(c, p))
  BY DEF FirstHalf
<1> QED
  BY <1>1, HeadTailProperties

\* The window of a frame: nothing sent is staged again, everything up to the
\* frontier ends up staged and sent.
LEMMA FirstHalfWindow ==
  ASSUME TypeOK, NEW c \in Script, FirstHalf(c), NEW p \in Peers,
         NEW in \in [Staging(p) -> Input]
  PROVE  /\ ~Rewound(p) /\ SendFrom(p) = flushed[p]
         /\ Greater(SendFrom(p), Frontier(p) + 1) = Frontier(p) + 1
         /\ flushed[p] \in Nat /\ tick[p] <= flushed[p]
         /\ \A t \in Ticks : t < flushed[p] => Staged(p, in)[t] = local[p][t]
         /\ \A t \in Ticks : t > Frontier(p) => Staged(p, in)[t] = None
         /\ \A t \in Ticks : t \in flushed[p] .. Frontier(p) => Staged(p, in)[t] \in Input
<1>1. ~Rewound(p) /\ SendFrom(p) = flushed[p] /\ flushed[p] \in Nat
  <2>1. flushed[p] \in Nat
    BY LockstepAssumption DEF TypeOK
  <2>2. flushed[p] <= Frontier(p) + 1 /\ Frontier(p) \in Nat
    BY Cursors DEF FirstHalf
  <2> QED
    BY <2>1, <2>2 DEF Rewound, SendFrom
<1>2. tick[p] <= flushed[p] /\ tick[p] \in Nat /\ Frontier(p) \in Nat
  BY Cursors DEF FirstHalf
<1>3. flushed[p] <= Frontier(p) + 1
  BY DEF FirstHalf
<1>4. Greater(SendFrom(p), Frontier(p) + 1) = Frontier(p) + 1
  BY <1>1, <1>2, <1>3 DEF Greater
<1>5. \A t \in Ticks : t < flushed[p] => t \notin Staging(p)
  BY <1>1 DEF Staging, Ticks
<1>6. ASSUME NEW t \in Ticks, t > Frontier(p) PROVE Staged(p, in)[t] = None
  <2>1. t \notin Staging(p)
    BY <1>2, <1>6 DEF Staging, Ticks
  <2>2. ~(t < flushed[p]) /\ ~(t < Delay)
    BY <1>1, <1>2, <1>3, <1>6, Cursors, LockstepAssumption DEF Ticks
  <2>3. local[p][t] = None
    BY <2>2 DEF FirstHalf
  <2> QED
    BY <2>1, <2>3 DEF Staged
<1>7. ASSUME NEW t \in Ticks, t \in flushed[p] .. Frontier(p)
      PROVE  Staged(p, in)[t] \in Input
  <2>1. t \in tick[p] .. Frontier(p) /\ t >= SendFrom(p)
    BY <1>1, <1>2, <1>7
  <2>2. CASE local[p][t] = None \/ t = Frontier(p)
    <3>1. t \in Staging(p)
      BY <2>1, <2>2 DEF Staging
    <3> QED
      BY <3>1 DEF Staged
  <2>3. CASE local[p][t] # None /\ t # Frontier(p)
    <3>1. t \notin Staging(p)
      BY <2>3 DEF Staging
    <3>2. Staged(p, in)[t] = local[p][t]
      BY <3>1 DEF Staged
    <3> QED
      BY <2>3, <3>2 DEF TypeOK, Bytes
  <2> QED BY <2>2, <2>3
<1>8. \A t \in Ticks : t < flushed[p] => Staged(p, in)[t] = local[p][t]
  BY <1>5 DEF Staged
<1> QED
  BY <1>1, <1>2, <1>4, <1>6, <1>7, <1>8

\* The script once p has sent everything of own.
Committed(c, p, own) ==
  [c EXCEPT ![p] = [t \in Ticks |-> IF t < flushed[p] THEN c[p][t] ELSE own[t]]]

\* A frame extends the script by what it sends, and keeps to it.
LEMMA FirstHalfFrame ==
  ASSUME MaxTick < HalfLen,
         TypeOK, NEW c \in Script, FirstHalf(c), NEW p \in Peers,
         NEW n \in 0 .. MaxCatchUp, NEW in \in [Staging(p) -> Input],
         Frame(p, in, n),
         NEW d \in Script, d = Committed(c, p, Staged(p, in))
  PROVE  FirstHalf(d)'
<1> DEFINE q == Peer(p)
           own == Staged(p, in)
           xs == StepInputs(p, own, n)
           to == tick[p] + n
           ht == to - (to % HashEvery)
           shots == Snapshotted(p, log[p], xs)
<1> USE TypeOK
<1>1. /\ q \in Peers /\ q # p /\ Peers = {p, q} /\ Peer(q) = p
      /\ own \in [Ticks -> Bytes]
      /\ n \in Nat /\ tick[p] \in Nat /\ MaxTick \in Nat /\ Delay \in Nat \ {0}
      /\ tick[p] <= MaxTick /\ Frontier(p) = tick[p] + Delay
      /\ to \in 0 .. MaxTick /\ Ticks = 0 .. (MaxTick + Delay)
  <2>1. own \in [Ticks -> Bytes]
    BY StagedType
  <2>3. to \in 0 .. MaxTick
    <3> HIDE DEF own
    <3> QED BY <2>1, StepInputsType DEF Frame, own
  <2>4. n \in Nat /\ MaxTick \in Nat /\ Delay \in Nat \ {0}
    BY LockstepAssumption
  <2>5. tick[p] \in Nat /\ tick[p] <= MaxTick /\ Frontier(p) = tick[p] + Delay
    BY Cursors, LockstepAssumption
  <2>2. q \in Peers /\ q # p /\ Peers = {p, q} /\ Peer(q) = p
    BY DEF Peers, Peer, Host, Guest
  <2> QED
    BY <2>1, <2>2, <2>3, <2>4, <2>5 DEF Ticks
<1>2. /\ ~Rewound(p) /\ SendFrom(p) = flushed[p]
      /\ Greater(SendFrom(p), Frontier(p) + 1) = Frontier(p) + 1
      /\ flushed[p] \in Nat /\ tick[p] <= flushed[p] /\ flushed[p] <= Frontier(p) + 1
      /\ \A t \in Ticks : t < flushed[p] => own[t] = local[p][t]
      /\ \A t \in Ticks : t > Frontier(p) => own[t] = None
      /\ \A t \in Ticks : t \in flushed[p] .. Frontier(p) => own[t] \in Input
  BY FirstHalfWindow DEF FirstHalf
<1>3. /\ d[q] = c[q]
      /\ \A t \in Ticks : t < flushed[p] => d[p][t] = c[p][t]
      /\ \A t \in Ticks : t >= flushed[p] => d[p][t] = own[t]
  BY <1>1, <1>2 DEF Script, Committed
<1>4. ASSUME NEW t \in Ticks, own[t] # None
      PROVE  own[t] = d[p][t] /\ t <= Frontier(p)
  <2>1. t <= Frontier(p)
    BY <1>1, <1>2, <1>4
  <2>2. CASE t < flushed[p]
    BY <1>2, <1>3, <1>4, <2>1, <2>2 DEF FirstHalf
  <2>3. CASE ~(t < flushed[p])
    BY <1>1, <1>2, <1>3, <2>1, <2>3
  <2> QED BY <2>2, <2>3
<1>5. \A t \in tick[p] .. (to - 1) :
         t \in Ticks /\ own[t] # None /\ remote[p][t] # None
  <2>1. CanStep(p, own, n)
    BY DEF Frame
  <2>2. \A t \in tick[p] .. (to - 1) : own[t] # None /\ remote[p][t] # None
    <3> HIDE DEF own, to
    <3> QED BY <1>1, <2>1 DEF CanStep, to
  <2>3. \A t \in tick[p] .. (to - 1) : t \in Ticks
    <3> HIDE DEF own
    <3> QED BY <1>1
  <2> QED
    BY <2>2, <2>3
<1>6. to <= Frontier(p) + 1 /\ to <= flushed[q]
  <2>1. CASE n = 0
    BY <1>1, <1>2, <2>1 DEF FirstHalf
  <2>2. CASE n # 0
    <3>1. to - 1 \in tick[p] .. (to - 1)
      BY <1>1, <2>2
    <3>2. to - 1 \in Ticks /\ own[to - 1] # None /\ remote[p][to - 1] # None
      BY <1>5, <3>1
    <3>3. to - 1 <= Frontier(p) /\ to - 1 < flushed[q]
      BY <1>1, <1>4, <3>2 DEF FirstHalf
    <3>4. flushed[q] \in Nat
      BY <1>1, LockstepAssumption DEF TypeOK
    <3> QED
      BY <1>1, <3>3, <3>4
  <2> QED BY <2>1, <2>2
\* The steps taken are the script's.
<1>7. /\ xs \in Seq(Step) /\ Len(xs) = n
      /\ \A i \in 1 .. n :
           xs[i] = <<d[Host][tick[p] + i - 1], d[Guest][tick[p] + i - 1]>>
  <2>1. xs \in Seq(Step) /\ Len(xs) = n
    BY <1>1, StepInputsType DEF Frame
  <2>2. ASSUME NEW i \in 1 .. n
        PROVE  xs[i] = <<d[Host][tick[p] + i - 1], d[Guest][tick[p] + i - 1]>>
    <3> DEFINE t == tick[p] + i - 1
    <3>1. t \in tick[p] .. (to - 1)
      BY <1>1
    <3>2. t \in Ticks /\ own[t] # None /\ remote[p][t] # None
      BY <1>5, <3>1
    <3>3. own[t] = d[p][t] /\ remote[p][t] = d[q][t]
      BY <1>1, <1>3, <1>4, <3>2 DEF FirstHalf
    <3>4. xs[i] = IF p = Host THEN <<own[t], remote[p][t]>>
                  ELSE <<remote[p][t], own[t]>>
      BY DEF StepInputs
    <3>5. (p = Host /\ q = Guest) \/ (p = Guest /\ q = Host /\ p # Host)
      BY DEF Peers, Peer, Host, Guest
    <3> HIDE DEF own, t, q, xs
    <3> QED
      BY <3>3, <3>4, <3>5 DEF t
  <2> QED BY <2>1, <2>2
\* What had been played agrees with the new script too.
<1>8. ASSUME NEW k \in Nat, k <= flushed[p]
      PROVE  PlayedTo(c, k) = PlayedTo(d, k)
  <2>1. ASSUME NEW t \in 0 .. (k - 1) PROVE t \in Ticks /\ t < flushed[p]
    <3>1. flushed[p] \in Nat /\ flushed[p] <= MaxTick + Delay + 1
      BY <1>1, <1>2
    <3>2. t \in Nat /\ t < k
      BY <1>8
    <3>3. t < flushed[p]
      BY <1>8, <3>1, <3>2
    <3>4. t \in 0 .. (MaxTick + Delay)
      <4> HIDE DEF own, xs, to, shots
      <4> QED BY <1>1, <3>1, <3>2, <3>3
    <3> QED
      BY <1>1, <3>3, <3>4
  <2>2. \A r \in Peers : \A t \in 0 .. (k - 1) : c[r][t] = d[r][t]
    BY <1>1, <1>3, <2>1
  <2> QED
    BY <2>2, PlayedSame
<1>9. log[p] = PlayedTo(d, tick[p])
  BY <1>1, <1>2, <1>8 DEF FirstHalf
<1>10. ASSUME NEW j \in 0 .. n
       PROVE  Updated(log[p], SubSeq(xs, 1, j)) = PlayedTo(d, tick[p] + j)
  <2> DEFINE ys == SubSeq(xs, 1, j)
  <2>1. /\ ys \in Seq(Step) /\ Len(ys) = j
        /\ \A i \in 1 .. j : ys[i] = xs[i]
    <3>1. j \in Int /\ \A i \in 1 .. j : i \in 1 .. Len(xs) /\ xs[i] \in Step
      BY <1>1, <1>7, ElementOfSeq
    <3> HIDE DEF xs
    <3>2. /\ ys \in Seq(Step)
          /\ Len(ys) = IF 1 <= j THEN j - 1 + 1 ELSE 0
          /\ \A i \in 1 .. (j - 1 + 1) : ys[i] = xs[1 + i - 1]
      BY <3>1, SubSeqProperties
    <3> HIDE DEF ys
    <3>3. \A i \in 1 .. j : 1 + i - 1 = i
      OBVIOUS
    <3> QED
      BY <1>1, <3>2, <3>3
  <2>2. \A i \in 1 .. j :
          ys[i] = <<d[Host][tick[p] + i - 1], d[Guest][tick[p] + i - 1]>>
    <3>1. \A i \in 1 .. j : i \in 1 .. n
      BY <1>1
    <3> HIDE DEF xs, ys
    <3> QED
      BY <1>7, <2>1, <3>1
  <2>3. tick[p] \in 0 .. MaxTick /\ tick[p] + j <= MaxTick
    BY <1>1
  <2> HIDE DEF ys
  <2> QED
    BY <1>9, <2>1, <2>2, <2>3, PlayedOn DEF ys
<1>11. Updated(log[p], xs) = PlayedTo(d, to)
  <2>1. SubSeq(xs, 1, n) = xs
    BY <1>7, SubSeqFull
  <2>2. n \in 0 .. n
    BY <1>1
  <2> QED
    BY <1>10, <2>1, <2>2
\* The state after the frame.
<1>12. /\ tick' = [tick EXCEPT ![p] = to]
       /\ flushed' = [flushed EXCEPT ![p] = Frontier(p) + 1]
       /\ local' = [local EXCEPT ![p] = own]
       /\ log' = [log EXCEPT ![p] = PlayedTo(d, to)]
       /\ snaps' = [snaps EXCEPT ![p] = shots]
       /\ remote' = remote
       /\ halfPending' = [halfPending EXCEPT ![p] = @ /\ Phase(log[p]) # "halftime"]
       /\ desynced' = [desynced EXCEPT ![p] = FALSE]
  <2>1. ~halfPending[p]
    BY DEF FirstHalf
  <2> QED
    BY <1>2, <1>11, <2>1 DEF Frame
<1>13. tick'[p] = to /\ flushed'[p] = Frontier(p) + 1 /\ tick'[q] = tick[q]
       /\ flushed'[q] = flushed[q] /\ flushed[p] <= flushed'[p]
       /\ tick[p] <= to
  <2>1. DOMAIN tick = Peers /\ DOMAIN flushed = Peers
    BY DEF TypeOK
  <2> HIDE DEF to, own, xs, shots, q
  <2>2. tick'[p] = to /\ flushed'[p] = Frontier(p) + 1
        /\ tick'[q] = tick[q] /\ flushed'[q] = flushed[q]
    BY <1>1, <1>12, <2>1
  <2>3. tick[p] <= to
    BY <1>1 DEF to
  <2> QED
    BY <1>2, <2>2, <2>3
<1>14. screen'[p] = "match" /\ screen' = [screen EXCEPT ![p] = @]
  <2>1. Len(PlayedTo(d, to)) = to
    BY <1>1, PlayedType
  <2>2. to # HalfLen /\ to # 2 * HalfLen + 1
    BY <1>1, LockstepAssumption
  <2>5. Phase(PlayedTo(d, to)) = "playing"
    <3> HIDE DEF to
    <3> QED BY <2>1, <2>2 DEF Phase
  <2>3. screen'[p] = ScreenAfter(PlayedTo(d, to))
    BY <1>11 DEF Frame, FirstHalf, TypeOK
  <2>4. ScreenAfter(PlayedTo(d, to)) = "match"
    BY <2>5 DEF ScreenAfter
  <2> QED
    BY <2>3, <2>4 DEF Frame, TypeOK
<1> HIDE DEF own, xs, to, shots, q
<1>15. ASSUME NEW r \in Peers PROVE log'[r] = PlayedTo(d, tick'[r])
  <2>1. CASE r = p
    BY <1>12, <1>13, <2>1 DEF TypeOK
  <2>2. CASE r = q
    <3>1. tick[q] \in Nat /\ tick[q] <= flushed[p]
      BY <1>1, Cursors DEF FirstHalf
    <3>2. log'[q] = log[q] /\ log[q] = PlayedTo(c, tick[q])
      BY <1>1, <1>12 DEF FirstHalf
    <3> QED
      BY <1>8, <1>13, <2>2, <3>1, <3>2
  <2> QED BY <1>1, <2>1, <2>2
<1>16. ASSUME NEW r \in Peers PROVE flushed'[r] <= tick'[r] + Delay + 1
  <2>1. CASE r = p
    BY <1>1, <1>13, <2>1
  <2>2. CASE r = q
    BY <1>1, <1>13, <2>2 DEF FirstHalf, Frontier
  <2> QED BY <1>1, <2>1, <2>2
<1>17. ASSUME NEW r \in Peers, NEW s \in Peers PROVE tick'[r] <= flushed'[s]
  <2>1. /\ tick[q] \in Nat /\ flushed[q] \in Nat
        /\ tick[q] <= flushed[p] /\ tick[q] <= flushed[q]
    BY <1>1, LockstepAssumption DEF FirstHalf, TypeOK
  <2>2. tick[q] <= Frontier(p) + 1
    BY <1>1, <1>2, <2>1
  <2> QED
    BY <1>1, <1>6, <1>13, <2>1, <2>2
<1>18. ASSUME NEW r \in Peers, NEW t \in Ticks, local'[r][t] # None
       PROVE  IF t < flushed'[r] THEN local'[r][t] = d[r][t] ELSE t < Delay
  <2>1. CASE r = p
    <3>1. local'[p][t] = own[t]
      BY <1>1, <1>12 DEF TypeOK
    <3>2. own[t] = d[p][t] /\ t <= Frontier(p)
      BY <1>4, <1>18, <2>1, <3>1
    <3> QED
      BY <1>1, <1>13, <2>1, <3>1, <3>2
  <2>2. CASE r = q
    BY <1>1, <1>3, <1>12, <1>13, <1>18, <2>2 DEF FirstHalf
  <2> QED BY <1>1, <2>1, <2>2
<1>19. ASSUME NEW r \in Peers, NEW t \in Ticks, remote'[r][t] # None
       PROVE  t < flushed'[Peer(r)] /\ remote'[r][t] = d[Peer(r)][t]
  <2>1. remote[r][t] # None /\ t < flushed[Peer(r)] /\ remote[r][t] = c[Peer(r)][t]
    BY <1>12, <1>19 DEF FirstHalf
  <2>2. CASE r = p
    BY <1>1, <1>3, <1>12, <1>13, <2>1, <2>2 DEF q
  <2>3. CASE r = q
    BY <1>1, <1>2, <1>3, <1>12, <1>13, <2>1, <2>3
  <2> QED BY <1>1, <2>2, <2>3
<1>20. ASSUME NEW r \in Peers, NEW t \in Ticks, snaps'[r][t] # None
       PROVE  t <= tick'[r] /\ snaps'[r][t] = PlayedTo(d, t)
  <2>1. ASSUME NEW o \in Peers, snaps[o][t] # None, tick[o] <= tick'[o]
        PROVE  t <= tick'[o] /\ snaps[o][t] = PlayedTo(d, t)
    <3>1. t <= tick[o] /\ snaps[o][t] = PlayedTo(c, t) /\ tick[o] <= flushed[p]
      BY <2>1 DEF FirstHalf
    <3>2. t \in Nat /\ tick[o] \in Nat /\ tick'[o] \in Nat
      <4>1. t \in Nat /\ tick[o] \in Nat
        <5>1. t \in Nat
          BY <1>1
        <5>2. tick[o] \in Nat
          BY Cursors
        <5> QED BY <5>1, <5>2
      <4>2. tick'[p] \in Nat /\ tick'[q] \in Nat
        BY <1>1, <1>13, Cursors
      <4> QED
        BY <1>1, <4>1, <4>2
    <3>3. t <= flushed[p] /\ t <= tick'[o]
      BY <1>2, <2>1, <3>1, <3>2
    <3>4. PlayedTo(c, t) = PlayedTo(d, t)
      BY <1>8, <3>2, <3>3
    <3> QED
      BY <3>1, <3>3, <3>4
  <2>2. CASE r = q
    BY <1>1, <1>12, <1>13, <1>20, <2>1, <2>2, Cursors
  <2>3. CASE r = p
    <3>1. snaps'[p][t] = shots[t]
      BY <1>1, <1>12 DEF TypeOK
    <3>2. CASE t \in tick[p] .. (tick[p] + Len(xs) - 1) /\ t % HashEvery = 0
      <4>1. shots[t] = Updated(log[p], SubSeq(xs, 1, t - tick[p]))
        BY <3>2 DEF shots, Snapshotted
      <4>2. t - tick[p] \in 0 .. n /\ tick[p] + (t - tick[p]) = t /\ t <= to
        BY <1>1, <1>7, <3>2 DEF to
      <4> QED
        BY <1>10, <1>13, <2>3, <3>1, <4>1, <4>2
    <3>3. CASE ~(t \in tick[p] .. (tick[p] + Len(xs) - 1) /\ t % HashEvery = 0)
      <4>1. shots[t] = snaps[p][t]
        BY <3>3 DEF shots, Snapshotted
      <4> QED
        BY <1>13, <1>20, <2>1, <2>3, <3>1, <4>1
    <3> QED BY <3>2, <3>3
  <2> QED BY <1>1, <2>2, <2>3
\* What was on its way is still good.
<1>21. ASSUME NEW r \in Peers, NEW m \in FirstHalfPackets(c, r)
       PROVE  m \in FirstHalfPackets(d, r)'
  <2>1. Peer(r) \in Peers /\ tick[Peer(r)] \in Nat /\ flushed[Peer(r)] \in Nat
        /\ tick'[Peer(r)] \in Nat /\ flushed'[Peer(r)] \in Nat
        /\ tick[Peer(r)] <= tick'[Peer(r)] /\ flushed[Peer(r)] <= flushed'[Peer(r)]
        /\ tick[Peer(r)] <= flushed[p]
    <3>1. Peer(r) \in Peers
      BY PeerType
    <3>2. /\ tick[p] \in Nat /\ flushed[p] \in Nat /\ tick'[p] \in Nat /\ flushed'[p] \in Nat
          /\ tick[p] <= tick'[p]
      BY <1>1, <1>2, <1>13
    <3>3. tick[q] \in Nat /\ flushed[q] \in Nat
      BY <1>1, Cursors, LockstepAssumption DEF TypeOK
    <3>4. tick[Peer(r)] <= flushed[p]
      BY <3>1 DEF FirstHalf
    <3> QED
      BY <1>1, <1>13, <3>1, <3>2, <3>3, <3>4
  <2>2. m \in Packet
    BY <1>21 DEF FirstHalfPackets
  <2>3. CASE m.kind = "input" /\ m.tick < flushed[Peer(r)] /\ m.bytes = c[Peer(r)][m.tick]
    <3>1. m.tick \in Ticks
      BY <2>2, <2>3 DEF Packet
    <3>2. m.tick < flushed'[Peer(r)]
      BY <1>1, <2>1, <2>3, <3>1
    <3>3. m.bytes = d[Peer(r)][m.tick]
      BY <1>1, <1>3, <2>1, <2>3, <3>1
    <3> QED
      BY <2>2, <2>3, <3>2, <3>3 DEF FirstHalfPackets
  <2>4. CASE m.kind = "hash" /\ m.tick <= tick[Peer(r)] /\ m.log = PlayedTo(c, m.tick)
    <3>1. m.tick \in 0 .. MaxTick
      BY <2>2, <2>4 DEF Packet
    <3>2. m.tick \in Nat /\ m.tick <= tick'[Peer(r)] /\ m.tick <= flushed[p]
      BY <1>1, <1>2, <2>1, <2>4, <3>1
    <3>3. m.log = PlayedTo(d, m.tick)
      BY <1>8, <2>4, <3>2
    <3> QED
      BY <2>2, <2>4, <3>2, <3>3 DEF FirstHalfPackets
  <2>5. CASE m.kind \in {"pause", "resume", "quit"}
    BY <2>2, <2>5 DEF FirstHalfPackets
  <2> QED
    BY <2>3, <2>4, <2>5, <1>21 DEF FirstHalfPackets
\* What the frame sends is good.
<1>22. PICK ps \in Seq(FirstHalfPackets(d, q)') : inbox' = Sent(inbox, p, ps)
  <2> DEFINE due == ht # (IF Rewound(p) THEN -1 ELSE lastHash[p]) /\ shots[ht] # None
             hash == IF due THEN <<HashPacket(ht, shots[ht])>> ELSE <<>>
             S == FirstHalfPackets(d, q)'
  <2>1. inbox' = Sent(inbox, p, Outgoing(p, own) \o hash \o <<>>)
    BY DEF Frame, FirstHalf, own, xs, to, shots
  <2>2. Outgoing(p, own) \in Seq(S)
    <3> DEFINE w == Frontier(p) + 1 - flushed[p]
    <3>1. w \in Nat
      BY <1>1, <1>2
    <3>2. Outgoing(p, own) =
            [k \in 1 .. w |-> InputPacket(flushed[p] + k - 1, own[flushed[p] + k - 1])]
      BY <1>2 DEF Outgoing
    <3>3. ASSUME NEW k \in 1 .. w
          PROVE  InputPacket(flushed[p] + k - 1, own[flushed[p] + k - 1]) \in S
      <4> DEFINE t == flushed[p] + k - 1
      <4>1. t \in flushed[p] .. Frontier(p) /\ t \in Ticks /\ t < Frontier(p) + 1
        <5>1. Frontier(p) \in Nat /\ Frontier(p) <= MaxTick + Delay
              /\ flushed[p] \in Nat /\ k \in Nat /\ 1 <= k
              /\ k <= Frontier(p) + 1 - flushed[p]
          BY <1>1, <1>2
        <5>2. t \in Nat /\ flushed[p] <= t /\ t <= Frontier(p)
          BY <5>1
        <5>3. t \in 0 .. (MaxTick + Delay)
          <6> HIDE DEF t
          <6> QED BY <1>1, <5>1, <5>2
        <5> HIDE DEF t
        <5> QED
          BY <1>1, <5>1, <5>2, <5>3
      <4>2. own[t] \in Input /\ own[t] = d[p][t] /\ t < flushed'[p] /\ p = Peer(q)
        BY <1>1, <1>2, <1>3, <1>13, <4>1
      <4> HIDE DEF t
      <4>3. InputPacket(t, own[t]) \in Packet
        BY <4>1, <4>2 DEF InputPacket, Packet, Bytes
      <4>4. InputPacket(t, own[t]) \in S
        BY <4>2, <4>3 DEF InputPacket, FirstHalfPackets
      <4> QED
        BY <4>4 DEF t
    <3> HIDE DEF S, w
    <3> QED
      BY <3>1, <3>2, <3>3, SeqDef
  <2>3. hash \in Seq(S)
    <3>1. CASE due
      <4>1. ht \in 0 .. to
        <5>1. to \in Nat
          BY <1>1
        <5> QED BY <5>1, HashTick DEF ht
      <4>2. ht \in 0 .. MaxTick /\ ht \in Ticks
        BY <1>1, <4>1
      <4>3. snaps'[p][ht] = shots[ht] /\ shots[ht] # None
        BY <1>1, <1>12, <3>1 DEF TypeOK
      <4>4. shots[ht] = PlayedTo(d, ht)
        BY <1>20, <4>2, <4>3
      <4>5. PlayedTo(d, ht) \in Seq(Step)
        BY <4>2, PlayedType
      <4>6. HashPacket(ht, shots[ht]) \in Packet
        BY <4>2, <4>4, <4>5 DEF HashPacket, Packet
      <4>7. HashPacket(ht, shots[ht]) \in S
        <5>1. ht <= tick'[Peer(q)]
          BY <1>1, <1>13, <4>1
        <5> QED
          BY <4>4, <4>6, <5>1 DEF HashPacket, FirstHalfPackets
      <4>8. <<HashPacket(ht, shots[ht])>> \in Seq(S)
        <5> HIDE DEF S
        <5> QED BY <4>7
      <4> QED
        BY <3>1, <4>8
    <3>2. CASE ~due
      BY <3>2, EmptySeq
    <3> QED BY <3>1, <3>2
  <2> HIDE DEF hash, S
  <2>4. Outgoing(p, own) \o hash \o <<>> \in Seq(S)
    BY <2>2, <2>3, EmptySeq, ConcatProperties
  <2> QED
    BY <2>1, <2>4 DEF S
<1>23. ASSUME NEW r \in Peers PROVE inbox'[r] \in Seq(FirstHalfPackets(d, r)')
  <2>1. inbox[r] \in Seq(FirstHalfPackets(d, r)')
    <3>1. FirstHalfPackets(c, r) \subseteq FirstHalfPackets(d, r)'
      BY <1>21
    <3>2. inbox[r] \in Seq(FirstHalfPackets(c, r))
      BY DEF FirstHalf
    <3> HIDE <1>21
    <3> QED
      BY <3>1, <3>2, SeqMonotonic
  <2>2. CASE inbox' = inbox
    BY <2>1, <2>2
  <2>3. CASE inbox' = [inbox EXCEPT ![q] = @ \o ps]
    <3>1. CASE r = q
      <4>1. inbox'[q] = inbox[q] \o ps
        BY <1>1, <2>3 DEF TypeOK
      <4> QED
        BY <1>22, <2>1, <3>1, <4>1, ConcatProperties
    <3>2. CASE r = p
      BY <1>1, <2>1, <2>3, <3>2
    <3> QED BY <1>1, <3>1, <3>2
  <2> QED
    BY <1>22, <2>2, <2>3 DEF Sent, q
<1>24. \A r \in Peers :
         screen'[r] \notin {"half", "full", "city"} /\ ~halfPending'[r] /\ ~desynced'[r]
  BY <1>1, <1>12, <1>14 DEF FirstHalf, TypeOK
<1>25. \A r \in Peers : Frontier(r)' = tick'[r] + Delay
  BY DEF Frontier
<1>26. ASSUME NEW r \in Peers, NEW t \in Ticks, t < flushed'[r] PROVE d[r][t] # None
  <2>1. CASE r = p
    <3>1. CASE t < flushed[p]
      BY <1>3, <2>1, <3>1 DEF FirstHalf
    <3>2. CASE ~(t < flushed[p])
      <4>1. t \in flushed[p] .. Frontier(p)
        BY <1>1, <1>2, <1>13, <1>26, <2>1, <3>2
      <4> QED
        BY <1>1, <1>2, <1>3, <2>1, <3>2, <4>1, LockstepAssumption
    <3> QED BY <3>1, <3>2
  <2>2. CASE r = q
    BY <1>3, <1>13, <1>26, <2>2 DEF FirstHalf
  <2> QED BY <1>1, <2>1, <2>2
<1> QED
  BY <1>15, <1>16, <1>17, <1>18, <1>19, <1>20, <1>23, <1>24, <1>25, <1>26 DEF FirstHalf

\* What every step but a frame has to show: nothing is stepped or sent, entries
\* of the maps are at most forgotten, and what is in flight stays good.
LEMMA FirstHalfKept ==
  ASSUME NEW c \in Script, FirstHalf(c),
         UNCHANGED <<tick, log, flushed, halfPending, desynced>>,
         \A p \in Peers : screen'[p] \notin {"half", "full", "city"},
         \A p \in Peers : \A t \in Ticks :
           /\ local'[p][t] # None => local'[p][t] = local[p][t]
           /\ snaps'[p][t] # None => snaps'[p][t] = snaps[p][t]
           /\ remote'[p][t] # None =>
                \/ remote'[p][t] = remote[p][t]
                \/ t < flushed[Peer(p)] /\ remote'[p][t] = c[Peer(p)][t],
         \A p \in Peers : inbox'[p] \in Seq(FirstHalfPackets(c, p))
  PROVE  FirstHalf(c)'
<1>1. \A p \in Peers : FirstHalfPackets(c, p)' = FirstHalfPackets(c, p)
  BY DEF FirstHalfPackets
<1>2. \A p \in Peers : Frontier(p)' = Frontier(p)
  BY DEF Frontier
<1>3. \A p \in Peers : \A t \in Ticks : local'[p][t] # None =>
         IF t < flushed'[p] THEN local'[p][t] = c[p][t] ELSE t < Delay
  BY DEF FirstHalf
<1>4. \A p \in Peers : \A t \in Ticks : remote'[p][t] # None =>
         t < flushed'[Peer(p)] /\ remote'[p][t] = c[Peer(p)][t]
  BY DEF FirstHalf
<1>5. \A p \in Peers : \A t \in Ticks : snaps'[p][t] # None =>
         t <= tick'[p] /\ snaps'[p][t] = PlayedTo(c, t)
  BY DEF FirstHalf
<1> QED
  BY <1>1, <1>2, <1>3, <1>4, <1>5 DEF FirstHalf

\* What is in flight stays good when a peer says "pause", "resume" or "quit",
\* takes a packet, or loses its packets.
LEMMA FirstHalfInbox ==
  ASSUME TypeOK, NEW c \in Script, FirstHalf(c), NEW p \in Peers,
         NEW k \in {"pause", "resume", "quit"},
         NEW box, box = inbox \/ (inbox[p] # <<>> /\ box = Consumed(p))
  PROVE  /\ \A r \in Peers : box[r] \in Seq(FirstHalfPackets(c, r))
         /\ \A r \in Peers : Sent(box, p, <<Control(k)>>)[r] \in Seq(FirstHalfPackets(c, r))
         /\ \A r \in Peers :
              [Sent(box, p, <<Control(k)>>) EXCEPT ![p] = <<>>][r]
                \in Seq(FirstHalfPackets(c, r))
<1>1. DOMAIN inbox = Peers /\ \A r \in Peers : inbox[r] \in Seq(FirstHalfPackets(c, r))
  BY DEF TypeOK, FirstHalf
<1>2. DOMAIN box = Peers /\ \A r \in Peers : box[r] \in Seq(FirstHalfPackets(c, r))
  <2>1. CASE box = inbox
    BY <1>1, <2>1
  <2>2. CASE inbox[p] # <<>> /\ box = Consumed(p)
    BY <1>1, <2>2, FirstHalfHead DEF Consumed
  <2> QED BY <2>1, <2>2
<1>3. \A r \in Peers : <<Control(k)>> \in Seq(FirstHalfPackets(c, r))
  <2>1. \A r \in Peers : Control(k) \in FirstHalfPackets(c, r)
    BY DEF Control, FirstHalfPackets, Packet
  <2> QED BY <2>1
<1> DEFINE after == Sent(box, p, <<Control(k)>>)
<1>4. DOMAIN after = Peers /\ \A r \in Peers : after[r] \in Seq(FirstHalfPackets(c, r))
  <2>1. CASE after = box
    BY <1>2, <2>1
  <2>2. CASE after = [box EXCEPT ![Peer(p)] = @ \o <<Control(k)>>]
    <3>1. Peer(p) \in Peers
      BY PeerType
    <3>2. box[Peer(p)] \o <<Control(k)>> \in Seq(FirstHalfPackets(c, Peer(p)))
      BY <1>2, <1>3, <3>1, ConcatProperties
    <3> QED
      BY <1>2, <2>2, <3>1, <3>2
  <2> QED
    BY <2>1, <2>2 DEF Sent
<1> HIDE DEF after
<1>5. \A r \in Peers : [after EXCEPT ![p] = <<>>][r] \in Seq(FirstHalfPackets(c, r))
  BY <1>4, EmptySeq
<1> QED
  BY <1>2, <1>4, <1>5 DEF after

LEMMA FirstHalfLeave ==
  ASSUME TypeOK, NEW c \in Script, FirstHalf(c), NEW p \in Peers, Leave(p)
  PROVE  FirstHalf(c)'
<1>1. \A r \in Peers : inbox'[r] \in Seq(FirstHalfPackets(c, r))
  BY FirstHalfInbox DEF Leave
<1>2. \A r \in Peers : screen'[r] \notin {"half", "full", "city"}
  BY DEF Leave, FirstHalf, TypeOK
<1> QED
  BY <1>1, <1>2, FirstHalfKept DEF Leave, session, driver

LEMMA FirstHalfLink ==
  ASSUME TypeOK, NEW c \in Script, FirstHalf(c),
         LinkDies \/ \E p \in Peers : LinkClosed(p) \/ StallOut(p)
  PROVE  FirstHalf(c)'
<1>1. CASE LinkDies
  <2>1. \A r \in Peers : inbox'[r] \in Seq(FirstHalfPackets(c, r))
    BY <1>1, EmptySeq DEF LinkDies
  <2> QED
    BY <1>1, <2>1, FirstHalfKept DEF LinkDies, session, driver, FirstHalf
<1>2. ASSUME NEW p \in Peers, LinkClosed(p) PROVE FirstHalf(c)'
  <2>1. \A r \in Peers : inbox'[r] \in Seq(FirstHalfPackets(c, r))
    BY <1>2, EmptySeq DEF LinkClosed, FirstHalf, TypeOK
  <2>2. \A r \in Peers : screen'[r] \notin {"half", "full", "city"}
    BY <1>2 DEF LinkClosed, FirstHalf, TypeOK
  <2> QED
    BY <1>2, <2>1, <2>2, FirstHalfKept DEF LinkClosed, session, driver
<1>3. ASSUME NEW p \in Peers, StallOut(p) PROVE FirstHalf(c)'
  BY <1>3, FirstHalfLeave DEF StallOut
<1> QED
  BY <1>1, <1>2, <1>3

LEMMA FirstHalfUser ==
  ASSUME TypeOK, NEW c \in Script, FirstHalf(c), NEW p \in Peers,
         User(p) \/ Continue(p)
  PROVE  FirstHalf(c)'
<1>1. CASE Pause(p)
  <2>1. \A r \in Peers : inbox'[r] \in Seq(FirstHalfPackets(c, r))
    BY <1>1, FirstHalfInbox DEF Pause
  <2>2. \A r \in Peers : screen'[r] \notin {"half", "full", "city"}
    BY <1>1 DEF Pause, FirstHalf, TypeOK
  <2> QED
    BY <1>1, <2>1, <2>2, FirstHalfKept DEF Pause, session, driver
<1>2. CASE Resume(p)
  <2>1. \A r \in Peers : inbox'[r] \in Seq(FirstHalfPackets(c, r))
    BY <1>2, FirstHalfInbox DEF Resume
  <2>2. \A r \in Peers : screen'[r] \notin {"half", "full", "city"}
    BY <1>2 DEF Resume, FirstHalf, TypeOK
  <2> QED
    BY <1>2, <2>1, <2>2, FirstHalfKept DEF Resume, session, driver
<1>3. CASE Quit(p)
  BY <1>3, FirstHalfLeave DEF Quit
<1>4. ~Continue(p) /\ ~WorldTable(p)
  BY DEF Continue, HostContinues, GuestContinues, WorldTable, FirstHalf, Peers, Host, Guest
<1> QED
  BY <1>1, <1>2, <1>3, <1>4 DEF User

LEMMA FirstHalfReceive ==
  ASSUME TypeOK, NEW c \in Script, FirstHalf(c), NEW p \in Peers, Receive(p)
  PROVE  FirstHalf(c)'
<1> DEFINE m == Head(inbox[p])
<1>1. inbox[p] # <<>> /\ m \in FirstHalfPackets(c, p)
  <2>1. inbox[p] # <<>>
    BY DEF Receive, ReceiveRemote, ReceiveHash, ReceiveResyncRequest, ReceiveSnapshot,
           ReceivePause, ReceiveResume, ReceiveContinueHalf, ReceiveQuit, Arrives
  <2> QED
    BY <2>1, FirstHalfHead
<1>2. \A r \in Peers : Consumed(p)[r] \in Seq(FirstHalfPackets(c, r))
  BY <1>1, FirstHalfInbox
<1>3. m.kind \in {"input", "hash", "pause", "resume", "quit"}
  BY <1>1 DEF FirstHalfPackets
<1>4. CASE ReceiveRemote(p)
  <2>1. /\ m.kind = "input" /\ m.tick < flushed[Peer(p)]
        /\ m.bytes = c[Peer(p)][m.tick]
    BY <1>1, <1>4 DEF ReceiveRemote, Arrives, FirstHalfPackets
  <2>2. ASSUME NEW r \in Peers, NEW t \in Ticks
        PROVE  /\ local'[r][t] # None => local'[r][t] = local[r][t]
               /\ snaps'[r][t] # None => snaps'[r][t] = snaps[r][t]
               /\ remote'[r][t] # None =>
                    \/ remote'[r][t] = remote[r][t]
                    \/ t < flushed[Peer(r)] /\ remote'[r][t] = c[Peer(r)][t]
    <3>1. CASE r = p
      <4>1. /\ local' = [local EXCEPT ![p] = Pruned(local[p], m.tick)]
            /\ snaps' = [snaps EXCEPT ![p] = Pruned(snaps[p], m.tick)]
            /\ remote' = [remote EXCEPT ![p] =
                 Pruned([remote[p] EXCEPT ![m.tick] = m.bytes], m.tick)]
        BY <1>4 DEF ReceiveRemote
      <4> HIDE DEF m
      <4>2. /\ local'[p] = Pruned(local[p], m.tick)
            /\ snaps'[p] = Pruned(snaps[p], m.tick)
            /\ remote'[p] = Pruned([remote[p] EXCEPT ![m.tick] = m.bytes], m.tick)
        BY <4>1 DEF TypeOK
      <4>3. remote'[p][t] # None =>
              remote'[p][t] = [remote[p] EXCEPT ![m.tick] = m.bytes][t]
        BY <4>2 DEF Pruned
      <4>4. remote[p] \in [Ticks -> Bytes]
        BY DEF TypeOK
      <4>5. [remote[p] EXCEPT ![m.tick] = m.bytes][t] = remote[p][t]
              \/ (t = m.tick /\ [remote[p] EXCEPT ![m.tick] = m.bytes][t] = m.bytes)
        BY <4>4
      <4> QED
        BY <2>1, <3>1, <4>2, <4>3, <4>5 DEF Pruned
    <3>2. CASE r # p
      BY <1>4, <3>2 DEF ReceiveRemote, TypeOK
    <3> QED BY <3>1, <3>2
  <2>3. inbox' = Consumed(p) /\ \A r \in Peers : screen'[r] \notin {"half", "full", "city"}
    BY <1>4 DEF ReceiveRemote, FirstHalf
  <2>4. UNCHANGED <<tick, log, flushed, halfPending, desynced>>
    BY <1>4 DEF ReceiveRemote, driver
  <2> QED
    BY <1>2, <2>2, <2>3, <2>4, FirstHalfKept
<1>5. CASE ReceiveHash(p)
  <2>1. /\ m.kind = "hash" /\ m.log = PlayedTo(c, m.tick) /\ m.tick \in Ticks
    <3>1. m.kind = "hash"
      BY <1>5 DEF ReceiveHash, Arrives
    <3>2. m.tick \in 0 .. MaxTick
      BY <1>1, <3>1 DEF FirstHalfPackets, Packet
    <3> QED
      BY <1>1, <3>1, <3>2, LockstepAssumption DEF FirstHalfPackets, Ticks
  <2>2. Comparable(p, m.tick) => StateAt(p, m.tick) = m.log
    BY <2>1 DEF Comparable, StateAt, FirstHalf
  <2>3. desynced' = desynced
    BY <1>5, <2>2 DEF ReceiveHash, FirstHalf, TypeOK
  <2> QED
    BY <1>2, <1>5, <2>3, FirstHalfKept DEF ReceiveHash, FirstHalf
<1>6. CASE ReceivePause(p)
  <2>1. \A r \in Peers : inbox'[r] \in Seq(FirstHalfPackets(c, r))
    BY <1>1, <1>2, <1>6, FirstHalfInbox DEF ReceivePause
  <2>2. \A r \in Peers : screen'[r] \notin {"half", "full", "city"}
    BY <1>6 DEF ReceivePause, FirstHalf, TypeOK
  <2> QED
    BY <1>6, <2>1, <2>2, FirstHalfKept DEF ReceivePause, session, driver
<1>7. CASE ReceiveResume(p)
  <2>1. \A r \in Peers : screen'[r] \notin {"half", "full", "city"}
    BY <1>7 DEF ReceiveResume, FirstHalf, TypeOK
  <2> QED
    BY <1>2, <1>7, <2>1, FirstHalfKept DEF ReceiveResume, session, driver
<1>8. CASE ReceiveQuit(p)
  BY <1>8, FirstHalfLeave DEF ReceiveQuit
<1>9. ~ReceiveResyncRequest(p) /\ ~ReceiveSnapshot(p) /\ ~ReceiveContinueHalf(p)
  BY <1>3 DEF ReceiveResyncRequest, ReceiveSnapshot, ReceiveContinueHalf, Arrives
<1> QED
  BY <1>4, <1>5, <1>6, <1>7, <1>8, <1>9 DEF Receive

LEMMA FirstHalfNext ==
  ASSUME MaxTick < HalfLen, FirstHalfInv, [Next]_vars
  PROVE  FirstHalfInv'
<1> USE DEF FirstHalfInv
<1>1. TypeOK'
  BY NextType
<1>2. PICK c \in Script : FirstHalf(c)
  OBVIOUS
<1>3. ASSUME NEW p \in Peers, Render(p) PROVE \E d \in Script : FirstHalf(d)'
  <2>1. PICK n \in 0 .. MaxCatchUp, in \in [Staging(p) -> Input] : Frame(p, in, n)
    BY <1>3 DEF Render
  <2>2. Staged(p, in) \in [Ticks -> Bytes]
    BY StagedType
  <2>3. PICK d \in Script : d = Committed(c, p, Staged(p, in))
    BY <1>2, <2>2 DEF Script, Committed
  <2>4. TypeOK /\ MaxTick < HalfLen
    OBVIOUS
  <2>5. FirstHalf(d)'
    BY <1>2, <2>1, <2>3, <2>4, FirstHalfFrame
  <2> QED
    BY <2>5
<1>4. ASSUME UNCHANGED vars PROVE \E d \in Script : FirstHalf(d)'
  <2>1. FirstHalf(c)'
    BY <1>2, <1>4 DEF vars, session, driver, FirstHalf, Frontier, FirstHalfPackets
  <2> QED
    BY <2>1
<1>5. ASSUME NEW p \in Peers, Receive(p) \/ User(p) \/ Continue(p)
      PROVE  \E d \in Script : FirstHalf(d)'
  <2>1. FirstHalf(c)'
    BY <1>2, <1>5, FirstHalfReceive, FirstHalfUser
  <2> QED
    BY <2>1
<1>6. ASSUME LinkDies \/ \E p \in Peers : LinkClosed(p) \/ StallOut(p)
      PROVE  \E d \in Script : FirstHalf(d)'
  <2>1. FirstHalf(c)'
    BY <1>2, <1>6, FirstHalfLink
  <2> QED
    BY <2>1
<1>7. \E d \in Script : FirstHalf(d)'
  BY <1>3, <1>4, <1>5, <1>6 DEF Next
<1>8. (\E d \in Script : FirstHalf(d))'
  BY <1>7 DEF Script
<1> QED
  BY <1>1, <1>8 DEF FirstHalfInv, Script

LEMMA FirstHalfHolds ==
  ASSUME MaxTick < HalfLen
  PROVE  Spec => []FirstHalfInv
<1>1. FirstHalfInv /\ [Next]_vars => FirstHalfInv'
  BY FirstHalfNext
<1> QED
  BY <1>1, FirstHalfInit, PTL DEF Spec

\* However frames, packets, pauses, stalls, departures and link failures
\* interleave, two peers that have not reached half time have stepped the same
\* inputs for every tick both have stepped (session.ts, header).
THEOREM FirstHalfPlayedAlike ==
  ASSUME MaxTick < HalfLen
  PROVE  Spec => []PlayedAlike
<1>1. FirstHalfInv => PlayedAlike
  <2> SUFFICES ASSUME TypeOK, NEW c \in Script, FirstHalf(c),
                      NEW k \in 1 .. Lesser(Len(log[Host]), Len(log[Guest]))
               PROVE  log[Host][k] = log[Guest][k]
    BY DEF FirstHalfInv, PlayedAlike
  <2>1. \A p \in Peers : /\ tick[p] \in 0 .. MaxTick
                         /\ log[p] = PlayedTo(c, tick[p]) /\ Len(log[p]) = tick[p]
    BY PlayedType DEF TypeOK, FirstHalf
  <2>2. k \in 1 .. tick[Host] /\ k \in 1 .. tick[Guest]
    BY <2>1, LockstepAssumption DEF Lesser, Peers
  <2>3. \A p \in Peers : k \in 1 .. tick[p] =>
          log[p][k] = <<c[Host][k - 1], c[Guest][k - 1]>>
    BY <2>1 DEF PlayedTo
  <2> QED
    BY <2>2, <2>3 DEF Peers
<1> QED
  BY <1>1, FirstHalfHolds, PTL

\* In the first half the hash exchange never counts a desync, and no peer is
\* ever rewound by a snapshot.
THEOREM FirstHalfNoFalseAlarm ==
  ASSUME MaxTick < HalfLen
  PROVE  Spec => []NoFalseAlarm
<1>1. FirstHalfInv => NoFalseAlarm
  <2> SUFFICES ASSUME NEW c \in Script, FirstHalf(c), NEW p \in Peers,
                      NEW i \in 1 .. Len(inbox[p])
               PROVE  inbox[p][i].kind \notin {"resync-request", "snapshot"}
    BY DEF FirstHalfInv, NoFalseAlarm, FirstHalf
  <2>1. inbox[p] \in Seq(FirstHalfPackets(c, p))
    BY DEF FirstHalf
  <2>2. inbox[p][i] \in FirstHalfPackets(c, p)
    BY <2>1, ElementOfSeq
  <2> QED
    BY <2>2 DEF FirstHalfPackets
<1> QED
  BY <1>1, FirstHalfHolds, PTL

\* In the first half no peer steps a tick its peer has not sent, so neither is
\* ever more than Delay + 1 ticks ahead.
THEOREM FirstHalfBoundedSkew ==
  ASSUME MaxTick < HalfLen
  PROVE  Spec => []BoundedSkew
<1>1. FirstHalfInv => BoundedSkew
  <2> SUFFICES ASSUME TypeOK, NEW c \in Script, FirstHalf(c), NEW p \in Peers
               PROVE  /\ tick[p] <= flushed[Peer(p)]
                      /\ tick[p] - tick[Peer(p)] <= Delay + 1
    BY DEF FirstHalfInv, BoundedSkew
  <2>1. Peer(p) \in Peers
    BY PeerType
  <2>2. tick[p] <= flushed[Peer(p)] /\ flushed[Peer(p)] <= tick[Peer(p)] + Delay + 1
    BY <2>1 DEF FirstHalf, Frontier
  <2>3. tick[p] \in Nat /\ tick[Peer(p)] \in Nat /\ flushed[Peer(p)] \in Nat /\ Delay \in Nat
    BY <2>1, LockstepAssumption DEF TypeOK
  <2> QED
    BY <2>2, <2>3
<1> QED
  BY <1>1, FirstHalfHolds, PTL

\* In the first half a staged input that has been sent is never replaced by
\* another (driver.ts, stageInput and frame): the peer has it for good.
THEOREM FirstHalfSentTicksFrozen ==
  ASSUME MaxTick < HalfLen
  PROVE  Spec => SentTicksFrozen
<1> DEFINE Frozen == \A p \in Peers : \A t \in Ticks :
                       t < flushed[p] /\ local[p][t] # None /\ local'[p][t] # None
                         => local'[p][t] = local[p][t]
<1>1. ASSUME FirstHalfInv, Next PROVE Frozen
  <2>1. PICK c \in Script : FirstHalf(c)
    BY <1>1 DEF FirstHalfInv
  <2>2. TypeOK
    BY <1>1 DEF FirstHalfInv
  <2>3. ASSUME NEW p \in Peers, Render(p) PROVE Frozen
    <3>1. PICK n \in 0 .. MaxCatchUp, in \in [Staging(p) -> Input] : Frame(p, in, n)
      BY <2>3 DEF Render
    <3>2. local' = [local EXCEPT ![p] = Staged(p, in)]
      BY <3>1 DEF Frame
    <3>3. \A t \in Ticks : t < flushed[p] => Staged(p, in)[t] = local[p][t]
      BY <2>1, <2>2, FirstHalfWindow
    <3>4. ASSUME NEW r \in Peers, NEW t \in Ticks, t < flushed[r]
          PROVE  local'[r][t] = local[r][t]
      BY <2>2, <3>2, <3>3, <3>4 DEF TypeOK
    <3> QED
      BY <3>4
  <2>4. ASSUME NEW p \in Peers, ReceiveRemote(p) PROVE Frozen
    <3>1. local' = [local EXCEPT ![p] = Pruned(@, Head(inbox[p]).tick)]
      BY <2>4 DEF ReceiveRemote
    <3>2. \A r \in Peers : \A t \in Ticks :
            local'[r][t] # None => local'[r][t] = local[r][t]
      BY <2>2, <3>1 DEF TypeOK, Pruned
    <3> QED
      BY <3>2
  <2>5. CASE local' = local
    BY <2>5
  <2>6. ASSUME NEW p \in Peers, Receive(p) PROVE ReceiveRemote(p) \/ local' = local
    BY <2>6 DEF Receive, ReceiveHash, ReceiveResyncRequest, ReceiveSnapshot, ReceivePause,
                ReceiveResume, ReceiveContinueHalf, ReceiveQuit, Leave, session
  <2>7. ASSUME NEW p \in Peers, User(p) \/ Continue(p) \/ StallOut(p) \/ LinkClosed(p)
        PROVE  local' = local
    BY <2>7 DEF User, Pause, Resume, Quit, WorldTable, Continue, HostContinues, GuestContinues,
                StallOut, LinkClosed, Leave, session
  <2>8. LinkDies => local' = local
    BY DEF LinkDies, session
  <2> QED
    BY <1>1, <2>3, <2>4, <2>5, <2>6, <2>7, <2>8 DEF Next
<1>2. FirstHalfInv /\ [Next]_vars => [Frozen]_vars
  BY <1>1
<1> QED
  BY <1>2, FirstHalfHolds, PTL DEF Spec, SentTicksFrozen

-----------------------------------------------------------------------------
(***************************************************************************)
(* Lockstep implements Agreement until half time, and a peer never lacks   *)
(* the input it has committed to: two more consequences of the script.     *)
(***************************************************************************)
\* In the first half the only action that touches an engine is a frame, and a
\* frame only appends to the inputs its own engine has applied.
LEMMA FirstHalfPlays ==
  ASSUME MaxTick < HalfLen, FirstHalfInv, Next
  PROVE  \/ log' = log
         \/ \E p \in Peers : \E xs \in Seq(Step) : log' = [log EXCEPT ![p] = @ \o xs]
<1>0. TypeOK
  BY DEF FirstHalfInv
<1>1. PICK c \in Script : FirstHalf(c)
  BY DEF FirstHalfInv
<1>2. ASSUME NEW p \in Peers, Render(p)
      PROVE  \E xs \in Seq(Step) : log' = [log EXCEPT ![p] = @ \o xs]
  <2>1. PICK n \in 0 .. MaxCatchUp, in \in [Staging(p) -> Input] : Frame(p, in, n)
    BY <1>2 DEF Render
  <2> DEFINE xs == StepInputs(p, Staged(p, in), n)
  <2>2. CanStep(p, Staged(p, in), n)
    BY <2>1 DEF Frame
  <2>3. xs \in Seq(Step) /\ Len(xs) = n
    BY <1>0, <2>2, StagedType, StepInputsType
  <2>4. ~halfPending[p]
    BY <1>1 DEF FirstHalf
  <2>5. log' = [log EXCEPT ![p] = Updated(log[p], xs)]
    BY <2>1, <2>4 DEF Frame
  <2>6. SubSeq(xs, 1, Lesser(Len(xs), Room(log[p]))) \in Seq(Step)
    <3>1. log[p] \in Seq(Step)
      BY <1>0 DEF TypeOK
    <3>2. Len(log[p]) \in Nat /\ HalfLen \in Nat /\ n \in Nat
      BY <2>3, <3>1, LenProperties, LockstepAssumption
    <3> DEFINE k == Lesser(Len(xs), Room(log[p]))
    <3>3. k \in Int /\ k <= Len(xs)
      BY <2>3, <3>2 DEF Lesser, Room
    <3> HIDE DEF k, xs
    <3>4. \A i \in 1 .. k : xs[i] \in Step
      BY <2>3, <3>2, <3>3, ElementOfSeq
    <3>5. SubSeq(xs, 1, k) \in Seq(Step)
      BY <3>3, <3>4, SubSeqProperties
    <3> QED
      BY <3>5 DEF k
  <2> QED
    BY <2>5, <2>6 DEF Updated
<1>3. ASSUME NEW p \in Peers, Receive(p) \/ User(p) \/ Continue(p) \/ StallOut(p) \/ LinkClosed(p)
      PROVE  log' = log
  <2>1. CASE Receive(p)
    <3> DEFINE m == Head(inbox[p])
    <3>1. ~ReceiveSnapshot(p) /\ ~ReceiveContinueHalf(p)
      <4> SUFFICES ASSUME inbox[p] # <<>>, m.kind \in {"snapshot", "continue-half"}
                   PROVE  FALSE
        BY DEF ReceiveSnapshot, ReceiveContinueHalf, Arrives
      <4>1. m \in FirstHalfPackets(c, p)
        BY <1>0, <1>1, FirstHalfHead
      <4> QED
        BY <4>1 DEF FirstHalfPackets
    <3> QED
      BY <2>1, <3>1 DEF Receive, ReceiveRemote, ReceiveHash, ReceiveResyncRequest,
                        ReceivePause, ReceiveResume, ReceiveQuit, Leave
  <2>2. ~Continue(p)
    BY <1>1 DEF Continue, HostContinues, GuestContinues, FirstHalf, Peers, Host, Guest
  <2> QED
    BY <1>3, <2>1, <2>2 DEF User, Pause, Resume, Quit, WorldTable, StallOut, LinkClosed, Leave
<1>4. LinkDies => log' = log
  BY DEF LinkDies
<1> QED
  BY <1>2, <1>3, <1>4 DEF Next

\* The history of the abstract match: what the peer in front has played.
Front == IF Len(log[Host]) >= Len(log[Guest]) THEN log[Host] ELSE log[Guest]

\* Neither peer has played more than Delay + 1 ticks more than the other.
BoundedLead == \A p, q \in Peers : Len(log[p]) - Len(log[q]) <= Delay + 1

FrontShared == \A p \in Peers : Shared!Begins(Front, log[p])

LEMMA FirstHalfFront == FirstHalfInv => FrontShared
<1> SUFFICES ASSUME FirstHalfInv, NEW c \in Script, FirstHalf(c), NEW p \in Peers
             PROVE  Shared!Begins(Front, log[p])
  BY DEF FirstHalfInv, FrontShared
<1>1. \A r \in Peers : /\ tick[r] \in 0 .. MaxTick
                       /\ log[r] = PlayedTo(c, tick[r])
  BY DEF FirstHalfInv, TypeOK, FirstHalf
<1>2. \A r \in Peers : Len(log[r]) = tick[r] /\ tick[r] \in Nat
  BY <1>1, PlayedType, LockstepAssumption
<1>3. \A r \in Peers : \A k \in 1 .. tick[r] :
        log[r][k] = <<c[Host][k - 1], c[Guest][k - 1]>>
  BY <1>1 DEF PlayedTo
<1>4. PICK f \in Peers : Front = log[f] /\ tick[p] <= tick[f]
  BY <1>2 DEF Front, Peers
<1>5. ASSUME NEW k \in 1 .. tick[p] PROVE log[p][k] = log[f][k]
  <2>1. k \in 1 .. tick[f]
    BY <1>2, <1>4
  <2> QED
    BY <1>3, <2>1
<1> QED
  BY <1>2, <1>4, <1>5 DEF Shared!Begins

\* What one frame does to the logs is a step of Agreement.
LEMMA FirstHalfStep ==
  ASSUME MaxTick < HalfLen, FirstHalfInv, Next,
         FrontShared, FrontShared', TypeOK', BoundedLead'
  PROVE  Shared!Next \/ UNCHANGED <<Front, log>>
<1>1. CASE log' = log
  BY <1>1 DEF Front
<1>2. ASSUME NEW p \in Peers, NEW xs \in Seq(Step), log' = [log EXCEPT ![p] = @ \o xs]
      PROVE  Shared!Next \/ UNCHANGED <<Front, log>>
  <2> DEFINE q == Peer(p)
  <2>1. q \in Peers /\ q # p /\ Peers = {p, q}
    BY PeerType DEF Peers, Peer
  <2>2. log \in [Peers -> Seq(Step)] /\ log' \in [Peers -> Seq(Step)]
    BY DEF FirstHalfInv, TypeOK
  <2>3. log'[q] = log[q] /\ log'[p] = log[p] \o xs
    BY <1>2, <2>1, <2>2
  <2>4. /\ Len(log[p]) \in Nat /\ Len(log[q]) \in Nat /\ Len(log'[p]) \in Nat
        /\ Len(log'[p]) >= Len(log[p])
        /\ \A k \in 1 .. Len(log[p]) : log'[p][k] = log[p][k]
    BY <2>1, <2>2, <2>3, LenProperties, ConcatProperties
  <2>5. Shared!Begins(log'[p], log[p])
    BY <2>4 DEF Shared!Begins
  <2>6. /\ Shared!Begins(Front, log[p]) /\ Shared!Begins(Front, log[q])
        /\ Shared!Begins(Front', log'[p]) /\ Shared!Begins(Front', log[q])
    BY <2>1, <2>3 DEF FrontShared
  <2>7. Front \in {log[p], log[q]}
    BY <2>1 DEF Front, Peers
  <2>8. Front' \in {log'[p], log[q]}
    BY <2>1, <2>3 DEF Front, Peers
  <2>9. Front' # Front => Front' = log'[p]
    <3> SUFFICES ASSUME Front' = log[q], Front = log[p] PROVE log[q] = log[p]
      BY <2>7, <2>8
    <3>1. Len(log[p]) = Len(log[q]) /\ \A k \in 1 .. Len(log[q]) : log[p][k] = log[q][k]
      BY <2>4, <2>6 DEF Shared!Begins
    <3> QED
      BY <2>1, <2>2, <3>1, SeqEqual
  <2>10. Shared!Begins(Front', Front)
    <3>1. CASE Front = log[q]
      BY <2>6, <3>1
    <3>2. CASE Front = log[p]
      BY <2>4, <2>5, <2>6, <3>2 DEF Shared!Begins
    <3> QED
      BY <2>7, <3>1, <3>2
  <2>11. Len(log'[p]) - Len(log[q]) <= Delay + 1
    BY <2>1, <2>3 DEF BoundedLead
  <2>12. Shared!Play(p)
    BY <2>1, <2>3, <2>5, <2>6, <2>9, <2>10, <2>11 DEF Shared!Play, Front
  <2> QED
    BY <2>12 DEF Shared!Next
<1> QED
  BY <1>1, <1>2, FirstHalfPlays

LEMMA FirstHalfLead == FirstHalfInv => BoundedLead
<1> SUFFICES ASSUME FirstHalfInv, NEW c \in Script, FirstHalf(c),
                    NEW p \in Peers, NEW q \in Peers
             PROVE  Len(log[p]) - Len(log[q]) <= Delay + 1
  BY DEF FirstHalfInv, BoundedLead
<1>1. \A r \in Peers : /\ tick[r] \in 0 .. MaxTick /\ flushed[r] \in Nat
                       /\ log[r] = PlayedTo(c, tick[r])
  BY DEF FirstHalfInv, TypeOK, FirstHalf
<1>2. \A r \in Peers : Len(log[r]) = tick[r] /\ tick[r] \in Nat
  BY <1>1, PlayedType, LockstepAssumption
<1>3. tick[p] <= flushed[q] /\ flushed[q] <= tick[q] + Delay + 1
  BY DEF FirstHalf, Frontier
<1>4. tick[p] \in Nat /\ tick[q] \in Nat /\ flushed[q] \in Nat /\ Delay \in Nat
  BY <1>1, <1>2, LockstepAssumption
<1>5. tick[p] - tick[q] <= Delay + 1
  BY <1>3, <1>4
<1> QED
  BY <1>2, <1>5

\* The netcode implements one shared history: until half time, everything the
\* two sessions, drivers, screens and the link do is, seen from the engines, a
\* peer playing on through it or nothing at all (session.ts, header).
THEOREM FirstHalfOneHistory ==
  ASSUME MaxTick < HalfLen
  PROVE  Spec => OneHistory
<1>1. Init => Shared!Init
  <2> SUFFICES ASSUME Init PROVE Shared!Init
    OBVIOUS
  <2>1. log = [p \in Peers |-> <<>>] /\ Host \in Peers /\ Guest \in Peers
    BY DEF Init, Peers
  <2>2. log[Host] = <<>> /\ log[Guest] = <<>>
    BY <2>1
  <2> QED
    BY <2>1, <2>2 DEF Shared!Init
<1>2. FirstHalfInv => TypeOK /\ FrontShared /\ BoundedLead
  BY FirstHalfFront, FirstHalfLead DEF FirstHalfInv
<1>3. /\ FirstHalfInv /\ FrontShared
      /\ TypeOK' /\ FrontShared' /\ BoundedLead'
      /\ [Next]_vars
      => Shared!Next \/ UNCHANGED <<Front, log>>
  <2>1. CASE Next
    BY <2>1, FirstHalfStep
  <2>2. CASE UNCHANGED vars
    BY <2>2 DEF vars, Front
  <2> QED
    BY <2>1, <2>2
<1>4. (Shared!Next \/ UNCHANGED <<Front, log>>)
        => [Shared!Next]_<<IF Len(log[Host]) >= Len(log[Guest])
                           THEN log[Host] ELSE log[Guest], log>>
  BY DEF Front
<1> QED
  BY <1>1, <1>2, <1>3, <1>4, FirstHalfHolds, PTL DEF Spec, OneHistory, Shared!Spec

-----------------------------------------------------------------------------
(***************************************************************************)
(* A peer's own input is there when it is needed.                          *)
(***************************************************************************)
\* What a peer has sent and not yet stepped is still staged.
KeptInput ==
  \A p \in Peers : \A t \in Ticks :
    tick[p] <= t /\ t < flushed[p] => local[p][t] # None

LEMMA FirstHalfKeeps ==
  ASSUME MaxTick < HalfLen, MaxHistory > 2 * Delay, FirstHalfInv, KeptInput, Next
  PROVE  KeptInput'
<1>0. TypeOK
  BY DEF FirstHalfInv
<1>1. PICK c \in Script : FirstHalf(c)
  BY DEF FirstHalfInv
<1>2. ASSUME NEW p \in Peers, Render(p) PROVE KeptInput'
  <2>1. PICK n \in 0 .. MaxCatchUp, in \in [Staging(p) -> Input] : Frame(p, in, n)
    BY <1>2 DEF Render
  <2>2. /\ local' = [local EXCEPT ![p] = Staged(p, in)]
        /\ tick' = [tick EXCEPT ![p] = @ + n]
        /\ flushed' = [flushed EXCEPT ![p] = Greater(SendFrom(p), Frontier(p) + 1)]
    BY <2>1 DEF Frame
  <2>3. /\ n \in Nat /\ tick[p] \in Nat /\ flushed[p] \in Nat /\ Delay \in Nat
        /\ flushed[p] <= Frontier(p) + 1 /\ Frontier(p) = tick[p] + Delay
    BY <1>0, <1>1, LockstepAssumption DEF TypeOK, FirstHalf, Frontier
  <2>4. SendFrom(p) = flushed[p] /\ flushed'[p] = Frontier(p) + 1
    <3>1. Frontier(p) \in Nat /\ SendFrom(p) = flushed[p]
      BY <2>3 DEF SendFrom, Rewound
    <3>2. Greater(SendFrom(p), Frontier(p) + 1) = Frontier(p) + 1
      BY <2>3, <3>1 DEF Greater
    <3> QED
      BY <1>0, <2>2, <3>1, <3>2 DEF TypeOK
  <2>5. ASSUME NEW t \in Ticks, tick[p] <= t, t < flushed'[p]
        PROVE  Staged(p, in)[t] # None
    <3>1. CASE t \in Staging(p)
      BY <3>1, LockstepAssumption DEF Staged
    <3>2. CASE t \notin Staging(p)
      <4>1. t \in tick[p] .. Frontier(p)
        BY <2>3, <2>4, <2>5 DEF Ticks
      <4>2. Staged(p, in)[t] = local[p][t] /\ (t < flushed[p] \/ local[p][t] # None)
        BY <2>3, <2>4, <3>2, <4>1 DEF Staged, Staging, Ticks
      <4> QED
        BY <2>5, <4>2 DEF KeptInput
    <3> QED BY <3>1, <3>2
  <2>6. ASSUME NEW r \in Peers, NEW t \in Ticks, tick'[r] <= t, t < flushed'[r]
        PROVE  local'[r][t] # None
    <3>1. CASE r = p
      <4>1. tick'[p] = tick[p] + n /\ local'[p] = Staged(p, in)
        BY <1>0, <2>2 DEF TypeOK
      <4>2. tick[p] <= t
        BY <2>3, <2>6, <3>1, <4>1 DEF Ticks
      <4> QED
        BY <2>5, <2>6, <3>1, <4>1, <4>2
    <3>2. CASE r # p
      BY <1>0, <2>2, <2>6, <3>2 DEF TypeOK, KeptInput
    <3> QED BY <3>1, <3>2
  <2> QED
    BY <2>6 DEF KeptInput
<1>3. ASSUME NEW p \in Peers, ReceiveRemote(p) PROVE KeptInput'
  <2> DEFINE m == Head(inbox[p])
  <2>1. m \in FirstHalfPackets(c, p) /\ m.kind = "input"
    BY <1>0, <1>1, <1>3, FirstHalfHead DEF ReceiveRemote, Arrives
  <2>2. m.tick \in Ticks /\ m.tick < flushed[Peer(p)]
    BY <2>1 DEF FirstHalfPackets, Packet
  <2>3. Peer(p) \in Peers
    BY PeerType
  <2>4. /\ flushed[Peer(p)] <= tick[Peer(p)] + Delay + 1 /\ tick[Peer(p)] <= flushed[p]
        /\ flushed[p] <= tick[p] + Delay + 1
    BY <1>1, <2>3 DEF FirstHalf, Frontier
  <2>5. /\ tick[p] \in Nat /\ tick[Peer(p)] \in Nat /\ flushed[p] \in Nat
        /\ flushed[Peer(p)] \in Nat /\ Delay \in Nat /\ MaxHistory \in Nat /\ m.tick \in Nat
    BY <1>0, <2>2, <2>3, LockstepAssumption DEF TypeOK, Ticks
  <2>6. m.tick - MaxHistory <= tick[p]
    <3> HIDE DEF m
    <3> QED
      BY <2>2, <2>4, <2>5
  <2>7. /\ local' = [local EXCEPT ![p] = Pruned(local[p], m.tick)]
        /\ tick' = tick /\ flushed' = flushed
    BY <1>3 DEF ReceiveRemote, driver
  <2> HIDE DEF m
  <2>8. ASSUME NEW r \in Peers, NEW t \in Ticks, tick[r] <= t
        PROVE  local'[r][t] = local[r][t]
    <3>1. CASE r = p
      <4>1. local'[p][t] = Pruned(local[p], m.tick)[t]
        BY <1>0, <2>7 DEF TypeOK
      <4>2. ~(t < m.tick - MaxHistory)
        BY <2>5, <2>6, <2>8, <3>1 DEF Ticks
      <4> QED
        BY <3>1, <4>1, <4>2 DEF Pruned
    <3>2. CASE r # p
      BY <1>0, <2>7, <3>2 DEF TypeOK
    <3> QED BY <3>1, <3>2
  <2> QED
    BY <2>7, <2>8 DEF KeptInput
<1>4. ASSUME NEW p \in Peers,
             \/ Receive(p) /\ ~ReceiveRemote(p)
             \/ User(p) \/ Continue(p) \/ StallOut(p) \/ LinkClosed(p)
      PROVE  KeptInput'
  <2>1. ~ReceiveSnapshot(p)
    <3> SUFFICES ASSUME inbox[p] # <<>>, Head(inbox[p]).kind = "snapshot" PROVE FALSE
      BY DEF ReceiveSnapshot, Arrives
    <3>1. Head(inbox[p]) \in FirstHalfPackets(c, p)
      BY <1>0, <1>1, FirstHalfHead
    <3> QED
      BY <3>1 DEF FirstHalfPackets
  <2>2. UNCHANGED <<tick, local, flushed>>
    BY <1>4, <2>1 DEF Receive, ReceiveHash, ReceiveResyncRequest, ReceivePause, ReceiveResume,
       ReceiveContinueHalf, ReceiveQuit, User, Pause, Resume, Quit, WorldTable, Continue,
       HostContinues, GuestContinues, StallOut, LinkClosed, Leave, session, driver
  <2> QED
    BY <2>2 DEF KeptInput
<1>5. LinkDies => KeptInput'
  BY DEF LinkDies, session, driver, KeptInput
<1> QED
  BY <1>2, <1>3, <1>4, <1>5 DEF Next

\* Catch-up jumps and history pruning never cost a peer its own input: until
\* half time, with a history longer than twice the delay, every tick it has
\* committed to and not stepped is staged (driver.ts, stageInput).
THEOREM FirstHalfOwnInputStaged ==
  ASSUME MaxTick < HalfLen, MaxHistory > 2 * Delay
  PROVE  Spec => []OwnInputStaged
<1>1. Init => KeptInput
  BY LockstepAssumption DEF Init, KeptInput, Ticks
<1>2. FirstHalfInv /\ KeptInput /\ [Next]_vars => KeptInput'
  <2>1. CASE Next
    BY <2>1, FirstHalfKeeps
  <2>2. CASE UNCHANGED vars
    BY <2>2 DEF vars, session, driver, KeptInput
  <2> QED
    BY <2>1, <2>2
<1>3. FirstHalfInv /\ KeptInput => OwnInputStaged
  <2> SUFFICES ASSUME TypeOK, KeptInput, NEW c \in Script, FirstHalf(c), NEW p \in Peers
               PROVE  /\ \A t \in tick[p] .. (flushed[p] - 1) : local[p][t] # None
                      /\ \A i \in 1 .. Len(inbox[p]) :
                           inbox[p][i].kind = "input" => inbox[p][i].bytes # None
    BY DEF FirstHalfInv, OwnInputStaged
  <2>1. ASSUME NEW t \in tick[p] .. (flushed[p] - 1) PROVE local[p][t] # None
    <3>1. tick[p] \in Nat /\ flushed[p] \in 0 .. (MaxTick + Delay + 1)
      BY LockstepAssumption DEF TypeOK
    <3>2. t \in Ticks /\ tick[p] <= t /\ t < flushed[p]
      BY <3>1, LockstepAssumption DEF Ticks
    <3> QED
      BY <3>2 DEF KeptInput
  <2>2. ASSUME NEW i \in 1 .. Len(inbox[p]), inbox[p][i].kind = "input"
        PROVE  inbox[p][i].bytes # None
    <3>1. inbox[p] \in Seq(FirstHalfPackets(c, p))
      BY DEF FirstHalf
    <3>2. inbox[p][i] \in FirstHalfPackets(c, p)
      BY <3>1, ElementOfSeq
    <3>3. /\ inbox[p][i].tick \in Ticks /\ inbox[p][i].tick < flushed[Peer(p)]
          /\ inbox[p][i].bytes = c[Peer(p)][inbox[p][i].tick]
      BY <2>2, <3>2 DEF FirstHalfPackets, Packet
    <3> QED
      BY <3>3, PeerType DEF FirstHalf
  <2> QED
    BY <2>1, <2>2
<1> QED
  BY <1>1, <1>2, <1>3, FirstHalfHolds, PTL DEF Spec

-----------------------------------------------------------------------------
(***************************************************************************)
(* Pauses.  Whoever pauses an engine also puts its page on the pause       *)
(* screen, and the page leaves that screen with a running engine.          *)
(***************************************************************************)
Awake == \A p \in Peers : screen[p] = "match" => ~paused[p]

\* A page that comes back to the match comes back with a running engine.
LEMMA FirstHalfAwake ==
  ASSUME FirstHalfInv, Awake, Next
  PROVE  Awake'
<1> USE DEF FirstHalfInv
<1>1. /\ screen \in [Peers -> Screens] /\ paused \in [Peers -> BOOLEAN]
      /\ \A p \in Peers : screen[p] \notin {"half", "full", "city"}
  BY DEF TypeOK, FirstHalf
<1>2. ASSUME NEW p \in Peers, Render(p) PROVE Awake'
  BY <1>1, <1>2 DEF Render, Frame, Awake
<1>3. ASSUME NEW p \in Peers, Leave(p) PROVE Awake'
  BY <1>1, <1>3 DEF Leave, Awake
<1>4. ASSUME NEW p \in Peers, User(p) PROVE Awake'
  <2>1. CASE Pause(p)
    BY <1>1, <2>1 DEF Pause, Awake
  <2>2. CASE Resume(p)
    BY <1>1, <2>2 DEF Resume, Awake
  <2>3. ~WorldTable(p)
    BY <1>1 DEF WorldTable
  <2> QED
    BY <1>3, <1>4, <2>1, <2>2, <2>3 DEF User, Quit
<1>5. ASSUME NEW p \in Peers, Receive(p) PROVE Awake'
  <2>1. CASE ReceiveRemote(p) \/ ReceiveHash(p) \/ ReceiveResyncRequest(p)
             \/ ReceiveContinueHalf(p)
    BY <2>1 DEF ReceiveRemote, ReceiveHash, ReceiveResyncRequest, ReceiveContinueHalf, Awake
  <2>2. CASE ReceiveSnapshot(p)
    BY <1>1, <2>2 DEF ReceiveSnapshot, Awake
  <2>3. CASE ReceivePause(p)
    BY <1>1, <2>3 DEF ReceivePause, Awake
  <2>4. CASE ReceiveResume(p)
    BY <1>1, <2>4 DEF ReceiveResume, Awake
  <2> QED
    BY <1>3, <1>5, <2>1, <2>2, <2>3, <2>4 DEF Receive, ReceiveQuit
<1>6. ASSUME NEW p \in Peers, Continue(p) PROVE Awake'
  BY <1>1, <1>6 DEF Continue, HostContinues, GuestContinues, Peers, Host, Guest
<1>7. ASSUME NEW p \in Peers, StallOut(p) \/ LinkClosed(p) PROVE Awake'
  BY <1>1, <1>3, <1>7 DEF StallOut, LinkClosed, Awake
<1>8. CASE LinkDies
  BY <1>8 DEF LinkDies, Awake
<1> QED
  BY <1>2, <1>4, <1>5, <1>6, <1>7, <1>8 DEF Next

\* Until half time, however the pauses and resumes of the two users and the
\* echoes of their pauses cross, with nothing on its way a paused engine has
\* somebody on the pause screen (main.ts, openPause, resumePlay, attachDriver).
THEOREM FirstHalfPauseHasResumer ==
  ASSUME MaxTick < HalfLen
  PROVE  Spec => []PauseHasResumer
<1>1. Init => Awake
  BY DEF Init, Awake
<1>2. FirstHalfInv /\ Awake /\ [Next]_vars => Awake'
  <2>1. CASE Next
    BY <2>1, FirstHalfAwake
  <2>2. CASE UNCHANGED vars
    BY <2>2 DEF vars, Awake
  <2> QED
    BY <2>1, <2>2
<1>3. FirstHalfInv /\ Awake => PauseHasResumer
  <2> SUFFICES ASSUME FirstHalfInv, Awake, NEW p \in Peers, screen[p] # "title", paused[p]
               PROVE  screen[p] = "pause"
    BY DEF PauseHasResumer
  <2>1. screen[p] \in Screens /\ screen[p] \notin {"half", "full", "city"}
    BY DEF FirstHalfInv, TypeOK, FirstHalf
  <2> QED
    BY <2>1 DEF Awake, Screens
<1> QED
  BY <1>1, <1>2, <1>3, FirstHalfHolds, PTL DEF Spec
=============================================================================
