----------------------------- MODULE RoomProofs -----------------------------
(***************************************************************************)
(* Proofs about a Room object under clients that may do whatever its       *)
(* protocol lets them, for every set of codes, sockets and peers, any      *)
(* roster and any number of messages under way.                            *)
(*                                                                         *)
(* The invariant has a part for each socket, SocketOf, and two for each    *)
(* room, Seated and Informed.  A step of a socket disturbs the rooms it    *)
(* belongs to and no other, so most of the work is done once, in the       *)
(* lemmas SocketGoesOn, SeatedStays and InformedStays.                     *)
(***************************************************************************)
EXTENDS RoomClients, WellFoundedInduction, SequenceTheorems, TLAPS

-----------------------------------------------------------------------------
(***************************************************************************)
(* Sequences.                                                              *)
(***************************************************************************)
Distinct(q) == \A i, j \in 1 .. Len(q) : q[i] = q[j] => i = j

\* Of a set of positions there is a first one.
LEMMA FirstPosition ==
  ASSUME NEW I, I \subseteq Nat, I # {}
  PROVE  Min(I) \in I
<1>1. \E x \in I : \A y \in I : <<y, x>> \notin OpToRel(<, Nat)
  BY WFMin, NatLessThanWellFounded
<1>2. \A x, y \in Nat : y < x => <<y, x>> \in OpToRel(<, Nat)
  BY DEF OpToRel
<1>3. \E x \in I : \A y \in I : x =< y
  <2>1. PICK x \in I : \A y \in I : <<y, x>> \notin OpToRel(<, Nat)
    BY <1>1
  <2>2. \A y \in I : ~(y < x)
    BY <1>2, <2>1
  <2>3. \A y \in I : x =< y
    BY <2>2
  <2> QED
    BY <2>3
<1> QED
  BY <1>3 DEF Min

\* RemoveFirst() takes out a value, and nothing else.
LEMMA RemoveFirstOf ==
  ASSUME NEW S, NEW q \in Seq(S), NEW e
  PROVE  /\ RemoveFirst(q, e) \in Seq(S)
         /\ ToSet(q) \ {e} \subseteq ToSet(RemoveFirst(q, e))
         /\ ToSet(RemoveFirst(q, e)) \subseteq ToSet(q)
         /\ Distinct(q) => /\ Distinct(RemoveFirst(q, e))
                           /\ e \notin ToSet(RemoveFirst(q, e))
<1> DEFINE I == {i \in 1 .. Len(q) : q[i] = e}
           r == RemoveFirst(q, e)
<1>1. CASE I = {}
  <2>1. r = q
    BY <1>1 DEF RemoveFirst
  <2>2. e \notin ToSet(q)
    BY <1>1 DEF ToSet
  <2> QED
    BY <2>1, <2>2
<1>2. CASE I # {}
  <2>1. Min(I) \in I
    <3>1. I \subseteq Nat
      OBVIOUS
    <3> HIDE DEF I
    <3> QED
      BY <1>2, <3>1, FirstPosition
  <2> DEFINE k == Min(I)
  <2>2. SelectInSeq(q, LAMBDA v : v = e) = k
    BY <1>2 DEF SelectInSeq
  <2>3. r = RemoveAt(q, k)
    BY <1>2, <2>2 DEF RemoveFirst
  <2>4. k \in 1 .. Len(q) /\ q[k] = e
    BY <2>1
  <2> HIDE DEF I, k
  <2>5. /\ RemoveAt(q, k) \in Seq(S) /\ Len(RemoveAt(q, k)) = Len(q) - 1
        /\ \A i \in 1 .. Len(q) - 1 :
             RemoveAt(q, k)[i] = IF i < k THEN q[i] ELSE q[i + 1]
    <3> DEFINE a == SubSeq(q, 1, k - 1)
               b == SubSeq(q, k + 1, Len(q))
    <3>1. a \in Seq(S) /\ Len(a) = k - 1 /\ \A i \in 1 .. k - 1 : a[i] = q[i]
      BY <2>4
    <3>2. b \in Seq(S) /\ Len(b) = Len(q) - k /\ \A i \in 1 .. Len(q) - k : b[i] = q[k + i]
      BY <2>4
    <3>3. RemoveAt(q, k) = a \o b
      BY DEF RemoveAt
    <3> HIDE DEF a, b
    <3>4. /\ a \o b \in Seq(S) /\ Len(a \o b) = Len(a) + Len(b)
          /\ \A i \in 1 .. Len(a) + Len(b) :
               (a \o b)[i] = IF i <= Len(a) THEN a[i] ELSE b[i - Len(a)]
      BY <3>1, <3>2, ConcatProperties
    <3>5. ASSUME NEW i \in 1 .. Len(q) - 1
          PROVE  (a \o b)[i] = IF i < k THEN q[i] ELSE q[i + 1]
      <4>1. (a \o b)[i] = IF i <= Len(a) THEN a[i] ELSE b[i - Len(a)]
        BY <2>4, <3>1, <3>2, <3>4
      <4>2. CASE i < k
        BY <2>4, <3>1, <4>1, <4>2
      <4>3. CASE ~(i < k)
        <5>1. i - Len(a) \in 1 .. Len(q) - k /\ k + (i - Len(a)) = i + 1
          BY <2>4, <3>1, <4>3
        <5>2. b[i - Len(a)] = q[i + 1]
          BY <3>2, <5>1
        <5>3. ~(i <= Len(a))
          BY <2>4, <3>1, <4>3
        <5> QED
          BY <4>1, <4>3, <5>2, <5>3
      <4> QED
        BY <4>2, <4>3
    <3>6. Len(a) + Len(b) = Len(q) - 1
      BY <2>4, <3>1, <3>2
    <3> QED
      BY <3>3, <3>4, <3>5, <3>6
  <2>6. r \in Seq(S) /\ Len(r) = Len(q) - 1
    BY <2>3, <2>5
  <2>7. \A i \in 1 .. Len(r) : r[i] = IF i < k THEN q[i] ELSE q[i + 1]
    BY <2>3, <2>5
  <2> HIDE DEF r
  <2>8. ASSUME NEW x \in ToSet(q), x # e
        PROVE  x \in ToSet(r)
    <3>1. PICK j \in 1 .. Len(q) : q[j] = x
      BY DEF ToSet
    <3>2. CASE j < k
      <4>1. j \in 1 .. Len(r) /\ r[j] = x
        BY <2>4, <2>6, <2>7, <3>1, <3>2
      <4> QED
        BY <2>6, <4>1 DEF ToSet
    <3>3. CASE j > k
      <4>1. j - 1 \in 1 .. Len(r) /\ r[j - 1] = x
        BY <2>4, <2>6, <2>7, <3>1, <3>3
      <4> QED
        BY <2>6, <4>1 DEF ToSet
    <3>4. j # k
      BY <2>4, <2>8, <3>1
    <3> QED
      BY <2>4, <3>2, <3>3, <3>4
  <2>9. ASSUME NEW x \in ToSet(r)
        PROVE  x \in ToSet(q)
    <3>1. PICK i \in 1 .. Len(r) : r[i] = x
      BY <2>6 DEF ToSet
    <3>2. PICK j \in 1 .. Len(q) : x = q[j]
      BY <2>4, <2>6, <2>7, <3>1
    <3> QED
      BY <3>2 DEF ToSet
  <2>10. ASSUME Distinct(q)
         PROVE  Distinct(r) /\ e \notin ToSet(r)
    <3>1. ASSUME NEW i \in 1 .. Len(r), NEW j \in 1 .. Len(r), r[i] = r[j]
          PROVE  i = j
      BY <2>4, <2>6, <2>7, <2>10, <3>1 DEF Distinct
    <3>2. ASSUME NEW i \in 1 .. Len(r), r[i] = e
          PROVE  FALSE
      BY <2>4, <2>6, <2>7, <2>10, <3>2 DEF Distinct
    <3> QED
      BY <2>6, <3>1, <3>2 DEF Distinct, ToSet
  <2> QED
    BY <2>6, <2>8, <2>9, <2>10 DEF r
<1> QED
  BY <1>1, <1>2

\* Append() adds a value, and nothing else.
LEMMA AppendOf ==
  ASSUME NEW S, NEW q \in Seq(S), NEW e \in S
  PROVE  /\ Append(q, e) \in Seq(S) /\ ToSet(Append(q, e)) = ToSet(q) \cup {e}
         /\ Distinct(q) /\ e \notin ToSet(q) => Distinct(Append(q, e))
<1> DEFINE r == Append(q, e)
           n == Len(q)
<1>1. /\ r \in Seq(S) /\ n \in Nat /\ Len(r) = n + 1 /\ DOMAIN r = 1 .. n + 1 /\ DOMAIN q = 1 .. n
      /\ r[n + 1] = e /\ \A i \in 1 .. n : r[i] = q[i]
  OBVIOUS
<1> HIDE DEF r
<1>2. \A i \in 1 .. n + 1 : i \in 1 .. n \/ i = n + 1
  BY <1>1
<1>3. 1 .. n \subseteq 1 .. n + 1 /\ n + 1 \in 1 .. n + 1
  BY <1>1
<1> HIDE DEF n
<1>4. ToSet(r) = ToSet(q) \cup {e}
  <2>1. ToSet(r) = {r[i] : i \in 1 .. n + 1} /\ ToSet(q) = {q[i] : i \in 1 .. n}
    BY <1>1 DEF ToSet
  <2>2. ASSUME NEW x \in ToSet(r)
        PROVE  x \in ToSet(q) \cup {e}
    BY <1>1, <1>2, <2>1
  <2>3. ASSUME NEW x \in ToSet(q) \cup {e}
        PROVE  x \in ToSet(r)
    BY <1>1, <1>3, <2>1
  <2> QED
    BY <2>2, <2>3
<1>5. ASSUME Distinct(q), e \notin ToSet(q)
      PROVE  Distinct(r)
  <2>1. \A i \in 1 .. n : q[i] # e
    BY <1>1, <1>5 DEF ToSet
  <2>2. ASSUME NEW i \in 1 .. n + 1, NEW j \in 1 .. n + 1, r[i] = r[j]
        PROVE  i = j
    BY <1>1, <1>2, <1>5, <2>1, <2>2 DEF Distinct, n
  <2> QED
    BY <1>1, <2>2 DEF Distinct
<1> QED
  BY <1>1, <1>4, <1>5 DEF r

-----------------------------------------------------------------------------
(***************************************************************************)
(* What a client will know.                                                *)
(***************************************************************************)
Status == {"unused", "open", "stale", "gone"}
Word == UNION {Messages(s) : s \in Socket}
News ==
  [t : {"room-joined"}, peers : SUBSET Known] \cup [t : {"peer-joined", "peer-left"}, peer : Known]
  \cup [t : {"signaled"}, from : Peer, body : {"sdp"}] \cup [t : {"packet"}, body : {"input"}]
  \cup [t : {"error"}]

\* A word about p.
Tells(m, p) == m.t = "room-joined" \/ (m.t \in {"peer-joined", "peer-left"} /\ m.peer = p)

\* It decides what is known of p, and nothing else does.
LEMMA AfterNews ==
  ASSUME NEW m \in News, NEW p \in Known, NEW v \in SUBSET Known
  PROVE  /\ After(v, m) \in SUBSET Known
         /\ p \in After(v, m) <=> IF Tells(m, p) THEN p \in After({}, m) ELSE p \in v
<1>1. CASE m \in [t : {"room-joined"}, peers : SUBSET Known]
  BY <1>1 DEF After, Tells
<1>2. CASE m \in [t : {"peer-joined", "peer-left"}, peer : Known]
  <2>1. m.t \in {"peer-joined", "peer-left"} /\ m.peer \in Known
    BY <1>2
  <2>2. CASE m.t = "peer-joined"
    BY <2>1, <2>2 DEF After, Tells
  <2>3. CASE m.t = "peer-left"
    BY <2>1, <2>3 DEF After, Tells
  <2> QED
    BY <2>1, <2>2, <2>3
<1>3. CASE m \in [t : {"signaled"}, from : Peer, body : {"sdp"}]
  BY <1>3 DEF After, Tells
<1>4. CASE m \in [t : {"packet"}, body : {"input"}]
  BY <1>4 DEF After, Tells
<1>5. CASE m \in [t : {"error"}]
  BY <1>5 DEF After, Tells
<1> QED
  BY <1>1, <1>2, <1>3, <1>4, <1>5 DEF News

\* A message that is sent decides, if it is about p.
LEMMA WillSeeSent ==
  ASSUME NEW q \in Seq(News), NEW m \in News, NEW p, NEW v
  PROVE  WillSee(p, Append(q, m), v) <=>
           IF Tells(m, p) THEN p \in After({}, m) ELSE WillSee(p, q, v)
<1> DEFINE r == Append(q, m)
           n == Len(q) + 1
<1>1. /\ DOMAIN q = 1 .. Len(q) /\ DOMAIN r = 1 .. n /\ n \in Nat
      /\ r[n] = m /\ \A i \in 1 .. Len(q) : r[i] = q[i]
  OBVIOUS
<1> HIDE DEF r
<1>2. \A i \in About(p, r) : i \in 1 .. n
  BY <1>1 DEF About
<1>3. \A i \in 1 .. Len(q) : i \in About(p, r) <=> i \in About(p, q)
  BY <1>1 DEF About
<1>4. n \in About(p, r) <=> Tells(m, p)
  <2>1. n \in DOMAIN r /\ r[n] = m
    BY <1>1
  <2>2. n \in About(p, r) <=> Tells(r[n], p)
    BY <2>1 DEF About, Tells
  <2> QED
    BY <2>1, <2>2
<1>5. \A i \in About(p, q) : i \in 1 .. Len(q)
  BY <1>1 DEF About
<1>6. CASE Tells(m, p)
  <2>1. n \in About(p, r) /\ \A j \in About(p, r) : j <= n
    BY <1>1, <1>2, <1>4, <1>6
  <2>2. \A i \in About(p, r) : (\A j \in About(p, r) : j <= i) => i = n
    BY <1>1, <1>2, <2>1
  <2> QED
    BY <1>1, <1>6, <2>1, <2>2 DEF WillSee, r
<1>7. CASE ~Tells(m, p)
  <2>1. About(p, r) = About(p, q)
    <3>1. \A i : i \in About(p, r) => i \in 1 .. Len(q)
      BY <1>1, <1>2, <1>4, <1>7
    <3> QED
      BY <1>3, <1>5, <3>1
  <2>2. \A i \in About(p, q) : r[i] = q[i]
    BY <1>1, <1>5
  <2> QED
    BY <1>7, <2>1, <2>2 DEF WillSee, r
<1> QED
  BY <1>6, <1>7

\* Reading a message changes nothing of it.
LEMMA WillSeeRead ==
  ASSUME NEW q \in Seq(News), q # <<>>, NEW p \in Known, NEW v \in SUBSET Known
  PROVE  WillSee(p, Tail(q), After(v, Head(q))) <=> WillSee(p, q, v)
<1> DEFINE r == Tail(q)
           m == Head(q)
<1>1. /\ DOMAIN q = 1 .. Len(q) /\ Len(q) \in Nat \ {0} /\ DOMAIN r = 1 .. Len(q) - 1
      /\ q[1] = m /\ m \in News /\ \A i \in 1 .. Len(q) - 1 : r[i] = q[i + 1]
  OBVIOUS
<1> HIDE DEF r, m
<1>2. About(p, q) \subseteq 1 .. Len(q) /\ About(p, r) \subseteq 1 .. Len(q) - 1
  BY <1>1 DEF About
<1>3. \A i \in 1 .. Len(q) - 1 : i \in About(p, r) <=> i + 1 \in About(p, q)
  BY <1>1 DEF About
<1>4. 1 \in About(p, q) <=> Tells(m, p)
  <2>1. 1 \in DOMAIN q /\ q[1] = m
    BY <1>1
  <2>2. 1 \in About(p, q) <=> Tells(q[1], p)
    BY <2>1 DEF About, Tells
  <2> QED
    BY <2>1, <2>2
<1>5. p \in After(v, m) <=> IF Tells(m, p) THEN p \in After({}, m) ELSE p \in v
  BY <1>1, AfterNews
<1>6. CASE About(p, r) = {}
  <2>1. \A i \in About(p, q) : i = 1
    <3>1. ASSUME NEW i \in About(p, q), i # 1
          PROVE  FALSE
      <4>1. i - 1 \in 1 .. Len(q) - 1 /\ (i - 1) + 1 = i
        BY <1>1, <1>2, <3>1
      <4> QED
        BY <1>3, <1>6, <4>1
    <3> QED
      BY <3>1
  <2>2. CASE Tells(m, p)
    <3>1. About(p, q) = {1}
      BY <1>4, <2>1, <2>2
    <3>2. WillSee(p, q, v) <=> p \in After({}, m)
      BY <1>1, <3>1 DEF WillSee
    <3> QED
      BY <1>5, <1>6, <2>2, <3>2 DEF WillSee, r, m
  <2>3. CASE ~Tells(m, p)
    <3>1. About(p, q) = {}
      BY <1>4, <2>1, <2>3
    <3> QED
      BY <1>5, <1>6, <2>3, <3>1 DEF WillSee, r, m
  <2> QED
    BY <2>2, <2>3
<1>7. CASE About(p, r) # {}
  <2>1. PICK k \in About(p, r) : TRUE
    BY <1>7
  <2>2. k \in 1 .. Len(q) - 1 /\ k + 1 \in About(p, q)
    BY <1>2, <1>3, <2>1
  <2>3. ASSUME NEW i \in About(p, r), p \in After({}, r[i]), \A j \in About(p, r) : j <= i
        PROVE  WillSee(p, q, v)
    <3>1. i \in 1 .. Len(q) - 1 /\ i + 1 \in About(p, q) /\ r[i] = q[i + 1]
      BY <1>1, <1>2, <1>3
    <3>2. ASSUME NEW j \in About(p, q)
          PROVE  j <= i + 1
      <4>1. CASE j = 1
        BY <3>1, <4>1
      <4>2. CASE j # 1
        <5>1. j - 1 \in 1 .. Len(q) - 1 /\ (j - 1) + 1 = j
          BY <1>1, <1>2, <4>2
        <5>2. j - 1 \in About(p, r)
          BY <1>3, <5>1
        <5> QED
          BY <1>1, <1>2, <2>3, <3>1, <5>1, <5>2
      <4> QED
        BY <4>1, <4>2
    <3> QED
      BY <2>3, <3>1, <3>2 DEF WillSee
  <2>4. ASSUME NEW i \in About(p, q), p \in After({}, q[i]), \A j \in About(p, q) : j <= i
        PROVE  WillSee(p, r, After(v, m))
    <3>1. i \in 1 .. Len(q) /\ i # 1
      BY <1>2, <2>2, <2>4
    <3>2. i - 1 \in 1 .. Len(q) - 1 /\ (i - 1) + 1 = i
      BY <1>1, <3>1
    <3>3. i - 1 \in About(p, r) /\ r[i - 1] = q[i]
      BY <1>1, <1>3, <3>2
    <3>4. ASSUME NEW j \in About(p, r)
          PROVE  j <= i - 1
      <4>1. j \in 1 .. Len(q) - 1 /\ j + 1 \in About(p, q)
        BY <1>2, <1>3
      <4> QED
        BY <1>1, <2>4, <3>1, <4>1
    <3> QED
      BY <2>4, <3>3, <3>4 DEF WillSee
  <2> QED
    BY <1>7, <2>2, <2>3, <2>4 DEF WillSee, r, m
<1> QED
  BY <1>6, <1>7

-----------------------------------------------------------------------------
(***************************************************************************)
(* The inductive invariant of a room.                                      *)
(***************************************************************************)
RoomRecord == [status : Status, members : Seq(Known), roster : SUBSET Rostered,
               sessions : Seq(Socket)]
Typed ==
  /\ room \in [Code -> RoomRecord]
  /\ sock \in [Socket -> [phase : Phase, code : Code \cup {None}]]
  /\ up \in [Socket -> Seq(Word)] /\ down \in [Socket -> Seq(News)]
  /\ sees \in [Socket -> SUBSET Known]

\* A socket whose upgrade has come is a session for as long as the object still hears
\* of it, unless the room is gone or its time is over.
SocketOf(s) ==
  /\ sock[s].phase # "idle" => sock[s].code \in Code
  /\ sock[s].phase \in {"idle", "opening", "aborted"} => up[s] = <<>>
  /\ sock[s].phase \in {"live", "left"} \/ up[s] # <<>> =>
       /\ sock[s].code \in Code /\ room[sock[s].code].status # "unused"
       /\ room[sock[s].code].status = "open" => s \in Sessions(sock[s].code)

\* Every session is a socket of its own that has come, and is a member's; every member
\* is one once, and has a session, but for the creator.
Seated(c) ==
  /\ Distinct(room[c].sessions) /\ Distinct(room[c].members)
  /\ \A s \in Sessions(c) : /\ sock[s].code = c /\ sock[s].phase \in {"live", "left", "shut"}
                            /\ Holder[s] \in Members(c)
  /\ \A p \in Members(c) \ {Creator} : \E s \in Sessions(c) : Holder[s] = p

\* A client that is heard will know who else is a member.
Informed(c) ==
  \A s \in Sessions(c) : sock[s].phase = "live" =>
    \A p \in Known : WillSee(p, down[s], sees[s]) <=> p \in PeersOf(c, Holder[s])

RoomInv ==
  /\ Typed
  /\ \A s \in Socket : SocketOf(s)
  /\ \A c \in Code : Seated(c) /\ Informed(c)

\* What it is for.
LEMMA RoomInvMeans == RoomInv => SeatIffSocket /\ PresenceAgrees
<1> SUFFICES ASSUME RoomInv
             PROVE  SeatIffSocket /\ PresenceAgrees
  OBVIOUS
<1>1. SeatIffSocket
  BY DEF RoomInv, Seated, SeatIffSocket, SeatKept, NoGhost
<1>2. ASSUME NEW c \in Code, NEW s \in Sessions(c), sock[s].phase = "live"
      PROVE  {p \in Known : WillSee(p, down[s], sees[s])} = PeersOf(c, Holder[s])
  <2>1. room[c].members \in Seq(Known)
    BY DEF RoomInv, Typed, RoomRecord
  <2>2. PeersOf(c, Holder[s]) \subseteq Known
    BY <2>1 DEF PeersOf, Members, ToSet
  <2>3. \A p \in Known : WillSee(p, down[s], sees[s]) <=> p \in PeersOf(c, Holder[s])
    BY <1>2 DEF RoomInv, Informed
  <2> QED
    BY <2>2, <2>3
<1> QED
  BY <1>1, <1>2 DEF PresenceAgrees

-----------------------------------------------------------------------------
(***************************************************************************)
(* The ways a step can change the rooms and the sockets.                   *)
(***************************************************************************)
\* A room that is not new grows old.
Ages(c) ==
  room[c].status # "unused" =>
    room'[c].status # "unused" /\ (room'[c].status = "open" => room[c].status = "open")

\* A socket does not come, and goes on being a session if it was.
GoesOn(s) ==
  /\ sock'[s].phase # "idle" => sock'[s].code = sock[s].code /\ sock[s].phase # "idle"
  /\ sock'[s].phase \in {"live", "left"} => sock[s].phase \in {"live", "left"}
  /\ sock'[s].phase \in {"idle", "opening", "aborted"} =>
       sock[s].phase \in {"idle", "opening", "aborted"} /\ up'[s] = up[s]
  /\ up'[s] # <<>> => up[s] # <<>> \/ sock[s].phase = "live"
  /\ sock'[s].phase \in {"live", "left"} \/ up'[s] # <<>> =>
       \A c \in Code : room'[c].status = "open" /\ s \in Sessions(c) => s \in Sessions(c)'

\* Such a socket is a session still, as SocketOf says.
LEMMA SocketGoesOn ==
  ASSUME NEW s \in Socket, SocketOf(s), GoesOn(s), \A c \in Code : Ages(c)
  PROVE  SocketOf(s)'
<1>1. sock'[s].phase # "idle" => sock'[s].code \in Code
  BY DEF SocketOf, GoesOn
<1>2. sock'[s].phase \in {"idle", "opening", "aborted"} => up'[s] = <<>>
  BY DEF SocketOf, GoesOn
<1>3. ASSUME sock'[s].phase \in {"live", "left"} \/ up'[s] # <<>>
      PROVE  \E c \in Code : /\ sock'[s].code = c /\ room'[c].status # "unused"
                             /\ room'[c].status = "open" => s \in Sessions(c)'
  <2>1. sock[s].phase \in {"live", "left"} \/ up[s] # <<>>
    BY <1>3 DEF GoesOn
  <2>2. sock'[s].phase # "idle"
    BY <1>3, <2>1 DEF SocketOf, GoesOn
  <2>3. PICK c \in Code : sock'[s].code = c /\ sock[s].code = c
    BY <2>2 DEF SocketOf, GoesOn
  <2>4. room[c].status # "unused" /\ (room[c].status = "open" => s \in Sessions(c))
    BY <2>1, <2>3 DEF SocketOf
  <2>5. room'[c].status # "unused" /\ (room'[c].status = "open" => room[c].status = "open")
    BY <2>4 DEF Ages
  <2>6. room'[c].status = "open" /\ s \in Sessions(c) => s \in Sessions(c)'
    BY <1>3 DEF GoesOn
  <2> QED
    BY <2>3, <2>4, <2>5, <2>6
<1>4. ASSUME sock'[s].phase \in {"live", "left"} \/ up'[s] # <<>>
      PROVE  /\ sock'[s].code \in Code /\ room'[sock'[s].code].status # "unused"
             /\ room'[sock'[s].code].status = "open" => s \in ToSet(room'[sock'[s].code].sessions)
  BY <1>3, <1>4 DEF Sessions
<1> QED
  BY <1>1, <1>2, <1>4 DEF SocketOf, Sessions

\* A room with these sessions stays as it is.
LEMMA SeatedStays ==
  ASSUME NEW c \in Code, Seated(c), room'[c].sessions = room[c].sessions,
         room'[c].members = room[c].members,
         \A s \in Sessions(c) : /\ sock'[s].code = sock[s].code
                                /\ sock'[s].phase \in {"live", "left", "shut"}
  PROVE  Seated(c)'
<1>1. Sessions(c)' = Sessions(c) /\ Members(c)' = Members(c)
  BY DEF Sessions, Members
<1> QED
  BY <1>1 DEF Seated

\* What is neither of room-joined, peer-joined nor peer-left says nothing of members.
Plain(m) == m \in News /\ m.t \notin {"room-joined", "peer-joined", "peer-left"}

\* So a client will know as much once it has read one of these.
LEMMA PlainSent ==
  ASSUME NEW q \in Seq(News), NEW m, Plain(m), NEW p, NEW v
  PROVE  WillSee(p, Append(q, m), v) <=> WillSee(p, q, v)
<1>1. m \in News /\ ~Tells(m, p)
  BY DEF Plain, Tells
<1> QED
  BY <1>1, WillSeeSent

\* Nobody has come or gone, and nothing else was said.
Uneventful(s) ==
  sock'[s].phase = "live" =>
    /\ sock[s].phase = "live" /\ sees'[s] = sees[s]
    /\ down'[s] = down[s] \/ \E m : Plain(m) /\ down'[s] = Append(down[s], m)

\* In such a step the clients of a room stay informed.
LEMMA InformedStays ==
  ASSUME Typed, NEW c \in Code, Informed(c), room'[c].sessions = room[c].sessions,
         room'[c].members = room[c].members, \A s \in Sessions(c) : Uneventful(s)
  PROVE  Informed(c)'
<1>1. Sessions(c)' = Sessions(c) /\ \A h : PeersOf(c, h)' = PeersOf(c, h)
  BY DEF Sessions, Members, PeersOf
<1>2. Sessions(c) \subseteq Socket
  <2>1. room[c].sessions \in Seq(Socket)
    BY DEF Typed, RoomRecord
  <2> QED
    BY <2>1 DEF Sessions, ToSet
<1>3. ASSUME NEW s \in Sessions(c), sock'[s].phase = "live", NEW p \in Known
      PROVE  WillSee(p, down'[s], sees'[s]) <=> p \in PeersOf(c, Holder[s])
  <2>1. down[s] \in Seq(News)
    BY <1>2 DEF Typed
  <2>2. WillSee(p, down'[s], sees'[s]) <=> WillSee(p, down[s], sees[s])
    <3>1. sees'[s] = sees[s]
      BY <1>3 DEF Uneventful
    <3>2. CASE down'[s] = down[s]
      BY <3>1, <3>2
    <3>3. ASSUME NEW m, Plain(m), down'[s] = Append(down[s], m)
          PROVE  WillSee(p, down'[s], sees'[s]) <=> WillSee(p, down[s], sees[s])
      BY <2>1, <3>1, <3>3, PlainSent
    <3> QED
      BY <1>3, <3>2, <3>3 DEF Uneventful
  <2> QED
    BY <1>3, <2>2 DEF Informed, Uneventful
<1> QED
  BY <1>1, <1>3 DEF Informed

\* A room that is gone has neither members nor sessions.
LEMMA EmptyRoom ==
  ASSUME NEW c \in Code, room'[c].sessions = <<>>,
         room'[c].members = <<>> \/ room'[c].members = <<Creator>>
  PROVE  Seated(c)' /\ Informed(c)'
<1>1. Sessions(c)' = {} /\ Members(c)' \subseteq {Creator}
  BY DEF Sessions, Members, ToSet
<1>2. Distinct(room'[c].sessions) /\ Distinct(room'[c].members)
  BY DEF Distinct
<1> QED
  BY <1>1, <1>2 DEF Seated, Informed

-----------------------------------------------------------------------------
(***************************************************************************)
(* Steps that leave the rooms alone.                                       *)
(***************************************************************************)
\* What is sent is a message, and goes to those it is for while they are heard.
LEMMA ToldOne ==
  ASSUME Typed, NEW ss, NEW m \in News
  PROVE  /\ Told(ss, m) \in [Socket -> Seq(News)]
         /\ \A s \in Socket :
              Told(ss, m)[s] = IF s \in ss /\ sock[s].phase = "live" THEN Append(down[s], m)
                               ELSE down[s]
BY DEF Typed, Told

\* No room changes, and no socket comes.
Quiet ==
  /\ room' = room
  /\ \A s \in Socket : GoesOn(s) /\ Uneventful(s)
  /\ \A s \in Socket : sock[s].phase \in {"live", "left", "shut"} =>
       sock'[s].code = sock[s].code /\ sock'[s].phase \in {"live", "left", "shut"}

\* Such a step preserves the invariant.
LEMMA QuietInv ==
  ASSUME RoomInv, Typed', Quiet
  PROVE  RoomInv'
<1>1. \A c \in Code : Ages(c)
  BY DEF Quiet, Ages
<1>2. \A s \in Socket : SocketOf(s)'
  BY <1>1, SocketGoesOn DEF RoomInv, Quiet
<1>3. ASSUME NEW c \in Code
      PROVE  Seated(c)' /\ Informed(c)'
  <2>1. Sessions(c) \subseteq Socket
    <3>1. room[c].sessions \in Seq(Socket)
      BY DEF RoomInv, Typed, RoomRecord
    <3> QED
      BY <3>1 DEF Sessions, ToSet
  <2>2. \A s \in Sessions(c) : /\ sock'[s].code = sock[s].code
                               /\ sock'[s].phase \in {"live", "left", "shut"}
    BY <2>1 DEF RoomInv, Seated, Quiet
  <2>3. Seated(c)'
    BY <2>2, SeatedStays DEF RoomInv, Quiet
  <2>4. Informed(c)'
    BY <2>1, InformedStays DEF RoomInv, Quiet
  <2> QED
    BY <2>3, <2>4
<1> QED
  BY <1>2, <1>3 DEF RoomInv

\* Open.
LEMMA OpenInv ==
  ASSUME RoomInv, NEW s \in Socket, NEW c \in Code, Open(s, c)
  PROVE  RoomInv'
<1>1. /\ sock[s].phase = "idle" /\ sock' = [sock EXCEPT ![s] = [phase |-> "opening", code |-> c]]
      /\ room' = room /\ up' = up /\ down' = down /\ sees' = sees
  BY DEF Open, OpenSocket
<1>2. Typed'
  BY <1>1 DEF RoomInv, Typed, Phase
<1>3. /\ sock'[s] = [phase |-> "opening", code |-> c]
      /\ \A o \in Socket \ {s} : sock'[o] = sock[o]
  BY <1>1 DEF RoomInv, Typed
<1>4. up[s] = <<>>
  BY <1>1 DEF RoomInv, SocketOf
<1>5. SocketOf(s)'
  BY <1>1, <1>3, <1>4 DEF SocketOf
<1>6. ASSUME NEW o \in Socket \ {s}
      PROVE  GoesOn(o) /\ SocketOf(o)'
  <2>1. GoesOn(o)
    BY <1>1, <1>3 DEF GoesOn, Sessions
  <2> QED
    BY <1>1, <2>1, SocketGoesOn DEF RoomInv, Ages
<1>7. ASSUME NEW d \in Code
      PROVE  Seated(d)' /\ Informed(d)'
  <2>1. Sessions(d) \subseteq Socket
    <3>1. room[d].sessions \in Seq(Socket)
      BY DEF RoomInv, Typed, RoomRecord
    <3> QED
      BY <3>1 DEF Sessions, ToSet
  <2>2. s \notin Sessions(d)
    BY <1>1 DEF RoomInv, Seated
  <2>3. \A o \in Sessions(d) : sock'[o] = sock[o]
    BY <1>3, <2>1, <2>2
  <2>4. Seated(d)'
    BY <1>1, <2>3, SeatedStays DEF RoomInv, Seated
  <2>5. Informed(d)'
    BY <1>1, <2>3, InformedStays DEF RoomInv, Uneventful
  <2> QED
    BY <2>4, <2>5
<1> QED
  BY <1>2, <1>5, <1>6, <1>7 DEF RoomInv

\* Say.
LEMMA SayInv ==
  ASSUME RoomInv, NEW s \in Socket, NEW m \in Messages(s), Say(s, m)
  PROVE  RoomInv'
<1>1. /\ sock[s].phase = "live" /\ room' = room /\ sock' = sock /\ down' = down /\ sees' = sees
      /\ up' = [up EXCEPT ![s] = @ \o <<m>>]
  BY DEF Say, Says, RoomInv, Typed
<1>2. Typed'
  <2>1. m \in Word
    BY DEF Word
  <2>2. up' \in [Socket -> Seq(Word)]
    BY <1>1, <2>1 DEF RoomInv, Typed
  <2> QED
    BY <1>1, <2>2 DEF RoomInv, Typed
<1>3. \A o \in Socket : o # s => up'[o] = up[o]
  BY <1>1 DEF RoomInv, Typed
<1>4. Quiet
  BY <1>1, <1>3 DEF Quiet, GoesOn, Uneventful, Sessions
<1> QED
  BY <1>2, <1>4, QuietInv

\* Leave and LoseConnection.
LEMMA AwayInv ==
  ASSUME RoomInv, NEW s \in Socket, Leave(s) \/ LoseConnection(s)
  PROVE  RoomInv'
<1>1. /\ room' = room /\ sees' = sees /\ sock[s].phase \in {"opening", "live"}
      /\ sock' = [sock EXCEPT ![s].phase = IF @ = "opening" THEN "aborted" ELSE "left"]
      /\ \E q \in Seq(Word) : up' = [up EXCEPT ![s] = q] /\ (sock[s].phase # "live" => q = up[s])
      /\ down' = [down EXCEPT ![s] = <<>>]
  <2>1. CASE LoseConnection(s)
    <3>1. <<>> \in Seq(Word)
      OBVIOUS
    <3> QED
      BY <2>1, <3>1 DEF LoseConnection, Break
  <2>2. ASSUME NEW last \in {<<>>, <<[t |-> "leave-room"]>>}, HangUp(s, last),
               sock[s].phase \in {"opening", "live"}
        PROVE  /\ sock' = [sock EXCEPT ![s].phase = IF @ = "opening" THEN "aborted" ELSE "left"]
               /\ \E q \in Seq(Word) : /\ up' = [up EXCEPT ![s] = q]
                                       /\ sock[s].phase # "live" => q = up[s]
               /\ down' = [down EXCEPT ![s] = <<>>]
    <3>1. [t |-> "leave-room"] \in Word
      BY DEF Word, Messages
    <3>2. up[s] \in Seq(Word) /\ <<>> \in Seq(Word) /\ <<[t |-> "leave-room"]>> \in Seq(Word)
      BY <3>1 DEF RoomInv, Typed
    <3>3. up[s] \o <<>> \in Seq(Word) /\ up[s] \o <<[t |-> "leave-room"]>> \in Seq(Word)
      BY <3>2, ConcatProperties
    <3>4. up[s] \o last \in Seq(Word)
      BY <3>3
    <3> QED
      BY <2>2, <3>2, <3>4 DEF HangUp
  <2> QED
    BY <2>1, <2>2 DEF Leave
<1>2. /\ sock'[s].phase = (IF sock[s].phase = "opening" THEN "aborted" ELSE "left")
      /\ sock'[s].code = sock[s].code
      /\ \A o \in Socket : o # s => sock'[o] = sock[o] /\ down'[o] = down[o] /\ up'[o] = up[o]
  BY <1>1 DEF RoomInv, Typed
<1>3. Typed'
  <2>1. sock' \in [Socket -> [phase : Phase, code : Code \cup {None}]]
    <3>1. sock'[s] \in [phase : Phase, code : Code \cup {None}]
      BY <1>1 DEF RoomInv, Typed, Phase
    <3> QED
      BY <1>1, <1>2, <3>1 DEF RoomInv, Typed
  <2>2. up' \in [Socket -> Seq(Word)] /\ down' \in [Socket -> Seq(News)]
    BY <1>1 DEF RoomInv, Typed
  <2> QED
    BY <1>1, <2>1, <2>2 DEF RoomInv, Typed
<1>4. sock[s].phase # "live" => up'[s] = up[s]
  BY <1>1 DEF RoomInv, Typed
<1>5. Quiet
  <2>1. GoesOn(s)
    BY <1>1, <1>2, <1>4 DEF GoesOn, Sessions
  <2>2. Uneventful(s)
    BY <1>2 DEF Uneventful
  <2>3. \A o \in Socket \ {s} : GoesOn(o) /\ Uneventful(o)
    BY <1>1, <1>2 DEF GoesOn, Uneventful, Sessions
  <2> QED
    BY <1>1, <1>2, <2>1, <2>2, <2>3 DEF Quiet
<1> QED
  BY <1>3, <1>5, QuietInv

\* Hear.
LEMMA HearInv ==
  ASSUME RoomInv, NEW s \in Socket, Hear(s)
  PROVE  RoomInv'
<1>1. /\ down[s] # <<>> /\ room' = room /\ sock' = sock /\ up' = up
      /\ sees' = [sees EXCEPT ![s] = After(@, Head(down[s]))]
      /\ down' = [down EXCEPT ![s] = Tail(@)]
  BY DEF Hear, Heard
<1>2. down[s] \in Seq(News) /\ sees[s] \in SUBSET Known
  BY DEF RoomInv, Typed
<1>3. Head(down[s]) \in News /\ Tail(down[s]) \in Seq(News)
  BY <1>1, <1>2
<1>4. Typed'
  <2>1. After(sees[s], Head(down[s])) \in SUBSET Known
    <3>1. CASE Known = {}
      BY <1>2, <1>3, <3>1 DEF Known
    <3>2. CASE Known # {}
      BY <1>2, <1>3, <3>2, AfterNews
    <3> QED
      BY <3>1, <3>2
  <2> QED
    BY <1>1, <1>3, <2>1 DEF RoomInv, Typed
<1>5. \A o \in Socket : o # s => down'[o] = down[o] /\ sees'[o] = sees[o]
  BY <1>1 DEF RoomInv, Typed
<1>6. down'[s] = Tail(down[s]) /\ sees'[s] = After(sees[s], Head(down[s]))
  BY <1>1 DEF RoomInv, Typed
<1>7. \A o \in Socket : SocketOf(o)'
  BY <1>1 DEF RoomInv, SocketOf, Sessions
<1>8. ASSUME NEW c \in Code
      PROVE  Seated(c)' /\ Informed(c)'
  <2>1. Sessions(c)' = Sessions(c) /\ Members(c)' = Members(c) /\ Sessions(c) \subseteq Socket
    <3>1. room[c].sessions \in Seq(Socket)
      BY DEF RoomInv, Typed, RoomRecord
    <3> QED
      BY <1>1, <3>1 DEF Sessions, Members, ToSet
  <2>2. Seated(c)'
    BY <1>1, <2>1 DEF RoomInv, Seated
  <2>3. ASSUME NEW o \in Sessions(c), sock[o].phase = "live", NEW p \in Known
        PROVE  WillSee(p, down'[o], sees'[o]) <=> p \in PeersOf(c, Holder[o])
    <3>1. WillSee(p, down[o], sees[o]) <=> p \in PeersOf(c, Holder[o])
      BY <2>3 DEF RoomInv, Informed
    <3>2. CASE o = s
      BY <1>1, <1>2, <1>6, <3>1, <3>2, WillSeeRead
    <3>3. CASE o # s
      BY <1>5, <2>1, <3>1, <3>3
    <3> QED
      BY <3>2, <3>3
  <2> QED
    BY <1>1, <2>1, <2>2, <2>3 DEF Informed, PeersOf
<1> QED
  BY <1>4, <1>7, <1>8 DEF RoomInv

-----------------------------------------------------------------------------
(***************************************************************************)
(* Steps of the object.                                                    *)
(***************************************************************************)
LEMMA SessionSockets ==
  ASSUME Typed, NEW c \in Code
  PROVE  Sessions(c) \subseteq Socket /\ Members(c) \subseteq Known
<1>1. room[c].sessions \in Seq(Socket) /\ room[c].members \in Seq(Known)
  BY DEF Typed, RoomRecord
<1> QED
  BY <1>1 DEF Sessions, Members, ToSet

\* A room whose members and sessions stay.
Stays(c) ==
  /\ room'[c].sessions = room[c].sessions /\ room'[c].members = room[c].members
  /\ \A s \in Sessions(c) : /\ Uneventful(s) /\ sock'[s].code = sock[s].code
                            /\ sock'[s].phase \in {"live", "left", "shut"}

\* A room that is empty.
Empty(c) ==
  room'[c].sessions = <<>> /\ (room'[c].members = <<>> \/ room'[c].members = <<Creator>>)

\* A step after which every room is as it was, or empty, preserves the invariant.
LEMMA StepInv ==
  ASSUME RoomInv, Typed', \A s \in Socket : GoesOn(s),
         \A c \in Code : Ages(c) /\ (Stays(c) \/ Empty(c))
  PROVE  RoomInv'
<1>1. \A s \in Socket : SocketOf(s)'
  BY SocketGoesOn DEF RoomInv
<1>2. ASSUME NEW c \in Code, Stays(c)
      PROVE  Seated(c)' /\ Informed(c)'
  BY <1>2, SeatedStays, InformedStays DEF RoomInv, Stays
<1>3. ASSUME NEW c \in Code, Empty(c)
      PROVE  Seated(c)' /\ Informed(c)'
  BY <1>3, EmptyRoom DEF Empty
<1> QED
  BY <1>1, <1>2, <1>3 DEF RoomInv

\* CreateRoom.
LEMMA CreateInv ==
  ASSUME RoomInv, NEW c \in Code, NEW roster \in {{}, Rostered}, Create(c, roster)
  PROVE  RoomInv'
<1>1. /\ room[c].status = "unused" /\ sock' = sock /\ up' = up /\ down' = down /\ sees' = sees
      /\ room' = [room EXCEPT ![c] = [status |-> "open", members |-> <<Creator>>,
                                      roster |-> roster, sessions |-> <<>>]]
  BY DEF Create, CreateRoom
<1>2. Typed'
  <2>1. <<Creator>> \in Seq(Known) /\ <<>> \in Seq(Socket)
    BY DEF Known
  <2>2. [status |-> "open", members |-> <<Creator>>, roster |-> roster, sessions |-> <<>>]
          \in RoomRecord
    BY <2>1 DEF RoomRecord, Status
  <2> QED
    BY <1>1, <2>2 DEF RoomInv, Typed
<1>3. /\ room'[c] = [status |-> "open", members |-> <<Creator>>, roster |-> roster,
                     sessions |-> <<>>]
      /\ \A d \in Code : d # c => room'[d] = room[d]
  BY <1>1 DEF RoomInv, Typed
<1>4. \A d \in Code : Ages(d)
  BY <1>1, <1>3 DEF Ages
<1>5. ASSUME NEW s \in Socket
      PROVE  GoesOn(s)
  <2>1. sock[s].phase \in {"live", "left"} \/ up[s] # <<>> => s \notin Sessions(c)
    <3>1. ASSUME sock[s].phase \in {"live", "left"} \/ up[s] # <<>>, s \in Sessions(c)
          PROVE  FALSE
      <4>1. sock[s].code = c
        BY <3>1 DEF RoomInv, Seated
      <4>2. SocketOf(s)
        BY DEF RoomInv
      <4> QED
        BY <1>1, <3>1, <4>1, <4>2 DEF SocketOf
    <3> QED
      BY <3>1
  <2>2. \A d \in Code : d # c => Sessions(d)' = Sessions(d)
    BY <1>3 DEF Sessions
  <2> QED
    BY <1>1, <2>1, <2>2 DEF GoesOn
<1>6. Empty(c)
  BY <1>3 DEF Empty
<1>7. ASSUME NEW d \in Code, d # c
      PROVE  Stays(d)
  BY <1>1, <1>3, <1>7 DEF Stays, Uneventful, RoomInv, Seated
<1> QED
  BY <1>2, <1>4, <1>5, <1>6, <1>7, StepInv

\* Closing() shuts, of the sockets ss, those that are live.
LEMMA ClosingOne ==
  ASSUME Typed, NEW ss
  PROVE  /\ Closing(ss) \in [Socket -> [phase : Phase, code : Code \cup {None}]]
         /\ \A s \in Socket :
              /\ Closing(ss)[s].code = sock[s].code
              /\ Closing(ss)[s].phase = IF s \in ss /\ sock[s].phase = "live" THEN "shut"
                                        ELSE sock[s].phase
<1>1. ASSUME NEW s \in Socket
      PROVE  /\ Closing(ss)[s] \in [phase : Phase, code : Code \cup {None}]
             /\ Closing(ss)[s].code = sock[s].code
             /\ Closing(ss)[s].phase = IF s \in ss /\ sock[s].phase = "live" THEN "shut"
                                       ELSE sock[s].phase
  BY DEF Typed, Closing, Phase
<1>2. DOMAIN Closing(ss) = Socket
  BY DEF Closing
<1>3. Closing(ss) = [s \in Socket |-> Closing(ss)[s]]
  BY DEF Closing
<1> QED
  BY <1>1, <1>3

\* Time.
LEMMA ExpireInv ==
  ASSUME RoomInv, NEW c \in Code, Expire(c), sees' = sees
  PROVE  RoomInv'
<1>1. /\ room[c].status = "open" /\ sock' = sock /\ up' = up /\ down' = down
      /\ room' = [room EXCEPT ![c].status = "stale"]
  BY DEF Expire
<1>2. room'[c].status = "stale" /\ \A d \in Code : /\ room'[d].sessions = room[d].sessions
                                                   /\ room'[d].members = room[d].members
                                                   /\ d # c => room'[d] = room[d]
  BY <1>1 DEF RoomInv, Typed, RoomRecord
<1>3. Typed'
  <2>1. room' \in [Code -> RoomRecord]
    BY <1>1 DEF RoomInv, Typed, RoomRecord, Status
  <2> QED
    BY <1>1, <2>1 DEF RoomInv, Typed
<1>4. \A d \in Code : Ages(d)
  BY <1>1, <1>2 DEF Ages
<1>5. \A s \in Socket : GoesOn(s)
  BY <1>1, <1>2 DEF GoesOn, Sessions
<1>6. \A d \in Code : Stays(d)
  BY <1>1, <1>2 DEF Stays, Uneventful, RoomInv, Seated
<1> QED
  BY <1>3, <1>4, <1>5, <1>6, StepInv

\* destroyRoom()
LEMMA DestroyedOne ==
  ASSUME Typed, NEW c \in Code
  PROVE  /\ Destroyed(c) \in [Code -> RoomRecord]
         /\ Destroyed(c)[c].status = "gone" /\ Destroyed(c)[c].members = <<>>
         /\ Destroyed(c)[c].sessions = <<>>
         /\ \A d \in Code : d # c => Destroyed(c)[d] = room[d]
<1> DEFINE r == [NoRoom EXCEPT !.status = "gone"]
<1>1. NoRoom \in [status : {"unused"}, members : {<<>>}, roster : {{}}, sessions : {<<>>}]
  BY DEF NoRoom
<1>2. /\ r \in [status : {"gone"}, members : {<<>>}, roster : {{}}, sessions : {<<>>}]
      /\ r.status = "gone" /\ r.members = <<>> /\ r.sessions = <<>>
  BY <1>1
<1>3. r \in RoomRecord
  <2>1. {<<>>} \subseteq Seq(Known) /\ {{}} \subseteq SUBSET Rostered /\ {<<>>} \subseteq Seq(Socket)
    OBVIOUS
  <2>2. [status : {"gone"}, members : {<<>>}, roster : {{}}, sessions : {<<>>}] \subseteq RoomRecord
    BY <2>1, Zenon DEF RoomRecord, Status
  <2> HIDE DEF r
  <2> QED
    BY <1>2, <2>2
<1>4. Destroyed(c) = [room EXCEPT ![c] = r]
  BY DEF Destroyed
<1> HIDE DEF r
<1> QED
  BY <1>2, <1>3, <1>4 DEF Typed

\* A room goes, and with it every socket of the room that was live.
LEMMA GoneInv ==
  ASSUME RoomInv, Typed', NEW c \in Code, room' = Destroyed(c),
         \A s \in Socket : GoesOn(s),
         \A s \in Socket : sock[s].code # c /\ sock[s].phase \in {"live", "left", "shut"} =>
           /\ Uneventful(s) /\ sock'[s].code = sock[s].code
           /\ sock'[s].phase \in {"live", "left", "shut"}
  PROVE  RoomInv'
<1>1. /\ room'[c].status = "gone" /\ room'[c].members = <<>> /\ room'[c].sessions = <<>>
      /\ \A d \in Code : d # c => room'[d] = room[d]
  BY DestroyedOne DEF RoomInv
<1>2. \A d \in Code : Ages(d)
  BY <1>1 DEF Ages
<1>3. Empty(c)
  BY <1>1 DEF Empty
<1>4. ASSUME NEW d \in Code, d # c
      PROVE  Stays(d)
  <2>1. Sessions(d) \subseteq Socket
    BY SessionSockets DEF RoomInv
  <2>2. \A s \in Sessions(d) : sock[s].code = d /\ sock[s].phase \in {"live", "left", "shut"}
    BY DEF RoomInv, Seated
  <2> QED
    BY <1>1, <1>4, <2>1, <2>2 DEF Stays
<1> QED
  BY <1>2, <1>3, <1>4, StepInv

\* Alarm.
LEMMA AlarmInv ==
  ASSUME RoomInv, NEW c \in Code, Alarm(c), sees' = sees
  PROVE  RoomInv'
<1>1. /\ room[c].status = "stale" /\ room' = Destroyed(c) /\ sock' = Closing(SocketsOf(c))
      /\ up' = up /\ down' = down
  BY DEF Alarm
<1>2. Typed'
  BY <1>1, DestroyedOne, ClosingOne DEF RoomInv, Typed
<1>3. \A d \in Code : d # c => Sessions(d)' = Sessions(d)
  BY <1>1, DestroyedOne DEF Sessions, RoomInv
<1>4. room'[c].status = "gone"
  BY <1>1, DestroyedOne DEF RoomInv
<1>5. ASSUME NEW s \in Socket
      PROVE  /\ GoesOn(s)
             /\ sock[s].phase \in {"live", "left", "shut"} =>
                  /\ Uneventful(s) /\ sock'[s].code = sock[s].code
                  /\ sock'[s].phase \in {"live", "left", "shut"}
  <2>1. /\ sock'[s].code = sock[s].code
        /\ sock'[s].phase = IF s \in SocketsOf(c) /\ sock[s].phase = "live" THEN "shut"
                            ELSE sock[s].phase
    BY <1>1, ClosingOne DEF RoomInv
  <2>2. GoesOn(s)
    BY <1>1, <1>3, <1>4, <2>1 DEF GoesOn
  <2> QED
    BY <1>1, <2>1, <2>2 DEF Uneventful
<1> QED
  BY <1>1, <1>2, <1>5, GoneInv

\* Refuse.
LEMMA RefuseInv ==
  ASSUME RoomInv, NEW s \in Socket, Refuse(s), sees' = sees
  PROVE  RoomInv'
<1> DEFINE c == sock[s].code
           stale == room[c].status = "stale"
           closed == IF stale THEN Closing(SocketsOf(c)) ELSE sock
           last == IF sock[s].phase = "aborted" THEN "done" ELSE "shut"
           said == IF sock[s].phase = "aborted" THEN <<>> ELSE <<[t |-> "error"]>>
<1>1. /\ sock[s].phase \in {"opening", "aborted"} /\ up' = up
      /\ room' = IF stale THEN Destroyed(c) ELSE room
      /\ sock' = [closed EXCEPT ![s].phase = last] /\ down' = [down EXCEPT ![s] = said]
  BY DEF Refuse
<1>2. c \in Code /\ up[s] = <<>>
  BY <1>1 DEF RoomInv, SocketOf
<1>3. /\ closed \in [Socket -> [phase : Phase, code : Code \cup {None}]]
      /\ \A o \in Socket : /\ closed[o].code = sock[o].code
                           /\ closed[o].phase =
                                IF o \in SocketsOf(c) /\ sock[o].phase = "live" /\ stale
                                THEN "shut" ELSE sock[o].phase
  BY ClosingOne DEF RoomInv, Typed
<1> HIDE DEF closed
<1>4. said \in Seq(News) /\ last \in Phase \ {"idle", "opening", "aborted", "live", "left"}
  <2>1. <<[t |-> "error"]>> \in Seq(News) /\ <<>> \in Seq(News)
    <3>1. [t |-> "error"] \in News
      BY DEF News
    <3> QED
      BY <3>1
  <2>2. said \in Seq(News)
    BY <2>1
  <2> QED
    BY <2>2 DEF Phase
<1> HIDE DEF last, said
<1>5. /\ sock'[s].phase = last /\ \A o \in Socket : sock'[o].code = sock[o].code
      /\ \A o \in Socket : o # s => sock'[o].phase = closed[o].phase /\ down'[o] = down[o]
  BY <1>1, <1>3 DEF RoomInv, Typed
<1>6. Typed'
  <2>1. sock' \in [Socket -> [phase : Phase, code : Code \cup {None}]]
    BY <1>1, <1>3, <1>4
  <2>2. down' \in [Socket -> Seq(News)]
    BY <1>1, <1>4 DEF RoomInv, Typed
  <2>3. room' \in [Code -> RoomRecord]
    BY <1>1, <1>2, DestroyedOne DEF RoomInv, Typed
  <2> QED
    BY <1>1, <2>1, <2>2, <2>3 DEF RoomInv, Typed
<1>7. ASSUME NEW o \in Socket, NEW d \in Code, o \in Sessions(d), room'[d].status = "open"
      PROVE  o \in Sessions(d)'
  BY <1>1, <1>2, <1>7, DestroyedOne DEF RoomInv, Sessions
<1>8. ASSUME NEW o \in Socket
      PROVE  /\ GoesOn(o) /\ Uneventful(o)
             /\ sock[o].phase \in {"live", "left", "shut"} =>
                  sock'[o].code = sock[o].code /\ sock'[o].phase \in {"live", "left", "shut"}
  <2>1. CASE o = s
    <3>1. sock[o].phase \in {"opening", "aborted"} /\ up'[o] = <<>> /\ up[o] = <<>>
          /\ sock'[o].code = sock[o].code
          /\ sock'[o].phase \notin {"idle", "opening", "aborted", "live", "left"}
      BY <1>1, <1>2, <1>4, <1>5, <2>1
    <3> QED
      BY <3>1 DEF GoesOn, Uneventful
  <2>2. CASE o # s
    <3>1. /\ up'[o] = up[o] /\ down'[o] = down[o] /\ sees'[o] = sees[o]
          /\ sock'[o].code = sock[o].code
          /\ sock'[o].phase = IF o \in SocketsOf(c) /\ sock[o].phase = "live" /\ stale
                              THEN "shut" ELSE sock[o].phase
      BY <1>1, <1>3, <1>5, <2>2
    <3> HIDE DEF stale
    <3> QED
      BY <1>7, <3>1 DEF GoesOn, Uneventful
  <2> QED
    BY <2>1, <2>2
<1>9. CASE stale
  BY <1>1, <1>2, <1>6, <1>8, <1>9, GoneInv
<1>10. CASE ~stale
  <2>1. Quiet
    BY <1>1, <1>8, <1>10 DEF Quiet
  <2> QED
    BY <1>6, <2>1, QuietInv
<1> QED
  BY <1>9, <1>10

\* Serve.
LEMMA ServeInv ==
  ASSUME RoomInv, NEW s \in Socket, Serve(s), sees' = sees
  PROVE  RoomInv'
<1> DEFINE c == sock[s].code
           m == Head(up[s])
<1>1. /\ sock[s].phase \in {"live", "left", "shut"} /\ up[s] # <<>>
      /\ up' = [up EXCEPT ![s] = Tail(@)]
  BY DEF Serve
<1>2. c \in Code /\ (room[c].status = "open" => s \in Sessions(c))
  BY <1>1 DEF RoomInv, SocketOf
<1>3. m \in Word /\ up' \in [Socket -> Seq(Word)]
  <2>1. up[s] \in Seq(Word)
    BY DEF RoomInv, Typed
  <2>2. m \in Word /\ Tail(up[s]) \in Seq(Word)
    BY <1>1, <2>1
  <2> QED
    BY <1>1, <2>2 DEF RoomInv, Typed
<1>4. \A o \in Socket : (up'[o] # <<>> => up[o] # <<>>) /\ (o # s => up'[o] = up[o])
  BY <1>1 DEF RoomInv, Typed
\* A step that at most closes sockets, and says what is plain.
<1>5. ASSUME NEW ss, sock' = Closing(ss), NEW n, Plain(n), NEW heard,
             down' = down \/ down' = Told(heard, n),
             \A o \in Socket, d \in Code :
               room'[d].status = "open" /\ o \in Sessions(d) => o \in Sessions(d)',
             room' \in [Code -> RoomRecord]
      PROVE  /\ Typed' /\ \A o \in Socket : GoesOn(o) /\ Uneventful(o)
             /\ \A o \in Socket : sock[o].phase \in {"live", "left", "shut"} =>
                  sock'[o].code = sock[o].code /\ sock'[o].phase \in {"live", "left", "shut"}
  <2>1. /\ sock' \in [Socket -> [phase : Phase, code : Code \cup {None}]]
        /\ \A o \in Socket :
             /\ sock'[o].code = sock[o].code
             /\ sock'[o].phase = IF o \in ss /\ sock[o].phase = "live" THEN "shut" ELSE sock[o].phase
    BY <1>5, ClosingOne DEF RoomInv
  <2>2. n \in News
    BY <1>5 DEF Plain
  <2>3. /\ down' \in [Socket -> Seq(News)]
        /\ \A o \in Socket : down'[o] = down[o] \/ down'[o] = Append(down[o], n)
    <3>1. ASSUME NEW f, f = down \/ f = Told(heard, n)
          PROVE  /\ f \in [Socket -> Seq(News)]
                 /\ \A o \in Socket : f[o] = down[o] \/ f[o] = Append(down[o], n)
      <4>1. CASE f = down
        BY <4>1 DEF RoomInv, Typed
      <4>2. CASE f = Told(heard, n)
        <5>1. Typed
          BY DEF RoomInv
        <5>2. /\ Told(heard, n) \in [Socket -> Seq(News)]
              /\ \A o \in Socket :
                   Told(heard, n)[o] = IF o \in heard /\ sock[o].phase = "live" THEN Append(down[o], n)
                                       ELSE down[o]
          BY <2>2, <5>1, ToldOne
        <5> QED
          BY <4>2, <5>2
      <4> QED
        BY <3>1, <4>1, <4>2
    <3>2. down' = down \/ down' = Told(heard, n)
      BY <1>5
    <3> QED
      BY <3>1, <3>2
  <2>4. Typed'
    BY <1>3, <1>5, <2>1, <2>3 DEF RoomInv, Typed
  <2>5. ASSUME NEW o \in Socket
        PROVE  GoesOn(o) /\ Uneventful(o)
    <3>1. sock'[o].phase \notin {"idle", "opening", "aborted"} \/ o # s
      BY <1>1, <2>1
    <3>2. GoesOn(o)
      BY <1>4, <1>5, <2>1, <3>1 DEF GoesOn
    <3>3. Uneventful(o)
      BY <1>5, <2>1, <2>3 DEF Uneventful
    <3> QED
      BY <3>2, <3>3
  <2> QED
    BY <2>1, <2>4, <2>5
<1>6. Plain([t |-> "error"])
  BY DEF Plain, News
<1>7. CASE ServeClosed(s, c)
  <2>1. /\ room[c].status # "open" /\ down' = down /\ sock' = Closing(SocketsOf(c))
        /\ room' = IF Exists(c) THEN Destroyed(c) ELSE room
    BY <1>7 DEF ServeClosed
  <2>2. room' \in [Code -> RoomRecord]
    BY <1>2, <2>1, DestroyedOne DEF RoomInv, Typed
  <2>3. \A o \in Socket, d \in Code : room'[d].status = "open" /\ o \in Sessions(d) => o \in Sessions(d)'
    BY <1>2, <2>1, DestroyedOne DEF RoomInv, Sessions
  <2>4. /\ Typed' /\ \A o \in Socket : GoesOn(o) /\ Uneventful(o)
        /\ \A o \in Socket : sock[o].phase \in {"live", "left", "shut"} =>
             sock'[o].code = sock[o].code /\ sock'[o].phase \in {"live", "left", "shut"}
    BY <1>5, <1>6, <2>1, <2>2, <2>3
  <2>5. CASE Exists(c)
    BY <1>2, <2>1, <2>4, <2>5, GoneInv
  <2>6. CASE ~Exists(c)
    <3>1. Quiet
      BY <2>1, <2>4, <2>6 DEF Quiet
    <3> QED
      BY <2>4, <3>1, QuietInv
  <2> QED
    BY <2>5, <2>6
<1>8. ASSUME room[c].status = "open", NEW p, p = Holder[s],
             room' = WithoutPeer(c, p, room[c].sessions),
             down' = ToldOfLeaving(c, p, room[c].sessions),
             sock' = ClosedByLeaving(c, p, room[c].sessions)
      PROVE  RoomInv'
  <2>1. StillHere(p, room[c].sessions)
    BY <1>2, <1>8 DEF StillHere, Sessions
  <2>2. /\ room' = [room EXCEPT ![c].members = @, ![c].sessions = room[c].sessions]
        /\ down' = down /\ sock' = Closing({})
    BY <1>8, <2>1 DEF WithoutPeer, ToldOfLeaving, ClosedByLeaving, Empties
  <2>3. room' \in [Code -> RoomRecord] /\ \A d \in Code : /\ room'[d].members = room[d].members
                                                          /\ room'[d].sessions = room[d].sessions
                                                          /\ room'[d].status = room[d].status
    BY <1>2, <2>2 DEF RoomInv, Typed, RoomRecord
  <2>4. \A d \in Code : Sessions(d)' = Sessions(d) /\ Sessions(d) \subseteq Socket
    BY <2>3, SessionSockets DEF Sessions, RoomInv
  <2>5. /\ Typed' /\ \A o \in Socket : GoesOn(o) /\ Uneventful(o)
        /\ \A o \in Socket : sock[o].phase \in {"live", "left", "shut"} =>
             sock'[o].code = sock[o].code /\ sock'[o].phase \in {"live", "left", "shut"}
    BY <1>5, <1>6, <2>2, <2>3, <2>4
  <2>6. \A d \in Code : Ages(d) /\ Stays(d)
    BY <2>3, <2>4, <2>5 DEF Ages, Stays, RoomInv, Seated
  <2> QED
    BY <2>5, <2>6, StepInv
<1>9. ASSUME room' = room, NEW ss, sock' = Closing(ss), NEW n, Plain(n), NEW heard,
             down' = down \/ down' = Told(heard, n)
      PROVE  RoomInv'
  <2>1. room' \in [Code -> RoomRecord] /\ \A d \in Code : Sessions(d)' = Sessions(d)
    BY <1>9 DEF RoomInv, Typed, Sessions
  <2>2. /\ Typed' /\ \A o \in Socket : GoesOn(o) /\ Uneventful(o)
        /\ \A o \in Socket : sock[o].phase \in {"live", "left", "shut"} =>
             sock'[o].code = sock[o].code /\ sock'[o].phase \in {"live", "left", "shut"}
    BY <1>5, <1>9, <2>1
  <2>3. Quiet
    BY <1>9, <2>2 DEF Quiet
  <2> QED
    BY <2>2, <2>3, QuietInv
<1>10. CASE m.t = "signal" /\ Relay(c, s, m)
  <2> DEFINE signaled == [t |-> "signaled", from |-> Holder[s], body |-> m.body]
  <2>1. Holder[s] \in Peer
    BY DEF Peer
  <2>2. m.body = "sdp"
    BY <1>3, <1>10 DEF Word, Messages
  <2>3. Plain(signaled)
    BY <2>1, <2>2 DEF Plain, News
  <2>4. sock = Closing({}) /\ room' = room /\ sock' = sock
    BY <1>10 DEF Closing, Relay, RoomInv, Typed
  <2>5. down' = Told({SocketFor(c, m.to)}, signaled) \/ down' = Told({s}, [t |-> "error"])
    BY <1>10 DEF Relay
  <2> HIDE DEF signaled, m
  <2> QED
    BY <1>6, <1>9, <2>3, <2>4, <2>5
<1>11. CASE m.t \in {"packet", "flood"} /\ Packet(c, s, m)
  <2> DEFINE packet == [t |-> "packet", body |-> m.body]
             admitted == room[c].roster # {} /\ m.t = "packet"
  <2>1. m.body = "input"
    BY <1>3, <1>11 DEF Word, Messages
  <2>2. Plain(packet)
    BY <2>1 DEF Plain, News
  <2>3. /\ room' = room /\ sock' = Closing(IF admitted THEN {} ELSE {s})
        /\ down' = IF admitted THEN Told(Others(c, Holder[s]), packet) ELSE down
    BY <1>11 DEF Packet
  <2> HIDE DEF packet, admitted
  <2> QED
    BY <1>9, <2>2, <2>3
<1> QED
  BY <1>7, <1>8, <1>10, <1>11 DEF Serve

\* A step that changes the members or the sessions of one room only.
LEMMA OneRoomInv ==
  ASSUME RoomInv, Typed', NEW c \in Code, Seated(c)', Informed(c)', \A d \in Code : Ages(d),
         \A s \in Socket : SocketOf(s)', \A d \in Code : d # c => Stays(d)
  PROVE  RoomInv'
<1>1. ASSUME NEW d \in Code, d # c
      PROVE  Seated(d)' /\ Informed(d)'
  BY <1>1, SeatedStays, InformedStays DEF RoomInv, Stays
<1>2. ASSUME NEW d \in Code
      PROVE  Seated(d)' /\ Informed(d)'
  BY <1>1, <1>2
<1> QED
  BY <1>2 DEF RoomInv

\* Close of a session: the room it leaves.
LEMMA ClosedRoom ==
  ASSUME RoomInv, NEW c \in Code, NEW s \in Sessions(c), NEW p, p = Holder[s],
         NEW q, q = RemoveFirst(room[c].sessions, s),
         ~Empties(c, p, q), room' = WithoutPeer(c, p, q), down' = ToldOfLeaving(c, p, q),
         sees' = sees,
         \A o \in Socket : o # s => sock'[o] = sock[o]
  PROVE  /\ room' \in [Code -> RoomRecord] /\ down' \in [Socket -> Seq(News)]
         /\ Seated(c)' /\ Informed(c)'
         /\ \A d \in Code : room'[d].status = room[d].status
         /\ \A d \in Code : d # c => room'[d] = room[d]
         /\ \A o \in Socket \ {s} : o \in Sessions(c) => o \in Sessions(c)'
         /\ \A o \in Socket \ Sessions(c) : down'[o] = down[o]
<1> DEFINE r == RemoveFirst(room[c].members, p)
           m == [t |-> "peer-left", peer |-> p]
           stays == StillHere(p, q)
           rest == IF stays THEN room[c].members ELSE r
<1>1. /\ room[c] \in RoomRecord /\ room[c].sessions \in Seq(Socket)
      /\ room[c].members \in Seq(Known)
      /\ Distinct(room[c].sessions) /\ Distinct(room[c].members)
  BY DEF RoomInv, Typed, RoomRecord, Seated
<1>2. /\ q \in Seq(Socket) /\ Distinct(q) /\ s \notin ToSet(q)
      /\ \A o : o \in ToSet(q) <=> o \in Sessions(c) \ {s}
  BY <1>1, RemoveFirstOf DEF Sessions
<1>3. /\ r \in Seq(Known) /\ Distinct(r)
      /\ \A h : h \in ToSet(r) <=> h \in Members(c) \ {p}
  BY <1>1, RemoveFirstOf DEF Members
<1>4. s \in Socket /\ Sessions(c) \subseteq Socket /\ p \in Peer /\ p \in Known
  BY SessionSockets DEF RoomInv, Peer, Known
<1>5. room' = [room EXCEPT ![c].members = rest, ![c].sessions = q]
  BY DEF WithoutPeer, Rest
<1> HIDE DEF r
<1>6. rest \in Seq(Known) /\ Distinct(rest)
  BY <1>1, <1>3
<1> HIDE DEF rest
<1>7. /\ room' \in [Code -> RoomRecord]
      /\ room'[c].members = rest /\ room'[c].sessions = q
      /\ \A d \in Code : room'[d].status = room[d].status /\ (d # c => room'[d] = room[d])
  <2> DEFINE rr == [room[c] EXCEPT !.members = rest, !.sessions = q]
  <2>1. /\ rr \in RoomRecord /\ rr.members = rest /\ rr.sessions = q
        /\ rr.status = room[c].status
    BY <1>1, <1>2, <1>6 DEF RoomRecord
  <2>2. room' = [room EXCEPT ![c] = rr]
    BY <1>5
  <2>3. room \in [Code -> RoomRecord]
    BY DEF RoomInv, Typed
  <2> HIDE DEF rr
  <2> QED
    BY <2>1, <2>2, <2>3
<1>8. Sessions(c)' = ToSet(q) /\ Members(c)' = ToSet(rest)
  BY <1>7 DEF Sessions, Members
<1>9. \A h : h \in Members(c)' <=> h \in Members(c) /\ (h # p \/ stays)
  BY <1>3, <1>8 DEF rest, Members
<1>10. stays <=> \E o \in Sessions(c)' : Holder[o] = p
  BY <1>8 DEF StillHere
<1> HIDE DEF stays
<1>11. Seated(c)'
  <2>1. ASSUME NEW o \in Sessions(c)'
        PROVE  /\ sock'[o].code = c /\ sock'[o].phase \in {"live", "left", "shut"}
               /\ Holder[o] \in Members(c)'
    <3>1. o \in Sessions(c) /\ o # s /\ o \in Socket
      BY <1>2, <1>4, <1>8
    <3>2. sock'[o] = sock[o] /\ Holder[o] \in Members(c)
      BY <3>1 DEF RoomInv, Seated
    <3>3. Holder[o] # p \/ stays
      BY <1>10
    <3> QED
      BY <1>9, <3>1, <3>2, <3>3 DEF RoomInv, Seated
  <2>2. ASSUME NEW h \in Members(c)', h # Creator
        PROVE  \E o \in Sessions(c)' : Holder[o] = h
    <3>1. h \in Members(c) /\ (h # p \/ stays)
      BY <1>9
    <3>2. CASE h = p
      BY <1>10, <3>1, <3>2
    <3>3. CASE h # p
      <4>1. PICK o \in Sessions(c) : Holder[o] = h
        BY <2>2, <3>1 DEF RoomInv, Seated
      <4>2. o # s
        BY <3>3, <4>1
      <4> QED
        BY <1>2, <1>8, <4>1, <4>2
    <3> QED
      BY <3>2, <3>3
  <2> QED
    BY <1>2, <1>6, <1>7, <2>1, <2>2 DEF Seated
<1>12. m \in News
  BY <1>4 DEF News
<1> DEFINE heard == {o \in ToSet(q) : Holder[o] # p}
<1>13. /\ down' \in [Socket -> Seq(News)]
       /\ \A o \in Socket :
            down'[o] = IF ~stays /\ o \in heard /\ sock[o].phase = "live"
                       THEN Append(down[o], m) ELSE down[o]
  <2>1. CASE stays
    <3>1. down' = down
      BY <2>1 DEF ToldOfLeaving, stays
    <3> QED
      BY <2>1, <3>1 DEF RoomInv, Typed
  <2>2. CASE ~stays
    <3>1. down' = Told(heard, m)
      BY <2>2 DEF ToldOfLeaving, stays
    <3> HIDE DEF heard, m
    <3>2. /\ Told(heard, m) \in [Socket -> Seq(News)]
          /\ \A o \in Socket :
               Told(heard, m)[o] = IF o \in heard /\ sock[o].phase = "live" THEN Append(down[o], m)
                                   ELSE down[o]
      BY <1>12, ToldOne DEF RoomInv
    <3> QED
      BY <2>2, <3>1, <3>2
  <2> QED
    BY <2>1, <2>2
<1>14. ASSUME NEW o \in Sessions(c)', sock'[o].phase = "live", NEW h \in Known
       PROVE  WillSee(h, down'[o], sees'[o]) <=> h \in PeersOf(c, Holder[o])'
  <2>1. o \in Sessions(c) /\ o # s /\ o \in Socket
    BY <1>2, <1>4, <1>8
  <2>2. sock[o].phase = "live" /\ down[o] \in Seq(News)
    BY <1>14, <2>1 DEF RoomInv, Typed
  <2>3. WillSee(h, down[o], sees[o]) <=> h \in Members(c) \ {Holder[o]}
    BY <2>1, <2>2 DEF RoomInv, Informed, PeersOf
  <2>4. h \in PeersOf(c, Holder[o])' <=> h \in Members(c) \ {Holder[o]} /\ (h # p \/ stays)
    BY <1>9 DEF PeersOf
  <2>5. CASE stays
    <3>1. down'[o] = down[o]
      BY <1>13, <2>1, <2>5
    <3> QED
      BY <2>3, <2>4, <2>5, <3>1
  <2>6. CASE ~stays
    <3>1. Holder[o] # p
      BY <1>10, <2>6
    <3>2. down'[o] = Append(down[o], m)
      BY <1>8, <1>13, <2>1, <2>2, <2>6, <3>1
    <3>3. (Tells(m, h) <=> h = p) /\ p \notin After({}, m)
      BY DEF Tells, After
    <3> HIDE DEF m
    <3>4. WillSee(h, down'[o], sees[o]) <=> IF h = p THEN FALSE ELSE WillSee(h, down[o], sees[o])
      BY <1>12, <2>2, <3>2, <3>3, WillSeeSent
    <3> QED
      BY <2>3, <2>4, <2>6, <3>4
  <2> QED
    BY <2>5, <2>6
<1>15. Informed(c)'
  BY <1>14 DEF Informed
<1>16. \A o \in Socket \ {s} : o \in Sessions(c) => o \in Sessions(c)'
  BY <1>2, <1>8
<1>17. \A o \in Socket \ Sessions(c) : down'[o] = down[o]
  BY <1>2, <1>13
<1> QED
  BY <1>7, <1>11, <1>13, <1>15, <1>16, <1>17

\* Close.
LEMMA CloseInv ==
  ASSUME RoomInv, NEW s \in Socket, Close(s), sees' = sees
  PROVE  RoomInv'
<1>0. sock[s].code \in Code
  BY DEF Close, RoomInv, SocketOf
<1> SUFFICES ASSUME NEW c \in Code, c = sock[s].code
             PROVE  RoomInv'
  BY <1>0
<1> DEFINE p == Holder[s]
           attached == s \in Sessions(c)
           q == RemoveFirst(room[c].sessions, s)
           closed == IF attached THEN ClosedByLeaving(c, p, q) ELSE sock
<1>1. /\ sock[s].phase \in {"left", "shut"} /\ up[s] = <<>> /\ up' = up
      /\ room' = IF attached THEN WithoutPeer(c, p, q) ELSE room
      /\ down' = IF attached THEN ToldOfLeaving(c, p, q) ELSE down
      /\ sock' = [closed EXCEPT ![s].phase = "done"]
  BY DEF Close
<1>2. c \in Code
  OBVIOUS
<1> DEFINE gone == attached /\ Empties(c, p, q)
           shut == IF gone THEN SocketsOf(c) ELSE {}
<1>3. closed = Closing(shut)
  <2>1. CASE attached
    BY <2>1 DEF ClosedByLeaving
  <2>2. CASE ~attached
    <3>1. sock = Closing({})
      BY DEF Closing, RoomInv, Typed
    <3> QED
      BY <2>2, <3>1
  <2> QED
    BY <2>1, <2>2
<1> HIDE DEF closed
<1>4. /\ closed \in [Socket -> [phase : Phase, code : Code \cup {None}]]
      /\ \A o \in Socket : /\ closed[o].code = sock[o].code
                           /\ closed[o].phase = IF o \in shut /\ sock[o].phase = "live" THEN "shut"
                                                ELSE sock[o].phase
  BY <1>3, ClosingOne DEF RoomInv
<1>5. /\ sock' \in [Socket -> [phase : Phase, code : Code \cup {None}]]
      /\ sock'[s].phase = "done" /\ \A o \in Socket : sock'[o].code = sock[o].code
      /\ \A o \in Socket : o # s => sock'[o].phase = closed[o].phase /\ sock'[o] = closed[o]
  BY <1>1, <1>4 DEF Phase
<1>6. ASSUME \A o \in Socket \ {s}, d \in Code :
               room'[d].status = "open" /\ o \in Sessions(d) => o \in Sessions(d)'
      PROVE  \A o \in Socket : GoesOn(o)
  <2>1. ASSUME NEW o \in Socket
        PROVE  GoesOn(o)
    <3>1. CASE o = s
      BY <1>1, <1>5, <3>1 DEF GoesOn
    <3>2. CASE o # s
      BY <1>1, <1>4, <1>5, <1>6, <3>2 DEF GoesOn
    <3> QED
      BY <3>1, <3>2
  <2> QED
    BY <2>1
<1>7. CASE ~attached
  <2>1. room' = room /\ down' = down /\ shut = {}
    BY <1>1, <1>7
  <2>2. Typed'
    BY <1>1, <1>5, <2>1 DEF RoomInv, Typed
  <2>3. \A d \in Code : Ages(d) /\ Sessions(d)' = Sessions(d)
    BY <2>1 DEF Ages, Sessions
  <2>4. \A o \in Socket : GoesOn(o)
    BY <1>6, <2>3
  <2>5. ASSUME NEW d \in Code
        PROVE  Stays(d)
    <3>1. ASSUME NEW o \in Sessions(d)
          PROVE  /\ Uneventful(o) /\ sock'[o].code = sock[o].code
                 /\ sock'[o].phase \in {"live", "left", "shut"}
      <4>1. o \in Socket /\ sock[o].code = d /\ sock[o].phase \in {"live", "left", "shut"}
        BY SessionSockets DEF RoomInv, Seated
      <4>2. o # s
        BY <1>7, <3>1, <4>1
      <4>3. sock'[o].phase = sock[o].phase
        BY <1>4, <1>5, <2>1, <4>1, <4>2
      <4> QED
        BY <1>5, <2>1, <4>1, <4>3 DEF Uneventful
    <3> QED
      BY <2>1, <3>1 DEF Stays
  <2> QED
    BY <2>2, <2>3, <2>4, <2>5, StepInv
<1>8. CASE gone
  <2>1. room' = Destroyed(c) /\ down' = down
    BY <1>1, <1>8 DEF WithoutPeer, ToldOfLeaving
  <2>2. Typed'
    BY <1>1, <1>2, <1>5, <2>1, DestroyedOne DEF RoomInv, Typed
  <2>3. \A o \in Socket \ {s}, d \in Code :
          room'[d].status = "open" /\ o \in Sessions(d) => o \in Sessions(d)'
    BY <1>2, <2>1, DestroyedOne DEF RoomInv, Sessions
  <2>4. \A o \in Socket : GoesOn(o)
    BY <1>6, <2>3
  <2>5. ASSUME NEW o \in Socket, sock[o].code # c, sock[o].phase \in {"live", "left", "shut"}
        PROVE  /\ Uneventful(o) /\ sock'[o].code = sock[o].code
               /\ sock'[o].phase \in {"live", "left", "shut"}
    <3>1. o # s /\ o \notin shut
      BY <2>5 DEF SocketsOf
    <3>2. sock'[o].phase = sock[o].phase
      BY <1>4, <1>5, <3>1
    <3> QED
      BY <1>5, <2>1, <2>5, <3>2 DEF Uneventful
  <2> QED
    BY <1>2, <2>1, <2>2, <2>4, <2>5, GoneInv
<1>9. CASE attached /\ ~gone
  <2>1. /\ room' = WithoutPeer(c, p, q) /\ down' = ToldOfLeaving(c, p, q) /\ shut = {}
        /\ ~Empties(c, p, q)
    BY <1>1, <1>9
  <2>2. \A o \in Socket : o # s => sock'[o] = sock[o]
    <3>1. Closing({}) = sock
      BY DEF Closing, RoomInv, Typed
    <3> QED
      BY <1>3, <1>5, <2>1, <3>1
  <2> HIDE DEF q, p, shut, gone
  <2>3. /\ room' \in [Code -> RoomRecord] /\ down' \in [Socket -> Seq(News)]
        /\ Seated(c)' /\ Informed(c)'
        /\ \A d \in Code : room'[d].status = room[d].status
        /\ \A d \in Code : d # c => room'[d] = room[d]
        /\ \A o \in Socket \ {s} : o \in Sessions(c) => o \in Sessions(c)'
        /\ \A o \in Socket \ Sessions(c) : down'[o] = down[o]
    BY <1>2, <1>9, <2>1, <2>2, ClosedRoom DEF p, q
  <2>4. Typed'
    BY <1>1, <1>5, <2>3 DEF RoomInv, Typed
  <2>5. \A d \in Code : Ages(d)
    BY <2>3 DEF Ages
  <2>6. ASSUME NEW o \in Socket \ {s}, NEW d \in Code, o \in Sessions(d)
        PROVE  o \in Sessions(d)'
    <3>1. d # c => Sessions(d)' = Sessions(d)
      BY <2>3 DEF Sessions
    <3> QED
      BY <2>3, <2>6, <3>1
  <2>7. \A o \in Socket : GoesOn(o)
    BY <1>6, <2>6
  <2>8. \A o \in Socket : SocketOf(o)'
    BY <2>5, <2>7, SocketGoesOn DEF RoomInv
  <2>9. ASSUME NEW d \in Code, d # c
        PROVE  Stays(d)
    <3>1. ASSUME NEW o \in Sessions(d)
          PROVE  /\ Uneventful(o) /\ sock'[o].code = sock[o].code
                 /\ sock'[o].phase \in {"live", "left", "shut"}
      <4>1. o \in Socket /\ sock[o].code = d /\ sock[o].phase \in {"live", "left", "shut"}
        BY SessionSockets DEF RoomInv, Seated
      <4>2. o # s /\ o \notin Sessions(c)
        BY <2>9, <4>1 DEF RoomInv, Seated
      <4>3. sock'[o] = sock[o] /\ down'[o] = down[o]
        BY <2>2, <2>3, <4>1, <4>2
      <4> QED
        BY <4>1, <4>3 DEF Uneventful
    <3> QED
      BY <2>3, <2>9, <3>1 DEF Stays
  <2> QED
    BY <1>2, <2>3, <2>4, <2>5, <2>8, <2>9, OneRoomInv
<1> QED
  BY <1>7, <1>8, <1>9

\* Admit: the room that is joined.
LEMMA JoinedRoom ==
  ASSUME RoomInv, NEW c \in Code, NEW s \in Socket, c = sock[s].code,
         sock[s].phase \in {"opening", "aborted"}, Admit(s), sees' = sees
  PROVE  /\ Typed' /\ Seated(c)' /\ Informed(c)'
         /\ \A d \in Code : room'[d].status = room[d].status
         /\ \A d \in Code : d # c => room'[d] = room[d]
         /\ Sessions(c)' = Sessions(c) \cup {s}
         /\ sock'[s].phase \in {"live", "left"} /\ sock'[s].code = c
         /\ \A o \in Socket \ {s} : sock'[o] = sock[o] /\ (o \notin Sessions(c) => down'[o] = down[o])
<1> DEFINE p == Holder[s]
           joined == [t |-> "room-joined", peers |-> Members(c) \ {p}]
           m == [t |-> "peer-joined", peer |-> p]
           mine == IF sock[s].phase = "aborted" THEN <<>> ELSE <<joined>>
           in == IF sock[s].phase = "aborted" THEN "left" ELSE "live"
           ms == IF p \in Members(c) THEN room[c].members ELSE Append(room[c].members, p)
           q == Append(room[c].sessions, s)
           news == Told(Others(c, p), m)
<1>1. /\ room' = [room EXCEPT ![c].members = ms, ![c].sessions = q]
      /\ sock' = [sock EXCEPT ![s].phase = in]
      /\ down' = [news EXCEPT ![s] = mine] /\ up' = up
  BY DEF Admit
<1>2. /\ room[c] \in RoomRecord /\ room[c].sessions \in Seq(Socket)
      /\ room[c].members \in Seq(Known)
      /\ Distinct(room[c].sessions) /\ Distinct(room[c].members)
  BY DEF RoomInv, Typed, RoomRecord, Seated
<1>3. p \in Peer /\ p \in Known /\ Sessions(c) \subseteq Socket /\ Members(c) \subseteq Known
  BY SessionSockets DEF RoomInv, Peer, Known
<1>4. s \notin Sessions(c)
  BY DEF RoomInv, Seated
<1> HIDE DEF p
<1>5. q \in Seq(Socket) /\ Distinct(q) /\ ToSet(q) = Sessions(c) \cup {s}
  BY <1>2, <1>4, AppendOf DEF Sessions
<1>6. ms \in Seq(Known) /\ Distinct(ms) /\ ToSet(ms) = Members(c) \cup {p}
  <2>1. CASE p \in Members(c)
    <3>1. ms = room[c].members
      BY <2>1
    <3> QED
      BY <1>2, <2>1, <3>1 DEF Members
  <2>2. CASE p \notin Members(c)
    <3>1. ms = Append(room[c].members, p)
      BY <2>2
    <3> HIDE DEF ms
    <3> QED
      BY <1>2, <1>3, <2>2, <3>1, AppendOf DEF Members
  <2> QED
    BY <2>1, <2>2
<1> HIDE DEF ms, q
<1>7. /\ room' \in [Code -> RoomRecord]
      /\ room'[c].members = ms /\ room'[c].sessions = q
      /\ \A d \in Code : room'[d].status = room[d].status /\ (d # c => room'[d] = room[d])
  <2> DEFINE rr == [room[c] EXCEPT !.members = ms, !.sessions = q]
  <2>1. /\ rr \in RoomRecord /\ rr.members = ms /\ rr.sessions = q
        /\ rr.status = room[c].status
    BY <1>2, <1>5, <1>6 DEF RoomRecord
  <2>2. room' = [room EXCEPT ![c] = rr]
    BY <1>1
  <2>3. room \in [Code -> RoomRecord]
    BY DEF RoomInv, Typed
  <2> HIDE DEF rr
  <2> QED
    BY <2>1, <2>2, <2>3
<1>8. Sessions(c)' = Sessions(c) \cup {s} /\ Members(c)' = Members(c) \cup {p}
  BY <1>5, <1>6, <1>7 DEF Sessions, Members
<1>9. m \in News /\ joined \in News /\ mine \in Seq(News)
  <2>1. m \in News
    BY <1>3 DEF News
  <2>2. joined \in News
    BY <1>3 DEF News
  <2> HIDE DEF joined
  <2>3. <<>> \in Seq(News) /\ <<joined>> \in Seq(News)
    BY <2>2
  <2> QED
    BY <2>1, <2>2, <2>3
<1>10. /\ sock' \in [Socket -> [phase : Phase, code : Code \cup {None}]]
       /\ sock'[s].phase = in /\ sock'[s].code = c
       /\ \A o \in Socket : o # s => sock'[o] = sock[o]
  BY <1>1 DEF RoomInv, Typed, Phase
<1>11. /\ news \in [Socket -> Seq(News)]
       /\ \A o \in Socket : news[o] = IF o \in Others(c, p) /\ sock[o].phase = "live"
                                      THEN Append(down[o], m) ELSE down[o]
  BY <1>9, ToldOne DEF RoomInv
<1> HIDE DEF news, m, mine, joined
<1>12. /\ down' \in [Socket -> Seq(News)] /\ down'[s] = mine
       /\ \A o \in Socket : o # s => down'[o] = news[o]
  BY <1>1, <1>9, <1>11
<1>13. Typed'
  BY <1>1, <1>7, <1>10, <1>12 DEF RoomInv, Typed
<1>14. Seated(c)'
  <2>1. ASSUME NEW o \in Sessions(c)'
        PROVE  /\ sock'[o].code = c /\ sock'[o].phase \in {"live", "left", "shut"}
               /\ Holder[o] \in Members(c)'
    <3>1. CASE o = s
      BY <1>8, <1>10, <3>1 DEF p
    <3>2. CASE o # s
      <4>1. o \in Sessions(c) /\ o \in Socket
        BY <1>3, <1>8, <3>2
      <4> QED
        BY <1>8, <1>10, <3>2, <4>1 DEF RoomInv, Seated
    <3> QED
      BY <3>1, <3>2
  <2>2. ASSUME NEW h \in Members(c)', h # Creator
        PROVE  \E o \in Sessions(c)' : Holder[o] = h
    <3>1. CASE h = p
      BY <1>8, <3>1 DEF p
    <3>2. CASE h # p
      BY <1>8, <2>2, <3>2 DEF RoomInv, Seated
    <3> QED
      BY <3>1, <3>2
  <2> QED
    BY <1>5, <1>6, <1>7, <2>1, <2>2 DEF Seated
<1>15. ASSUME NEW o \in Sessions(c)', sock'[o].phase = "live", NEW h \in Known
       PROVE  WillSee(h, down'[o], sees'[o]) <=> h \in PeersOf(c, Holder[o])'
  <2>1. h \in PeersOf(c, Holder[o])' <=> (h \in Members(c) \/ h = p) /\ h # Holder[o]
    BY <1>8 DEF PeersOf
  <2>2. CASE o = s
    <3>1. mine = <<joined>>
      BY <1>10, <1>15, <2>2 DEF mine
    <3>2. mine = Append(<<>>, joined) /\ <<>> \in Seq(News)
      BY <3>1
    <3>3. Tells(joined, h) /\ After({}, joined) = Members(c) \ {p}
      BY DEF Tells, After, joined
    <3>4. WillSee(h, Append(<<>>, joined), sees[o]) <=> h \in Members(c) \ {p}
      BY <1>9, <3>2, <3>3, WillSeeSent
    <3> QED
      BY <1>12, <2>1, <2>2, <3>2, <3>4 DEF p
  <2>3. CASE o # s
    <3>1. /\ o \in Sessions(c) /\ o \in Socket /\ sock[o].phase = "live"
          /\ down[o] \in Seq(News) /\ Holder[o] \in Members(c)
      BY <1>3, <1>8, <1>10, <1>15, <2>3 DEF RoomInv, Typed, Seated
    <3>2. WillSee(h, down[o], sees[o]) <=> h \in Members(c) \ {Holder[o]}
      BY <3>1 DEF RoomInv, Informed, PeersOf
    <3>3. CASE Holder[o] = p
      <4>1. down'[o] = down[o]
        BY <1>11, <1>12, <2>3, <3>1, <3>3 DEF Others
      <4> QED
        BY <2>1, <3>1, <3>2, <3>3, <4>1
    <3>4. CASE Holder[o] # p
      <4>1. down'[o] = Append(down[o], m)
        BY <1>11, <1>12, <2>3, <3>1, <3>4 DEF Others
      <4>2. (Tells(m, h) <=> h = p) /\ p \in After({}, m)
        BY DEF Tells, After, m
      <4>3. WillSee(h, down'[o], sees[o]) <=> IF h = p THEN TRUE ELSE WillSee(h, down[o], sees[o])
        BY <1>9, <3>1, <4>1, <4>2, WillSeeSent
      <4> QED
        BY <2>1, <3>2, <3>4, <4>3
    <3> QED
      BY <3>3, <3>4
  <2> QED
    BY <2>2, <2>3
<1>16. Informed(c)'
  BY <1>15 DEF Informed
<1>17. \A o \in Socket \ {s} : o \notin Sessions(c) => down'[o] = down[o]
  BY <1>11, <1>12 DEF Others
<1> QED
  BY <1>7, <1>8, <1>10, <1>13, <1>14, <1>16, <1>17

\* Admit.
LEMMA AdmitInv ==
  ASSUME RoomInv, NEW s \in Socket, Admit(s), sees' = sees
  PROVE  RoomInv'
<1>0. sock[s].code \in Code /\ sock[s].phase \in {"opening", "aborted"}
  BY DEF Admit, RoomInv, SocketOf
<1> SUFFICES ASSUME NEW c \in Code, c = sock[s].code
             PROVE  RoomInv'
  BY <1>0
<1>1. /\ Typed' /\ Seated(c)' /\ Informed(c)'
      /\ \A d \in Code : room'[d].status = room[d].status
      /\ \A d \in Code : d # c => room'[d] = room[d]
      /\ Sessions(c)' = Sessions(c) \cup {s}
      /\ sock'[s].phase \in {"live", "left"} /\ sock'[s].code = c
      /\ \A o \in Socket \ {s} : sock'[o] = sock[o] /\ (o \notin Sessions(c) => down'[o] = down[o])
  BY <1>0, JoinedRoom
<1>2. room[c].status = "open" /\ up' = up /\ up[s] = <<>>
  BY <1>0 DEF Admit, RoomInv, SocketOf
<1>3. \A d \in Code : Ages(d) /\ (d # c => Sessions(d)' = Sessions(d))
  BY <1>1 DEF Ages, Sessions
<1>4. SocketOf(s)'
  <2>1. room'[c].status = "open" /\ s \in ToSet(room'[c].sessions)
    BY <1>1, <1>2 DEF Sessions
  <2> QED
    BY <1>1, <1>2, <2>1 DEF SocketOf, Sessions
<1>5. ASSUME NEW o \in Socket, o # s
      PROVE  SocketOf(o)'
  <2>1. \A d \in Code : o \in Sessions(d) => o \in Sessions(d)'
    BY <1>1, <1>3
  <2>2. GoesOn(o)
    BY <1>1, <1>2, <1>5, <2>1 DEF GoesOn
  <2> QED
    BY <1>3, <2>2, SocketGoesOn DEF RoomInv
<1>6. ASSUME NEW d \in Code, d # c
      PROVE  Stays(d)
  <2>1. ASSUME NEW o \in Sessions(d)
        PROVE  /\ Uneventful(o) /\ sock'[o].code = sock[o].code
               /\ sock'[o].phase \in {"live", "left", "shut"}
    <3>1. o \in Socket /\ sock[o].code = d /\ sock[o].phase \in {"live", "left", "shut"}
      BY SessionSockets DEF RoomInv, Seated
    <3>2. o # s /\ o \notin Sessions(c)
      BY <1>6, <3>1 DEF RoomInv, Seated
    <3>3. sock'[o] = sock[o] /\ down'[o] = down[o]
      BY <1>1, <3>1, <3>2
    <3> QED
      BY <3>1, <3>3 DEF Uneventful
  <2> QED
    BY <1>1, <1>6, <2>1 DEF Stays
<1> QED
  BY <1>1, <1>3, <1>4, <1>5, <1>6, OneRoomInv

-----------------------------------------------------------------------------
(***************************************************************************)
(* The invariants of the room.                                             *)
(***************************************************************************)
\* It holds at first.
LEMMA RoomInvInit == ClientsInit => RoomInv
<1> SUFFICES ASSUME ClientsInit
             PROVE  RoomInv
  OBVIOUS
<1>1. /\ room = [c \in Code |-> NoRoom] /\ sees = [s \in Socket |-> {}]
      /\ sock = [s \in Socket |-> [phase |-> "idle", code |-> None]]
      /\ up = [s \in Socket |-> <<>>] /\ down = [s \in Socket |-> <<>>]
  BY DEF ClientsInit, RoomInit
<1>2. NoRoom \in RoomRecord
  <2>1. <<>> \in Seq(Known) /\ {} \in SUBSET Rostered /\ <<>> \in Seq(Socket)
    OBVIOUS
  <2> QED
    BY <2>1 DEF NoRoom, RoomRecord, Status
<1>3. Typed
  <2>1. <<>> \in Seq(Word) /\ <<>> \in Seq(News)
    OBVIOUS
  <2> QED
    BY <1>1, <1>2, <2>1 DEF Typed, Phase
<1>4. \A s \in Socket : SocketOf(s)
  BY <1>1 DEF SocketOf
<1>5. ASSUME NEW c \in Code
      PROVE  Seated(c) /\ Informed(c)
  <2>1. room[c].sessions = <<>> /\ room[c].members = <<>>
    BY <1>1 DEF NoRoom
  <2>2. Sessions(c) = {} /\ Members(c) = {}
    BY <2>1 DEF Sessions, Members, ToSet
  <2> QED
    BY <2>1, <2>2 DEF Seated, Informed, Distinct
<1> QED
  BY <1>3, <1>4, <1>5 DEF RoomInv

\* Every step preserves the invariant.
LEMMA RoomInvNext == RoomInv /\ [ClientsNext]_clientVars => RoomInv'
<1> SUFFICES ASSUME RoomInv, [ClientsNext]_clientVars
             PROVE  RoomInv'
  OBVIOUS
<1>1. CASE \E c \in Code, roster \in {{}, Rostered} : Create(c, roster)
  BY <1>1, CreateInv
<1>2. CASE \E s \in Socket, c \in Code : Open(s, c)
  BY <1>2, OpenInv
<1>3. CASE \E s \in Socket : \E m \in Messages(s) : Say(s, m)
  BY <1>3, SayInv
<1>4. CASE \E s \in Socket : Leave(s) \/ LoseConnection(s) \/ Hear(s) \/ Handles(s)
  <2>1. ASSUME NEW s \in Socket, Handles(s)
        PROVE  RoomInv'
    <3>1. RoomStep(s) /\ sees' = sees
      BY <2>1 DEF Handles
    <3> QED
      BY <3>1, RefuseInv, AdmitInv, ServeInv, CloseInv DEF RoomStep
  <2> QED
    BY <1>4, <2>1, AwayInv, HearInv
<1>5. CASE \E c \in Code : Time(c)
  <2>1. ASSUME NEW c \in Code, Time(c)
        PROVE  RoomInv'
    <3>1. (Expire(c) \/ Alarm(c)) /\ sees' = sees
      BY <2>1 DEF Time
    <3> QED
      BY <3>1, ExpireInv, AlarmInv
  <2> QED
    BY <1>5, <2>1
<1>6. CASE UNCHANGED clientVars
  <2>1. room' = room /\ sock' = sock /\ up' = up /\ down' = down /\ sees' = sees
    BY <1>6 DEF clientVars, roomVars
  <2>2. Typed'
    BY <2>1 DEF RoomInv, Typed
  <2>3. Quiet
    BY <2>1 DEF Quiet, GoesOn, Uneventful, Sessions
  <2> QED
    BY <2>2, <2>3, QuietInv
<1> QED
  BY <1>1, <1>2, <1>3, <1>4, <1>5, <1>6 DEF ClientsNext

\* In every run a peer has a seat in a room if, and but for the creator only if, one of
\* its sockets is attached.
THEOREM SeatIffSocketHolds == ClientsSpec => []SeatIffSocket
<1>1. RoomInv => SeatIffSocket
  BY RoomInvMeans
<1> QED
  BY <1>1, RoomInvInit, RoomInvNext, PTL DEF ClientsSpec

\* In every run a client that has read what is under way to it knows exactly who else
\* is a member.
THEOREM PresenceAgreesHolds == ClientsSpec => []PresenceAgrees
<1>1. RoomInv => PresenceAgrees
  BY RoomInvMeans
<1> QED
  BY <1>1, RoomInvInit, RoomInvNext, PTL DEF ClientsSpec
=============================================================================
