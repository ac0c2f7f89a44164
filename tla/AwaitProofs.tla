---------------------------- MODULE AwaitProofs -----------------------------
(***************************************************************************)
(* Proofs about the two programs that go on after an await whatever has    *)
(* happened meanwhile: the page of the game, for any number of opponents   *)
(* and of page loads (the verdict shown is of the match shown, whoever     *)
(* waits waits for something, and no late answer takes a match off the     *)
(* screen); and the video tool, for videos of any length and any number of *)
(* runs (what is left running when a run is over, and what its exit code   *)
(* says of the frames and the MP4).                                        *)
(***************************************************************************)
EXTENDS Shell, RenderRun, TLAPS

-----------------------------------------------------------------------------
(***************************************************************************)
(* I. The page.                                                            *)
(***************************************************************************)
Field == {"screen", "net", "stage", "role", "ranked", "busy", "ready", "code", "bot",
          "match", "same", "result", "verdict", "engine", "phase", "paused"}

\* What the page waits for: the records of calls.
Searching(step) == [kind |-> "search", at |-> step]
Attempt(step, role, ranked) == [kind |-> "attempt", at |-> step, role |-> role, ranked |-> ranked]
Recording(net) == [kind |-> "record", net |-> net]
Asking(m) == [kind |-> "result", match |-> m, of |-> m]
Readied == [kind |-> "ready"]
Booting == [kind |-> "boot"]

-----------------------------------------------------------------------------
(***************************************************************************)
(* The inductive invariant, of a page p, what it waits for (C) and how     *)
(* many opponents there have been (n).                                     *)
(***************************************************************************)
\* Every answer that is waited for is one of these; a ranked attempt ends when it
\* has a transport, a record is asked for by a driver there has been, and a result
\* is asked for under the match it is sent for.
Awaited(c, n) ==
  \/ \E step \in {"profile", "join", "poll", "timer"} : c = Searching(step)
  \/ \E step \in {"room", "peer", "hooked"}, role \in {"host", "join"} :
       c = Attempt(step, role, FALSE)
  \/ \E step \in {"room", "peer"}, role \in {"host", "join"} : c = Attempt(step, role, TRUE)
  \/ \E net \in 1 .. n : c = Recording(net)
  \/ \E m : m # Absent /\ c = Asking(m)
  \/ c = Readied \/ c = Booting

Formed(p, C, n) ==
  /\ DOMAIN p = Field
  /\ p.net \in 0 .. n
  /\ p.net = Absent <=> p.stage = "none"
  /\ \A c \in C : Awaited(c, n)

\* A verdict is on the match of the page's record, a computer's match is the page's,
\* and the record a host waits for is for a match that has none.
Verdicts(p) ==
  /\ p.result \in {"confirmed", "disputed"} => p.verdict = p.match /\ p.match # Absent
  /\ p.bot # Absent => p.match = p.bot

Records(p, C) ==
  \A c \in C : c.kind = "record" /\ c.net = p.net => p.role = "host" /\ p.match = Absent

\* A page alone: without an opponent, and without the wish for one.
Unmet(p) ==
  p.net = Absent /\ p.stage = "none" /\ ~p.ranked /\ ~p.busy /\ ~p.ready

\* There is one attempt at a time.  A search has the page to itself, and a ranked
\* opponent is sought or here; who has searched for him is ready, or plays, under
\* a record.
Attempted(C) == \E c \in C : c.kind = "attempt"
Sought(C) == \E c \in C : c.kind = "attempt" /\ c.ranked
Searched(C) == \E c \in C : c.kind = "search"

Waits(p, C) ==
  /\ \A c, d \in C : c.kind = "attempt" /\ d.kind = "attempt" => c = d
  /\ p.screen = "search" => Searched(C) /\ p.net = Absent /\ ~p.ready /\ ~Attempted(C)
  /\ p.screen = "netready" => p.net # Absent
  /\ p.screen = "closed" => Unmet(p)

Ranked(p, C) ==
  /\ p.ranked => p.busy /\ (p.net # Absent \/ Sought(C))
  /\ p.ranked => \A c \in C : c.kind = "attempt" => c.ranked
  /\ Sought(C) => p.ranked /\ p.net = Absent /\ p.screen \in {"host", "join"}
  /\ p.ranked /\ (p.ready \/ p.stage = "playing") => p.match # Absent

\* On the screens of a match the engine is that of the driver, or else of the
\* computer's match; a match alone has no record.  A search starts without one, and
\* a ranked match has its own.
Pitch == {"match", "pause", "half", "full"}

Played(p) ==
  /\ p.screen \in Pitch /\ p.net # Absent => p.stage = "playing" /\ p.engine = p.net
  /\ p.screen \in Pitch /\ p.net = Absent =>
       IF p.bot # Absent THEN p.engine = p.bot ELSE p.match = Absent
  /\ p.screen = "search" => p.match = Absent
  /\ p.ranked => p.match \in {Absent, p.net}

PageInv(p, C, n) ==
  /\ Formed(p, C, n) /\ Verdicts(p) /\ Records(p, C) /\ Waits(p, C) /\ Ranked(p, C)
  /\ Played(p)

ShellInv == pairings \in Nat /\ PageInv(page, calls, pairings)

-----------------------------------------------------------------------------
(***************************************************************************)
(* What the helpers of Shell do to a page, and to what it waits for.       *)
(***************************************************************************)
\* The parts of a page the invariant is about, but for the screen.
Same(p, q) ==
  /\ q.net = p.net /\ q.stage = p.stage /\ q.role = p.role /\ q.ranked = p.ranked
  /\ q.busy = p.busy /\ q.ready = p.ready /\ q.bot = p.bot /\ q.match = p.match
  /\ q.result = p.result /\ q.verdict = p.verdict

\* To() changes the screen.
LEMMA ToFields ==
  ASSUME NEW p, DOMAIN p = Field, NEW s
  PROVE  /\ DOMAIN To(p, s) = Field
         /\ To(p, s).screen = s /\ Same(p, To(p, s)) /\ To(p, s).engine = p.engine
         /\ To(p, s).phase = p.phase /\ To(p, s).paused = p.paused
BY Zenon DEF To, Same, Field

\* What is not remembered is not in the invariant.
LEMMA ShownFields ==
  ASSUME NEW p, DOMAIN p = Field
  PROVE  /\ DOMAIN Shown(p) = Field
         /\ Shown(p).screen = p.screen /\ Same(p, Shown(p))
         /\ p.screen \in {"match", "pause", "half", "full"} => Shown(p) = p
<1> DEFINE q == [p EXCEPT !.engine = Absent, !.phase = "first", !.paused = FALSE]
<1>1. DOMAIN q = Field /\ q.screen = p.screen /\ Same(p, q)
  BY Zenon DEF Same, Field
<1>2. Same(p, p)
  BY DEF Same
<1>3. Shown(p) = p \/ Shown(p) = q
  BY DEF Shown
<1>4. p.screen \in {"match", "pause", "half", "full"} => Shown(p) = p
  BY DEF Shown
<1> HIDE DEF q
<1> QED
  BY <1>1, <1>2, <1>3, <1>4

\* closeNet() leaves the page alone; on the full-time screen with its verdict.
LEMMA ClosedFields ==
  ASSUME NEW p, DOMAIN p = Field
  PROVE  /\ DOMAIN Closed(p) = Field
         /\ Unmet(Closed(p)) /\ Closed(p).bot = Absent /\ Closed(p).screen = p.screen
         /\ \/ Closed(p).result = "idle"
            \/ /\ Closed(p).result = p.result /\ Closed(p).verdict = p.verdict
               /\ Closed(p).match = p.match
         /\ p.screen # "full" => Closed(p).match = Absent
         /\ p.match = Absent => Closed(p).match = Absent
<1> DEFINE q == [p EXCEPT !.net = Absent, !.stage = "none", !.role = "host", !.ranked = FALSE,
                   !.busy = FALSE, !.ready = FALSE, !.code = FALSE, !.bot = Absent]
           r == [q EXCEPT !.match = Absent, !.same = FALSE, !.result = "idle", !.verdict = Absent]
<1>1. DOMAIN q = Field /\ Unmet(q) /\ q.bot = Absent /\ q.screen = p.screen
      /\ q.result = p.result /\ q.verdict = p.verdict /\ q.match = p.match
  BY Zenon DEF Unmet, Field
<1>2. Closed(p) = IF p.screen = "full" THEN q ELSE r
  BY Zenon DEF Closed
<1> HIDE DEF q
<1>3. DOMAIN r = Field /\ Unmet(r) /\ r.bot = Absent /\ r.screen = q.screen /\ r.result = "idle"
      /\ r.match = Absent
  BY <1>1, Zenon DEF Unmet, Field
<1> HIDE DEF r
<1> QED
  BY <1>1, <1>2, <1>3

\* A page forgets its match and what came of it.
LEMMA ForgottenFields ==
  ASSUME NEW p, DOMAIN p = Field
  PROVE  /\ DOMAIN Forgotten(p) = Field
         /\ Unmet(p) => Unmet(Forgotten(p))
         /\ Forgotten(p).bot = p.bot /\ Forgotten(p).result = "idle"
         /\ Forgotten(p).screen = p.screen
BY Zenon DEF Forgotten, Unmet, Field

\* What the page waits for, by kind.
LEMMA SearchingFields ==
  ASSUME NEW step, NEW further
  PROVE  /\ Searching(step).kind = "search" /\ Searching(step).at = step
         /\ [Searching(step) EXCEPT !.at = further] = Searching(further)
BY DEF Searching

\* An attempt keeps its role and its rank.
LEMMA AttemptFields ==
  ASSUME NEW step, NEW role, NEW ranked
  PROVE  /\ Attempt(step, role, ranked).kind = "attempt" /\ Attempt(step, role, ranked).at = step
         /\ Attempt(step, role, ranked).role = role /\ Attempt(step, role, ranked).ranked = ranked
BY DEF Attempt

\* It is among what the page may wait for.
LEMMA AttemptAwaited ==
  ASSUME NEW step \in {"room", "peer"}, NEW role \in {"host", "join"}, NEW ranked \in BOOLEAN, NEW n
  PROVE  Awaited(Attempt(step, role, ranked), n)
<1>1. ranked = TRUE \/ ranked = FALSE
  OBVIOUS
<1> QED
  BY <1>1 DEF Awaited

\* ... when it goes on.
LEMMA AttemptFurther ==
  ASSUME NEW step, NEW role, NEW ranked, NEW further
  PROVE  [Attempt(step, role, ranked) EXCEPT !.at = further] = Attempt(further, role, ranked)
BY DEF Attempt

\* A record is asked for by one driver, a result under one match.
LEMMA AnswerFields ==
  ASSUME NEW x
  PROVE  /\ Recording(x).kind = "record" /\ Recording(x).net = x
         /\ Asking(x).kind = "result" /\ Asking(x).match = x /\ Asking(x).of = x
BY DEF Recording, Asking

\* The two timers.
LEMMA TimerFields == Readied.kind = "ready" /\ Booting.kind = "boot"
BY DEF Readied, Booting

\* What is waited for is known by its kind.
LEMMA AwaitedKinds ==
  ASSUME NEW c, NEW n, Awaited(c, n)
  PROVE  /\ c.kind \in {"search", "attempt", "record", "result", "ready", "boot"}
         /\ c.kind = "search" =>
              \E step \in {"profile", "join", "poll", "timer"} : c = Searching(step)
         /\ c.kind = "attempt" =>
              \E step \in {"room", "peer", "hooked"}, role \in {"host", "join"},
                 ranked \in BOOLEAN :
                c = Attempt(step, role, ranked) /\ (ranked => step # "hooked")
         /\ c.kind = "record" => c.net \in 1 .. n /\ c = Recording(c.net)
         /\ c.kind = "result" => c.of = c.match /\ c.match # Absent
<1>1. CASE \E step \in {"profile", "join", "poll", "timer"} : c = Searching(step)
  BY <1>1, SearchingFields
<1>2. CASE \E step \in {"room", "peer", "hooked"}, role \in {"host", "join"}, ranked \in BOOLEAN :
             c = Attempt(step, role, ranked) /\ (ranked => step # "hooked")
  <2>1. c.kind = "attempt"
    BY <1>2, AttemptFields
  <2> QED
    BY <1>2, <2>1
<1>3. CASE \E net \in 1 .. n : c = Recording(net)
  <2>1. PICK net \in 1 .. n : c = Recording(net)
    BY <1>3
  <2>2. c.kind = "record" /\ c.net = net
    BY <2>1, AnswerFields
  <2> QED
    BY <2>1, <2>2
<1>4. CASE \E m : m # Absent /\ c = Asking(m)
  <2>1. PICK m : m # Absent /\ c = Asking(m)
    BY <1>4
  <2>2. c.kind = "result" /\ c.match = m /\ c.of = m
    BY <2>1, AnswerFields
  <2> QED
    BY <2>1, <2>2
<1>5. CASE c = Readied \/ c = Booting
  BY <1>5, TimerFields
<1> QED
  BY <1>1, <1>2, <1>3, <1>4, <1>5 DEF Awaited

\* Of what is dropped nothing remains.
LEMMA DroppedKinds ==
  ASSUME NEW C
  PROVE  /\ Dropped(C) = {c \in C : c.kind \notin {"search", "attempt"}}
         /\ ~Attempted(Dropped(C)) /\ ~Attempted(Unjoined(C))
BY DEF Dropped, Unsearched, Unjoined, Attempted

-----------------------------------------------------------------------------
(***************************************************************************)
(* Pages that keep the invariant.                                          *)
(***************************************************************************)
\* A page alone, that waits for neither an opponent nor, but on its screen, a search.
LEMMA UnmetInv ==
  ASSUME NEW p, NEW C, NEW n \in Nat, DOMAIN p = Field, Unmet(p), Verdicts(p), Played(p),
         \A c \in C : Awaited(c, n), ~Attempted(C), p.screen # "netready",
         p.screen = "search" => Searched(C)
  PROVE  PageInv(p, C, n)
<1>1. ASSUME NEW c \in C, c.kind = "record"
      PROVE  c.net # p.net
  BY <1>1, AwaitedKinds DEF Unmet, Absent
<1> QED
  BY <1>1 DEF PageInv, Formed, Records, Waits, Ranked, Unmet, Attempted, Sought, Absent

\* Only the screen, what is not in the invariant, or nothing of a page changes.
LEMMA SameInv ==
  ASSUME NEW p, NEW q, NEW C, NEW n, PageInv(p, C, n), DOMAIN q = Field, Same(p, q),
         q.screen \in Pitch => p.screen \in Pitch /\ q.engine = p.engine,
         \/ q.screen = p.screen
         \/ q.screen \notin {"search", "netready", "closed"} /\ ~Sought(C)
  PROVE  PageInv(q, C, n)
<1>1. Formed(q, C, n) /\ Verdicts(q) /\ Records(q, C)
  BY DEF PageInv, Formed, Verdicts, Records, Same
<1>2. Waits(q, C) /\ Ranked(q, C)
  BY DEF PageInv, Waits, Ranked, Same, Unmet
<1>3. Played(q)
  BY DEF PageInv, Played, Same
<1> QED
  BY <1>1, <1>2, <1>3 DEF PageInv

\* What is not remembered does not matter.
LEMMA ShownInv ==
  ASSUME NEW p, NEW C, NEW n, PageInv(p, C, n)
  PROVE  PageInv(Shown(p), C, n)
BY ShownFields, SameInv DEF PageInv, Formed, Pitch

\* The page leaves whatever it is at, for a menu.
LEMMA ClosedInv ==
  ASSUME NEW p, NEW C, NEW n \in Nat, PageInv(p, C, n), NEW s, s \notin {"search", "netready"} \cup Pitch
  PROVE  PageInv(To(Closed(p), s), Dropped(C), n)
<1>1. /\ DOMAIN To(Closed(p), s) = Field /\ To(Closed(p), s).screen = s
      /\ Same(Closed(p), To(Closed(p), s))
  BY ClosedFields, ToFields DEF PageInv, Formed
<1>2. Unmet(To(Closed(p), s)) /\ Verdicts(To(Closed(p), s)) /\ Played(To(Closed(p), s))
  BY <1>1, ClosedFields DEF PageInv, Formed, Unmet, Verdicts, Played, Same
<1>3. \A c \in Dropped(C) : Awaited(c, n)
  BY DroppedKinds DEF PageInv, Formed
<1> QED
  BY <1>1, <1>2, <1>3, DroppedKinds, UnmetInv

\* It leaves and forgets.
LEMMA ForgottenInv ==
  ASSUME NEW p, NEW C, NEW n \in Nat, PageInv(p, C, n), NEW s, s \notin {"search", "netready"} \cup Pitch
  PROVE  PageInv(To(Forgotten(Closed(p)), s), Dropped(C), n)
<1> DEFINE q == Forgotten(Closed(p))
<1>1. DOMAIN Closed(p) = Field /\ Unmet(Closed(p)) /\ Closed(p).bot = Absent
  BY ClosedFields DEF PageInv, Formed
<1>2. DOMAIN q = Field /\ Unmet(q) /\ q.bot = Absent /\ q.result = "idle"
  BY <1>1, ForgottenFields
<1> HIDE DEF q
<1>3. DOMAIN To(q, s) = Field /\ To(q, s).screen = s /\ Same(q, To(q, s))
  BY <1>2, ToFields
<1>4. Unmet(To(q, s)) /\ Verdicts(To(q, s)) /\ Played(To(q, s))
  BY <1>2, <1>3 DEF Unmet, Verdicts, Played, Same
<1>5. \A c \in Dropped(C) : Awaited(c, n)
  BY DroppedKinds DEF PageInv, Formed
<1> QED
  BY <1>3, <1>4, <1>5, DroppedKinds, UnmetInv DEF q

\* cancelNet(), deadNet().
LEMMA LobbywardInv ==
  ASSUME NEW p, NEW C, NEW n \in Nat, PageInv(p, C, n)
  PROVE  PageInv(Lobbyward(p), Dropped(C), n)
BY ClosedInv DEF Lobbyward, Pitch

\* findCountryMatch() leaves the page alone, with its search.
LEMMA SearchInv ==
  ASSUME NEW p, NEW C, NEW n \in Nat, DOMAIN p = Field, Verdicts(p), p.screen # "full",
         \A c \in C : Awaited(c, n)
  PROVE  PageInv(To(Closed(p), "search"), SearchAfter(C), n)
<1>1. /\ DOMAIN To(Closed(p), "search") = Field /\ To(Closed(p), "search").screen = "search"
      /\ Same(Closed(p), To(Closed(p), "search"))
  BY ClosedFields, ToFields
<1>2. /\ Unmet(To(Closed(p), "search")) /\ Verdicts(To(Closed(p), "search"))
      /\ Played(To(Closed(p), "search"))
  BY <1>1, ClosedFields DEF Unmet, Verdicts, Played, Pitch, Same
<1>3. NewSearch = Searching("profile")
  BY DEF NewSearch, Searching
<1>4. \A c \in SearchAfter(C) : Awaited(c, n)
  BY <1>3, DroppedKinds DEF SearchAfter, Awaited
<1>5. ~Attempted(SearchAfter(C)) /\ Searched(SearchAfter(C))
  BY <1>3, DroppedKinds, SearchingFields DEF SearchAfter, Attempted, Searched
<1> QED
  BY <1>1, <1>2, <1>4, <1>5, UnmetInv

\* An answer comes that the page does not need to wait on, or a timer is set.
LEMMA FewerInv ==
  ASSUME NEW p, NEW C, NEW n, PageInv(p, C, n), NEW D \in SUBSET C,
         p.screen = "search" => Searched(D), Sought(C) => Sought(D)
  PROVE  PageInv(p, D, n)
<1>1. Sought(D) => Sought(C)
  BY DEF Sought
<1>2. Attempted(D) => Attempted(C)
  BY DEF Attempted
<1>3. Formed(p, D, n) /\ Records(p, D) /\ Waits(p, D)
  BY <1>2 DEF PageInv, Formed, Records, Waits
<1> QED
  BY <1>1, <1>3 DEF PageInv, Ranked

\* One thing more to wait for, but an attempt.
LEMMA MoreInv ==
  ASSUME NEW p, NEW C, NEW n, PageInv(p, C, n), NEW c, Awaited(c, n), c.kind # "attempt",
         c.kind = "record" /\ c.net = p.net => p.role = "host" /\ p.match = Absent
  PROVE  PageInv(p, C \cup {c}, n)
<1>1. Sought(C \cup {c}) <=> Sought(C)
  BY DEF Sought
<1>2. Attempted(C \cup {c}) <=> Attempted(C)
  BY DEF Attempted
<1>3. Searched(C) => Searched(C \cup {c})
  BY DEF Searched
<1>4. Formed(p, C \cup {c}, n) /\ Records(p, C \cup {c})
  BY DEF PageInv, Formed, Records
<1>5. Waits(p, C \cup {c})
  BY <1>2, <1>3 DEF PageInv, Waits
<1> QED
  BY <1>1, <1>4, <1>5 DEF PageInv, Ranked

\* The page a step leaves, with what it waits for, keeps the invariant.
LEMMA ShowKeeps ==
  ASSUME NEW p, NEW C, NEW n \in Nat, PageInv(p, C, n), Show(p, C), pairings' = n
  PROVE  ShellInv'
<1>1. page' = Shown(p) /\ calls' = C /\ PageInv(Shown(p), C, n)
  BY ShownInv DEF Show
<1> QED
  BY <1>1 DEF ShellInv

\* What is said of the result changes, to something that is no verdict, or to a
\* verdict on the page's match.
LEMMA ResultInv ==
  ASSUME NEW p, NEW C, NEW n, PageInv(p, C, n), NEW result, NEW verdict,
         result \in {"confirmed", "disputed"} => verdict = p.match /\ p.match # Absent
  PROVE  PageInv([p EXCEPT !.result = result, !.verdict = verdict], C, n)
<1> DEFINE q == [p EXCEPT !.result = result, !.verdict = verdict]
<1>1. DOMAIN q = Field /\ q.screen = p.screen /\ q.net = p.net /\ q.stage = p.stage
      /\ q.role = p.role /\ q.ranked = p.ranked /\ q.busy = p.busy /\ q.ready = p.ready
      /\ q.bot = p.bot /\ q.match = p.match /\ q.result = result /\ q.verdict = verdict
      /\ q.engine = p.engine
  BY Zenon DEF PageInv, Formed, Field
<1> HIDE DEF q
<1>2. Formed(q, C, n) /\ Records(q, C) /\ Verdicts(q)
  BY <1>1 DEF PageInv, Formed, Records, Verdicts
<1>3. Waits(q, C) /\ Ranked(q, C) /\ Played(q)
  BY <1>1 DEF PageInv, Waits, Ranked, Played, Unmet
<1> QED
  BY <1>2, <1>3 DEF PageInv, q

\* One opponent more changes nothing of what is waited for.
LEMMA AwaitedStill ==
  ASSUME NEW c, NEW n \in Nat, Awaited(c, n)
  PROVE  Awaited(c, n + 1)
<1>1. \A net \in 1 .. n : net \in 1 .. (n + 1)
  OBVIOUS
<1> QED
  BY <1>1 DEF Awaited

\* An attempt goes on: it is the only one, and stays what it is.
LEMMA AttemptInv ==
  ASSUME NEW p, NEW C, NEW n, PageInv(p, C, n), NEW c \in C, NEW d,
         c.kind = "attempt", d.kind = "attempt", d.ranked = c.ranked, Awaited(d, n)
  PROVE  PageInv(p, (C \ {c}) \cup {d}, n)
<1> DEFINE D == (C \ {c}) \cup {d}
<1>1. \A e \in C : e.kind = "attempt" => e = c
  BY DEF PageInv, Waits
<1>2. Sought(D) <=> Sought(C)
  BY <1>1 DEF Sought
<1>3. Attempted(C)
  BY DEF Attempted
<1>4. \A e, f \in D : e.kind = "attempt" /\ f.kind = "attempt" => e = f
  BY <1>1
<1>5. Formed(p, D, n) /\ Records(p, D)
  BY DEF PageInv, Formed, Records
<1> HIDE DEF D
<1>6. Waits(p, D)
  BY <1>3, <1>4 DEF PageInv, Waits
<1>7. p.ranked => \A e \in D : e.kind = "attempt" => e.ranked
  BY DEF PageInv, Ranked, D
<1> QED
  BY <1>2, <1>5, <1>6, <1>7 DEF PageInv, Ranked, D

\* An attempt begins, on a page where nobody is being met.
LEMMA AttemptingKeeps ==
  ASSUME NEW p, NEW C, NEW n \in Nat, PageInv(p, C, n), p.screen \notin {"search", "closed"},
         NEW role \in {"host", "join"}, Attempting(p, C, role), pairings' = n
  PROVE  ShellInv'
<1>1. CASE p.busy
  BY <1>1, ShowKeeps DEF Attempting
<1>2. CASE ~p.busy
  <2> DEFINE q == [p EXCEPT !.busy = TRUE]
             c == Attempt("room", role, FALSE)
             D == Unjoined(C) \cup {c}
  <2>1. DOMAIN q = Field /\ q.screen = p.screen /\ q.net = p.net /\ q.stage = p.stage
        /\ q.role = p.role /\ q.ranked = p.ranked /\ q.ready = p.ready /\ q.bot = p.bot
        /\ q.match = p.match /\ q.result = p.result /\ q.verdict = p.verdict
        /\ q.engine = p.engine
    BY Zenon DEF PageInv, Formed, Field
  <2>2. Show(q, D)
    BY <1>2 DEF Attempting, Attempt
  <2>3. c.kind = "attempt" /\ ~c.ranked /\ Awaited(c, n)
    <3>1. c.kind = "attempt" /\ c.ranked = FALSE
      BY DEF Attempt
    <3>2. Awaited(c, n)
      BY Zenon DEF Awaited
    <3> QED
      BY <3>1, <3>2
  <2> HIDE DEF q, c
  <2>4. ~p.ranked
    BY <1>2 DEF PageInv, Ranked
  <2>5. Formed(q, D, n) /\ Verdicts(q) /\ Records(q, D)
    BY <2>1, <2>3 DEF PageInv, Formed, Verdicts, Records, Unjoined
  <2>6. Waits(q, D)
    BY <2>1, <2>3 DEF PageInv, Waits, Unjoined
  <2>7. ~Sought(D)
    BY <2>3 DEF Sought, Unjoined
  <2>8. Ranked(q, D) /\ Played(q)
    BY <2>1, <2>4, <2>7 DEF PageInv, Ranked, Played
  <2> QED
    BY <2>2, <2>5, <2>6, <2>8, ShowKeeps DEF PageInv
<1> QED
  BY <1>1, <1>2

-----------------------------------------------------------------------------
(***************************************************************************)
(* Every handler keeps the invariant.                                      *)
(***************************************************************************)
\* launchBot() leaves the page alone, with the computer's match.
LEMMA BotLaunchedFields ==
  ASSUME NEW p, DOMAIN p = Field, NEW n
  PROVE  /\ DOMAIN BotLaunched(p, n) = Field /\ Unmet(BotLaunched(p, n))
         /\ BotLaunched(p, n).bot = n /\ BotLaunched(p, n).match = n
         /\ BotLaunched(p, n).result = "idle" /\ BotLaunched(p, n).screen = "match"
         /\ BotLaunched(p, n).engine = n
<1> DEFINE q == Closed(p)
           r == [q EXCEPT !.bot = n, !.match = n, !.same = FALSE, !.result = "idle",
                   !.verdict = Absent, !.engine = n, !.phase = "first", !.paused = FALSE,
                   !.screen = "match"]
<1>1. DOMAIN q = Field /\ Unmet(q)
  BY ClosedFields
<1>2. BotLaunched(p, n) = r
  BY Zenon DEF BotLaunched
<1> HIDE DEF q
<1>3. DOMAIN r = Field /\ Unmet(r) /\ r.bot = n /\ r.match = n /\ r.result = "idle"
      /\ r.screen = "match" /\ r.engine = n
  BY <1>1, Zenon DEF Unmet, Field
<1> QED
  BY <1>2, <1>3

\* launch() leaves it alone, and without a record.
LEMMA LaunchedInv ==
  ASSUME NEW p, NEW C, NEW n \in Nat, PageInv(p, C, n), p.screen # "full" \/ p.match = Absent
  PROVE  PageInv(Alone(p), Dropped(C), n)
<1> DEFINE q == Closed(p)
           r == [q EXCEPT !.engine = Solo, !.phase = "first", !.paused = FALSE, !.screen = "match"]
<1>1. DOMAIN q = Field /\ Unmet(q) /\ q.bot = Absent /\ q.match = Absent /\ Verdicts(q)
  BY ClosedFields DEF PageInv, Formed, Verdicts
<1>2. Alone(p) = r
  BY Zenon DEF Alone
<1> HIDE DEF q
<1>3. DOMAIN r = Field /\ Same(q, r) /\ r.screen = "match"
  BY <1>1, Zenon DEF Same, Field
<1> HIDE DEF r
<1>4. Unmet(r) /\ Verdicts(r) /\ Played(r)
  BY <1>1, <1>3 DEF Unmet, Verdicts, Played, Same
<1>5. \A c \in Dropped(C) : Awaited(c, n)
  BY DroppedKinds DEF PageInv, Formed
<1> QED
  BY <1>2, <1>3, <1>4, <1>5, DroppedKinds, UnmetInv

\* The search's screen is left: nobody is sought, and nobody is met.
LEMMA SearchLeftInv ==
  ASSUME NEW p, NEW C, NEW n \in Nat, PageInv(p, C, n), p.screen = "search",
         NEW D \in SUBSET C, NEW s, s \in {"title", "online"}
  PROVE  PageInv(To(p, s), D, n)
<1>1. p.net = Absent /\ ~p.ready /\ ~Attempted(C)
  BY DEF PageInv, Waits
<1>2. ~Sought(C) /\ ~Sought(D) /\ ~Attempted(D)
  BY <1>1 DEF Attempted, Sought
<1>3. ~p.ranked
  BY <1>1, <1>2 DEF PageInv, Ranked
<1>4. DOMAIN To(p, s) = Field /\ To(p, s).screen = s /\ Same(p, To(p, s))
  BY ToFields DEF PageInv, Formed
<1>5. Formed(To(p, s), D, n) /\ Verdicts(To(p, s)) /\ Records(To(p, s), D)
  BY <1>4 DEF PageInv, Formed, Verdicts, Records, Same
<1>6. Waits(To(p, s), D) /\ Ranked(To(p, s), D) /\ Played(To(p, s))
  BY <1>1, <1>2, <1>3, <1>4 DEF Waits, Ranked, Played, Pitch, Same, Attempted
<1> QED
  BY <1>5, <1>6 DEF PageInv

\* A search goes on.
LEMMA SearchOn ==
  ASSUME NEW p, NEW C, NEW n, PageInv(p, C, n), NEW c \in C, c.kind = "search",
         NEW step \in {"join", "poll", "timer"}
  PROVE  PageInv(p, (C \ {c}) \cup {Searching(step)}, n)
<1> DEFINE D == (C \ {c}) \cup {Searching(step)}
<1>1. Searching(step).kind = "search" /\ Awaited(Searching(step), n)
  BY SearchingFields DEF Awaited
<1>2. Searched(D) /\ (Sought(D) <=> Sought(C)) /\ (Attempted(D) <=> Attempted(C))
  BY <1>1 DEF Searched, Sought, Attempted
<1>3. Formed(p, D, n) /\ Records(p, D)
  BY <1>1 DEF PageInv, Formed, Records
<1>4. /\ \A e, f \in D : e.kind = "attempt" /\ f.kind = "attempt" => e = f
      /\ p.ranked => \A e \in D : e.kind = "attempt" => e.ranked
  BY <1>1 DEF PageInv, Waits, Ranked
<1> HIDE DEF D
<1>5. Waits(p, D) /\ Ranked(p, D)
  BY <1>2, <1>4 DEF PageInv, Waits, Ranked
<1> QED
  BY <1>3, <1>5 DEF PageInv, D

\* update(): the computer's match, a pair, a place in the queue, or none.
LEMMA QueueAnswersKeeps ==
  ASSUME ShellInv, NEW c \in calls, c.kind = "search", page.screen = "search",
         NEW reply \in {"bot", "pair", "queued", "fails"}, QueueAnswers(c, reply)
  PROVE  ShellInv'
<1> DEFINE n == pairings
           rest == calls \ {c}
<1>1. n \in Nat /\ PageInv(page, calls, n) /\ DOMAIN page = Field
      /\ \A e \in calls : Awaited(e, n)
  BY DEF ShellInv, PageInv, Formed
<1>2. page.net = Absent /\ ~page.ready /\ ~Attempted(calls)
  BY <1>1 DEF PageInv, Waits
<1>3. CASE reply = "bot"
  <2>1. Show(BotLaunched(page, n + 1), Dropped(rest)) /\ pairings' = n + 1
    BY <1>3 DEF QueueAnswers
  <2> DEFINE q == BotLaunched(page, n + 1)
  <2>2. DOMAIN q = Field /\ Unmet(q) /\ q.bot = n + 1 /\ q.match = n + 1 /\ q.result = "idle"
        /\ q.screen = "match" /\ q.engine = n + 1
    BY <1>1, BotLaunchedFields
  <2> HIDE DEF q
  <2>3. \A e \in Dropped(rest) : Awaited(e, n + 1)
    BY <1>1, DroppedKinds, AwaitedStill
  <2>4. n + 1 \in Nat /\ Verdicts(q) /\ Played(q)
    <3>1. n + 1 \in Nat /\ n + 1 # Absent
      BY <1>1 DEF Absent
    <3> QED
      BY <2>2, <3>1 DEF Verdicts, Played, Unmet
  <2>5. PageInv(q, Dropped(rest), n + 1)
    BY <2>2, <2>3, <2>4, DroppedKinds, UnmetInv
  <2> QED
    BY <2>1, <2>4, <2>5, ShowKeeps DEF q
<1>4. CASE reply = "pair"
  <2>1. PICK role \in {"host", "join"} :
          Show([page EXCEPT !.ranked = TRUE, !.screen = role, !.code = TRUE, !.busy = TRUE],
               Unjoined(rest) \cup {[kind |-> "attempt", at |-> "room", role |-> role,
                                     ranked |-> TRUE]})
    BY <1>4 DEF QueueAnswers
  <2> DEFINE q == [page EXCEPT !.ranked = TRUE, !.screen = role, !.code = TRUE, !.busy = TRUE]
             d == Attempt("room", role, TRUE)
             D == Unjoined(rest) \cup {d}
  <2>2. Show(q, D) /\ pairings' = n
    BY <1>4, <2>1 DEF QueueAnswers, Attempt
  <2>3. DOMAIN q = Field /\ q.screen = role /\ q.net = page.net /\ q.stage = page.stage
        /\ q.role = page.role /\ q.ranked /\ q.busy /\ q.ready = page.ready /\ q.bot = page.bot
        /\ q.match = page.match /\ q.result = page.result /\ q.verdict = page.verdict
    BY <1>1, Zenon DEF Field
  <2>4. d.kind = "attempt" /\ d.ranked /\ Awaited(d, n)
    <3>1. d.kind = "attempt" /\ d.ranked = TRUE
      BY DEF Attempt
    <3>2. Awaited(d, n)
      BY Zenon DEF Awaited
    <3> QED
      BY <3>1, <3>2
  <2> HIDE DEF q, d
  <2>5. Formed(q, D, n) /\ Verdicts(q) /\ Records(q, D)
    BY <1>1, <2>3, <2>4 DEF PageInv, Formed, Verdicts, Records, Unjoined
  <2>6. Waits(q, D)
    BY <2>3, <2>4 DEF Waits, Unjoined
  <2>7. Sought(D)
    BY <2>4 DEF Sought
  <2>8. page.stage = "none"
    BY <1>1, <1>2 DEF PageInv, Formed
  <2>9. \A e \in D : e.kind = "attempt" => e.ranked
    BY <2>4 DEF Unjoined
  <2>10. page.match = Absent
    BY <1>1 DEF PageInv, Played
  <2>11. Ranked(q, D) /\ Played(q)
    BY <1>2, <2>3, <2>7, <2>8, <2>9, <2>10 DEF Ranked, Played, Pitch
  <2> QED
    BY <1>1, <2>2, <2>5, <2>6, <2>11, ShowKeeps DEF PageInv
<1>5. CASE reply = "queued"
  <2>1. Show(page, rest \cup {[c EXCEPT !.at = "timer"]}) /\ pairings' = n
    BY <1>5 DEF QueueAnswers
  <2>2. PICK step : c = Searching(step)
    BY <1>1, AwaitedKinds
  <2>3. [c EXCEPT !.at = "timer"] = Searching("timer")
    BY <2>2, SearchingFields
  <2> QED
    BY <1>1, <2>1, <2>3, SearchOn, ShowKeeps
<1>6. CASE reply = "fails"
  <2>1. Show(To(page, "title"), Unsearched(rest)) /\ pairings' = n
    BY <1>6 DEF QueueAnswers
  <2>2. Unsearched(rest) \in SUBSET calls
    BY DEF Unsearched
  <2>3. PageInv(To(page, "title"), Unsearched(rest), n)
    BY <1>1, <2>2, SearchLeftInv
  <2> QED
    BY <1>1, <2>1, <2>3, ShowKeeps
<1> QED
  BY <1>3, <1>4, <1>5, <1>6

\* What ShellInv says of the page, and of every answer.
LEMMA ShellFacts ==
  ASSUME ShellInv
  PROVE  /\ pairings \in Nat /\ PageInv(page, calls, pairings) /\ DOMAIN page = Field
         /\ \A c \in calls : Awaited(c, pairings)
BY DEF ShellInv, PageInv, Formed

\* An answer the page does not need is dropped.
LEMMA AnswerDropped ==
  ASSUME ShellInv, NEW c \in calls, Show(page, calls \ {c}), UNCHANGED pairings,
         page.screen # "search" \/ c.kind # "search", c.kind = "attempt" => ~c.ranked
  PROVE  ShellInv'
<1>1. Sought(calls) => Sought(calls \ {c})
  BY DEF Sought
<1>2. page.screen = "search" => Searched(calls \ {c})
  BY ShellFacts DEF PageInv, Waits, Searched
<1>3. PageInv(page, calls \ {c}, pairings)
  BY <1>1, <1>2, ShellFacts, FewerInv
<1> QED
  BY <1>3, ShellFacts, ShowKeeps

\* The queue answers, or the timer runs out.
LEMMA SearchAnsweredKeeps ==
  ASSUME ShellInv, NEW c \in calls, SearchAnswered(c) \/ PollTimer(c)
  PROVE  ShellInv'
<1>1. c.kind = "search"
  BY DEF SearchAnswered, PollTimer
<1>2. PICK step : c = Searching(step)
  BY <1>1, ShellFacts, AwaitedKinds
<1>3. \A further : [c EXCEPT !.at = further] = Searching(further)
  BY <1>2, SearchingFields
<1>4. ASSUME NEW further \in {"join", "poll"},
             Show(page, (calls \ {c}) \cup {[c EXCEPT !.at = further]}), UNCHANGED pairings
      PROVE  ShellInv'
  <2>1. Show(page, (calls \ {c}) \cup {Searching(further)})
    BY <1>3, <1>4
  <2>2. PageInv(page, (calls \ {c}) \cup {Searching(further)}, pairings)
    BY <1>1, ShellFacts, SearchOn
  <2> QED
    BY <1>4, <2>1, <2>2, ShellFacts, ShowKeeps
<1>5. CASE PollTimer(c)
  BY <1>4, <1>5 DEF PollTimer
<1>6. CASE SearchAnswered(c)
  <2>1. CASE page.screen # "search"
    BY <1>1, <1>6, <2>1, AnswerDropped DEF SearchAnswered, Alive
  <2>2. CASE page.screen = "search"
    <3>1. \/ Show(page, (calls \ {c}) \cup {[c EXCEPT !.at = "join"]}) /\ UNCHANGED pairings
          \/ \E reply \in {"bot", "pair", "queued", "fails"} : QueueAnswers(c, reply)
      BY <1>6, <2>2 DEF SearchAnswered, Alive
    <3> QED
      BY <1>1, <1>4, <2>2, <3>1, QueueAnswersKeeps
  <2> QED
    BY <2>1, <2>2
<1> QED
  BY <1>5, <1>6

\* What an attempt is.
LEMMA AttemptIs ==
  ASSUME ShellInv, NEW c \in calls, c.kind = "attempt"
  PROVE  \E step \in {"room", "peer", "hooked"}, role \in {"host", "join"}, ranked \in BOOLEAN :
           c = Attempt(step, role, ranked)
<1>1. Awaited(c, pairings)
  BY ShellFacts
<1>2. \E step \in {"room", "peer", "hooked"}, role \in {"host", "join"}, ranked \in BOOLEAN :
        c = Attempt(step, role, ranked) /\ (ranked => step # "hooked")
  BY <1>1, AwaitedKinds
<1> QED
  BY <1>2, Zenon

\* An attempt that is wanted: a ranked one, or on its own screen.
LEMMA WantedFacts ==
  ASSUME ShellInv, NEW c \in calls, c.kind = "attempt"
  PROVE  /\ c.role \in {"host", "join"}
         /\ c.ranked => page.ranked /\ page.net = Absent /\ page.screen \in {"host", "join"}
         /\ Wanted(c) => page.screen \in {"host", "join"}
<1>1. PICK step \in {"room", "peer", "hooked"}, role \in {"host", "join"}, ranked \in BOOLEAN :
           c = Attempt(step, role, ranked)
  BY AttemptIs
<1>2. c.role \in {"host", "join"}
  BY <1>1, AttemptFields
<1>3. c.ranked => Sought(calls)
  BY DEF Sought
<1>4. c.ranked => page.ranked /\ page.net = Absent /\ page.screen \in {"host", "join"}
  BY <1>3, ShellFacts DEF PageInv, Ranked
<1> QED
  BY <1>2, <1>4 DEF Wanted

\* The room is there.
LEMMA RoomAnsweredKeeps ==
  ASSUME ShellInv, NEW c \in calls, RoomAnswered(c)
  PROVE  ShellInv'
<1>1. c.kind = "attempt" /\ UNCHANGED pairings
  BY DEF RoomAnswered
<1>2. CASE ~Wanted(c)
  BY <1>1, <1>2, AnswerDropped DEF RoomAnswered, Wanted
<1>3. CASE Wanted(c)
  <2> DEFINE q == [page EXCEPT !.code = TRUE]
             d == [c EXCEPT !.at = "peer"]
  <2>1. Show(q, (calls \ {c}) \cup {d})
    BY <1>3 DEF RoomAnswered
  <2>2. PICK step \in {"room", "peer", "hooked"}, role \in {"host", "join"}, ranked \in BOOLEAN :
           c = Attempt(step, role, ranked)
    BY <1>1, AttemptIs
  <2>3. d = Attempt("peer", role, ranked)
    BY <2>2, AttemptFurther
  <2>4. d.kind = "attempt" /\ d.ranked = c.ranked /\ Awaited(d, pairings)
    BY <2>2, <2>3, AttemptFields, AttemptAwaited
  <2>5. DOMAIN q = Field /\ q.screen = page.screen /\ q.engine = page.engine /\ Same(page, q)
    BY ShellFacts, Zenon DEF Same, Field
  <2> HIDE DEF q, d
  <2>6. PageInv(q, calls, pairings)
    BY <2>5, ShellFacts, SameInv
  <2>7. PageInv(q, (calls \ {c}) \cup {d}, pairings)
    BY <1>1, <2>4, <2>6, AttemptInv
  <2> QED
    BY <1>1, <2>1, <2>7, ShellFacts, ShowKeeps
<1> QED
  BY <1>2, <1>3

\* A transport is there, and a new driver with it.
LEMMA PeerAnsweredKeeps ==
  ASSUME ShellInv, NEW c \in calls, PeerAnswered(c)
  PROVE  ShellInv'
<1>1. c.kind = "attempt"
  BY DEF PeerAnswered
<1>2. CASE ~Wanted(c)
  BY <1>1, <1>2, AnswerDropped DEF PeerAnswered, Wanted
<1>3. CASE Wanted(c)
  <2> DEFINE n == pairings + 1
             q == [page EXCEPT !.net = n, !.stage = "handshake", !.role = c.role]
             D == (calls \ {c}) \cup IF c.ranked THEN {} ELSE {[c EXCEPT !.at = "hooked"]}
  <2>1. Show(q, D) /\ pairings' = n
    BY <1>3 DEF PeerAnswered
  <2>2. PICK step \in {"room", "peer", "hooked"}, role \in {"host", "join"}, ranked \in BOOLEAN :
           c = Attempt(step, role, ranked)
    BY <1>1, AttemptIs
  <2>3. \A e \in D : \/ e \in calls \ {c}
                     \/ e = Attempt("hooked", role, ranked) /\ ~c.ranked
    BY <2>2, AttemptFurther
  <2>4. Attempt("hooked", role, ranked).kind = "attempt" /\ ranked = c.ranked
        /\ Attempt("hooked", role, ranked).ranked = ranked
    BY <2>2, AttemptFields
  <2>5. n \in Nat /\ n # Absent /\ page.net \in 0 .. pairings
    BY ShellFacts DEF PageInv, Formed, Absent
  <2>6. DOMAIN q = Field /\ q.screen = page.screen /\ q.net = n /\ q.stage = "handshake"
        /\ q.ranked = page.ranked /\ q.busy = page.busy /\ q.ready = page.ready
        /\ q.bot = page.bot /\ q.match = page.match /\ q.result = page.result
        /\ q.verdict = page.verdict
    BY ShellFacts, Zenon DEF Field
  <2> HIDE DEF q, D
  <2>7. \A e \in D : Awaited(e, n)
    <3>1. \A e \in calls : Awaited(e, n)
      BY ShellFacts, AwaitedStill
    <3>2. ~c.ranked => Awaited(Attempt("hooked", role, ranked), n)
      <4>1. ~c.ranked => ranked = FALSE
        BY <2>4
      <4> QED
        BY <4>1 DEF Awaited
    <3> QED
      BY <2>3, <3>1, <3>2
  <2>8. Formed(q, D, n)
    BY <2>5, <2>6, <2>7 DEF Formed
  <2>9. Records(q, D)
    <3>1. ASSUME NEW e \in D, e.kind = "record"
          PROVE  e.net # n
      <4>1. e \in calls
        BY <2>3, <2>4, <3>1
      <4>2. e.net \in 1 .. pairings
        BY <3>1, <4>1, ShellFacts, AwaitedKinds
      <4> QED
        BY <4>2, ShellFacts
    <3> QED
      BY <2>6, <3>1 DEF Records
  <2>10. page.screen \in {"host", "join"}
    BY <1>1, <1>3, WantedFacts
  <2>11. \A e, f \in D : e.kind = "attempt" /\ f.kind = "attempt" => e = f
    <3>1. \A e \in calls : e.kind = "attempt" => e = c
      BY <1>1, ShellFacts DEF PageInv, Waits
    <3> QED
      BY <2>3, <3>1
  <2>12. Waits(q, D)
    BY <2>5, <2>6, <2>10, <2>11 DEF Waits
  <2>13. ~Sought(D)
    <3>1. \A e \in calls : e.kind = "attempt" => e = c
      BY <1>1, ShellFacts DEF PageInv, Waits
    <3> QED
      BY <2>3, <2>4, <3>1 DEF Sought
  <2>14. Ranked(q, D) /\ Played(q)
    <3>1. page.ranked => page.busy /\ c.ranked
      BY <1>1, ShellFacts DEF PageInv, Ranked
    <3>2. page.ranked /\ page.ready => page.match # Absent
      BY ShellFacts DEF PageInv, Ranked
    <3>3. page.ranked => page.match = Absent
      BY <1>1, <3>1, WantedFacts, ShellFacts DEF PageInv, Played
    <3>4. page.ranked => \A e \in D : e.kind = "attempt" => e.ranked
      BY <2>3, <3>1, ShellFacts DEF PageInv, Ranked
    <3> QED
      BY <2>5, <2>6, <2>10, <2>13, <3>1, <3>2, <3>3, <3>4 DEF Ranked, Played, Pitch
  <2>15. Verdicts(q)
    BY <2>6, ShellFacts DEF PageInv, Verdicts
  <2> QED
    BY <2>1, <2>5, <2>8, <2>9, <2>12, <2>14, <2>15, ShowKeeps DEF PageInv
<1> QED
  BY <1>2, <1>3

\* The way to the opponent fails.
LEMMA AttemptFailsKeeps ==
  ASSUME ShellInv, NEW c \in calls, AttemptFails(c)
  PROVE  ShellInv'
<1>1. c.kind = "attempt" /\ UNCHANGED pairings
  BY DEF AttemptFails
<1>2. CASE ~Wanted(c)
  BY <1>1, <1>2, AnswerDropped DEF AttemptFails, Wanted
<1>3. CASE Wanted(c)
  <2>1. Show(Lobbyward(page), Dropped(calls \ {c}))
    BY <1>3 DEF AttemptFails
  <2>2. Dropped(calls \ {c}) = Dropped(calls)
    BY <1>1, DroppedKinds
  <2>3. PageInv(Lobbyward(page), Dropped(calls), pairings)
    BY ShellFacts, LobbywardInv
  <2> QED
    BY <1>1, <2>1, <2>2, <2>3, ShellFacts, ShowKeeps
<1> QED
  BY <1>2, <1>3

\* The league's record comes: the page has a match, and no verdict on it.
LEMMA RecordedFields ==
  ASSUME NEW p, DOMAIN p = Field, NEW same
  PROVE  /\ DOMAIN Recorded(p, same) = Field
         /\ Recorded(p, same).match = p.net
         /\ Recorded(p, same).result \in {"friendly", "idle"}
         /\ Recorded(p, same).screen = p.screen /\ Recorded(p, same).net = p.net
         /\ Recorded(p, same).stage = p.stage /\ Recorded(p, same).role = p.role
         /\ Recorded(p, same).ranked = p.ranked /\ Recorded(p, same).busy = p.busy
         /\ Recorded(p, same).ready = p.ready /\ Recorded(p, same).bot = p.bot
         /\ Recorded(p, same).engine = p.engine
<1>1. CASE same
  BY <1>1, Zenon DEF Recorded, Field
<1>2. CASE ~same
  BY <1>2, Zenon DEF Recorded, Field
<1> QED
  BY <1>1, <1>2

\* autoReadyRanked() sets its timer at most.
LEMMA ReadyingInv ==
  ASSUME NEW p, NEW C, NEW n, PageInv(p, C, n)
  PROVE  PageInv(p, Readying(p, C), n)
<1>1. Awaited(Readied, n) /\ Readied.kind = "ready"
  BY TimerFields DEF Awaited
<1>2. PageInv(p, C \cup {Readied}, n)
  BY <1>1, MoreInv
<1>3. Readying(p, C) = C \/ Readying(p, C) = C \cup {Readied}
  BY DEF Readying, Readied
<1> QED
  BY <1>2, <1>3

\* A page that has a driver and no match, of the host or of a guest to whom no
\* record is on its way, gets its record.
LEMMA RecordedInv ==
  ASSUME NEW p, NEW C, NEW n, PageInv(p, C, n), p.net # Absent, p.match = Absent,
         \A c \in C : c.kind = "record" => c.net # p.net, NEW same
  PROVE  PageInv(Recorded(p, same), C, n)
<1> DEFINE q == Recorded(p, same)
<1>1. DOMAIN p = Field
  BY DEF PageInv, Formed
<1>2. /\ DOMAIN q = Field /\ q.match = p.net /\ q.result \in {"friendly", "idle"}
      /\ q.screen = p.screen /\ q.net = p.net /\ q.stage = p.stage /\ q.role = p.role
      /\ q.ranked = p.ranked /\ q.busy = p.busy /\ q.ready = p.ready /\ q.bot = p.bot
      /\ q.engine = p.engine
  BY <1>1, RecordedFields
<1> HIDE DEF q
<1>3. Formed(q, C, n) /\ Waits(q, C) /\ Records(q, C)
  BY <1>2 DEF PageInv, Formed, Waits, Records, Unmet
<1>4. Verdicts(q) /\ Ranked(q, C) /\ Played(q)
  BY <1>2 DEF PageInv, Verdicts, Ranked, Waits, Played
<1> QED
  BY <1>3, <1>4 DEF PageInv, q

\* The host's record comes, or is refused.
LEMMA RecordAnsweredKeeps ==
  ASSUME ShellInv, NEW c \in calls, RecordAnswered(c)
  PROVE  ShellInv'
<1> DEFINE rest == calls \ {c}
<1>1. c.kind = "record" /\ UNCHANGED pairings /\ c.net \in 1 .. pairings /\ c = Recording(c.net)
  <2>1. c.kind = "record" /\ UNCHANGED pairings
    BY DEF RecordAnswered
  <2> QED
    BY <2>1, ShellFacts, AwaitedKinds
<1>2. PageInv(page, rest, pairings)
  <2>1. (Sought(calls) => Sought(rest)) /\ (Searched(calls) => Searched(rest))
    BY <1>1 DEF Sought, Searched
  <2>2. page.screen = "search" => Searched(rest)
    BY <2>1, ShellFacts DEF PageInv, Waits
  <2> QED
    BY <2>1, <2>2, ShellFacts, FewerInv
<1>3. CASE page.net # c.net /\ Show(page, rest)
  BY <1>1, <1>2, <1>3, ShellFacts, ShowKeeps
<1>4. CASE page.net = c.net
  <2>1. page.net # Absent /\ page.match = Absent
    BY <1>1, <1>4, ShellFacts DEF PageInv, Records, Absent
  <2>2. \A e \in rest : e.kind = "record" => e.net # page.net
    <3>1. ASSUME NEW e \in rest, e.kind = "record", e.net = page.net
          PROVE  FALSE
      <4>1. e = Recording(e.net)
        BY <3>1, ShellFacts, AwaitedKinds
      <4> QED
        BY <1>1, <1>4, <3>1, <4>1
    <3> QED
      BY <3>1
  <2>3. ASSUME NEW same, Show(Recorded(page, same), Readying(Recorded(page, same), rest))
        PROVE  ShellInv'
    <3>1. PageInv(Recorded(page, same), rest, pairings)
      BY <1>2, <2>1, <2>2, RecordedInv
    <3>2. PageInv(Recorded(page, same), Readying(Recorded(page, same), rest), pairings)
      BY <3>1, ReadyingInv
    <3> QED
      BY <1>1, <2>3, <3>2, ShellFacts, ShowKeeps
  <2>4. CASE Show(Lobbyward(page), Dropped(rest))
    BY <1>1, <1>2, <2>4, ShellFacts, LobbywardInv, ShowKeeps
  <2>5. CASE Show([page EXCEPT !.result = "friendly", !.verdict = Absent], rest)
    <3>1. PageInv([page EXCEPT !.result = "friendly", !.verdict = Absent], rest, pairings)
      BY <1>2, ResultInv
    <3> QED
      BY <1>1, <2>5, <3>1, ShellFacts, ShowKeeps
  <2> QED
    BY <1>4, <2>3, <2>4, <2>5 DEF RecordAnswered
<1> QED
  BY <1>3, <1>4 DEF RecordAnswered

\* doReady(), of a ranked page with its record only.
LEMMA MadeReadyInv ==
  ASSUME NEW p, NEW C, NEW n, PageInv(p, C, n), p.screen # "search"
  PROVE  PageInv(MadeReady(p), C, n)
<1>1. CASE (p.ranked /\ p.match = Absent) \/ p.net = Absent \/ p.ready
  BY <1>1 DEF MadeReady
<1>2. CASE ~((p.ranked /\ p.match = Absent) \/ p.net = Absent \/ p.ready)
  <2> DEFINE q == [p EXCEPT !.ready = TRUE]
  <2>1. DOMAIN q = Field /\ q.screen = p.screen /\ q.net = p.net /\ q.stage = p.stage
        /\ q.role = p.role /\ q.ranked = p.ranked /\ q.busy = p.busy /\ q.bot = p.bot
        /\ q.match = p.match /\ q.result = p.result /\ q.verdict = p.verdict
        /\ q.engine = p.engine
    BY Zenon DEF PageInv, Formed, Field
  <2>2. MadeReady(p) = q
    BY <1>2 DEF MadeReady
  <2> HIDE DEF q
  <2>3. Formed(q, C, n) /\ Verdicts(q) /\ Records(q, C)
    BY <2>1 DEF PageInv, Formed, Verdicts, Records
  <2>4. Waits(q, C) /\ Ranked(q, C) /\ Played(q)
    BY <1>2, <2>1 DEF PageInv, Waits, Ranked, Played, Unmet
  <2> QED
    BY <2>2, <2>3, <2>4 DEF PageInv
<1> QED
  BY <1>1, <1>2

\* The timer of a ranked page runs out.
LEMMA AutoReadyKeeps ==
  ASSUME ShellInv, NEW c \in calls, AutoReady(c)
  PROVE  ShellInv'
<1>1. c.kind = "ready" /\ UNCHANGED pairings
  BY DEF AutoReady
<1>2. CASE Show(page, calls \ {c})
  BY <1>1, <1>2, AnswerDropped
<1>3. CASE page.screen = "netready" /\ Show(MadeReady(page), calls \ {c})
  <2>1. Sought(calls) => Sought(calls \ {c})
    BY <1>1 DEF Sought
  <2>2. PageInv(page, calls \ {c}, pairings)
    BY <1>3, <2>1, ShellFacts, FewerInv
  <2>3. PageInv(MadeReady(page), calls \ {c}, pairings)
    BY <1>3, <2>2, MadeReadyInv
  <2> QED
    BY <1>1, <1>3, <2>3, ShellFacts, ShowKeeps
<1> QED
  BY <1>2, <1>3 DEF AutoReady

\* The league answers what has become of the result: it is shown if it is of the
\* match the page has.
LEMMA ResultAnsweredKeeps ==
  ASSUME ShellInv, NEW c \in calls, ResultAnswered(c)
  PROVE  ShellInv'
<1> DEFINE rest == calls \ {c}
<1>1. c.kind = "result" /\ UNCHANGED pairings /\ c.of = c.match /\ c.match # Absent
  <2>1. c.kind = "result" /\ UNCHANGED pairings
    BY DEF ResultAnswered
  <2> QED
    BY <2>1, ShellFacts, AwaitedKinds
<1>2. PageInv(page, rest, pairings)
  <2>1. (Sought(calls) => Sought(rest)) /\ (Searched(calls) => Searched(rest))
    BY <1>1 DEF Sought, Searched
  <2>2. page.screen = "search" => Searched(rest)
    BY <2>1, ShellFacts DEF PageInv, Waits
  <2> QED
    BY <2>1, <2>2, ShellFacts, FewerInv
<1>3. CASE Show(page, calls) \/ Show(page, rest)
  BY <1>1, <1>2, <1>3, ShellFacts, ShowKeeps
<1>4. ASSUME NEW result, NEW verdict,
             result \in {"confirmed", "disputed"} => verdict = page.match /\ page.match # Absent,
             Show([page EXCEPT !.result = result, !.verdict = verdict], rest)
      PROVE  ShellInv'
  <2>1. PageInv([page EXCEPT !.result = result, !.verdict = verdict], rest, pairings)
    BY <1>2, <1>4, ResultInv
  <2> QED
    BY <1>1, <1>4, <2>1, ShellFacts, ShowKeeps
<1>5. CASE \E s \in {"confirmed", "disputed", "confirming"} :
             Show(IF OfThisMatch(c) THEN [page EXCEPT !.result = s,
                                            !.verdict = IF s = "confirming" THEN Absent ELSE c.of]
                  ELSE page, rest)
  <2>1. PICK s \in {"confirmed", "disputed", "confirming"} :
          Show(IF OfThisMatch(c) THEN [page EXCEPT !.result = s,
                                         !.verdict = IF s = "confirming" THEN Absent ELSE c.of]
               ELSE page, rest)
    BY <1>5
  <2>2. CASE ~OfThisMatch(c)
    BY <1>3, <2>1, <2>2
  <2>3. CASE OfThisMatch(c)
    <3> DEFINE v == IF s = "confirming" THEN Absent ELSE c.of
    <3>1. s \in {"confirmed", "disputed"} => v = page.match /\ page.match # Absent
      BY <1>1, <2>3 DEF OfThisMatch
    <3>2. Show([page EXCEPT !.result = s, !.verdict = v], rest)
      BY <2>1, <2>3
    <3> HIDE DEF v
    <3> QED
      BY <1>4, <3>1, <3>2
  <2> QED
    BY <2>2, <2>3
<1>6. CASE Show([page EXCEPT !.result = "error", !.verdict = Absent], rest)
  <2>1. "error" \notin {"confirmed", "disputed"}
    OBVIOUS
  <2> QED
    BY <1>4, <1>6, <2>1
<1> QED
  BY <1>3, <1>5, <1>6 DEF ResultAnswered

\* The invite is followed, 50 ms after the page was loaded.
LEMMA BootJoinKeeps ==
  ASSUME ShellInv, NEW c \in calls, BootJoin(c)
  PROVE  ShellInv'
<1>1. c.kind = "boot" /\ UNCHANGED pairings
  BY DEF BootJoin
<1>2. CASE Show(page, calls \ {c})
  BY <1>1, <1>2, AnswerDropped
<1>3. CASE page.screen = "title" /\ Attempting(To(page, "join"), calls \ {c}, "join")
  <2>1. ~Sought(calls) /\ ~Sought(calls \ {c})
    BY <1>3, ShellFacts DEF PageInv, Ranked, Sought
  <2>2. PageInv(page, calls \ {c}, pairings)
    BY <1>3, <2>1, ShellFacts, FewerInv
  <2>3. To(page, "join").screen = "join" /\ DOMAIN To(page, "join") = Field
        /\ Same(page, To(page, "join"))
    BY ShellFacts, ToFields
  <2>4. PageInv(To(page, "join"), calls \ {c}, pairings)
    BY <2>1, <2>2, <2>3, SameInv DEF Pitch
  <2> QED
    BY <1>1, <1>3, <2>3, <2>4, ShellFacts, AttemptingKeeps
<1> QED
  BY <1>2, <1>3 DEF BootJoin

\* Whatever is answered.
LEMMA AnswerKeeps ==
  ASSUME ShellInv, NEW c \in calls, Answer(c)
  PROVE  ShellInv'
BY SearchAnsweredKeeps, RoomAnsweredKeeps, PeerAnsweredKeeps, AttemptFailsKeeps,
  RecordAnsweredKeeps, AutoReadyKeeps, ResultAnsweredKeeps, BootJoinKeeps DEF Answer

-----------------------------------------------------------------------------
(***************************************************************************)
(* What the driver tells.                                                  *)
(***************************************************************************)
\* ensureCityMatch() waits for a record of a match that has none.
LEMMA EnsuredInv ==
  ASSUME NEW p, NEW C, NEW n \in Nat, PageInv(p, C, n)
  PROVE  PageInv(p, Ensured(p, C), n)
<1>1. CASE p.net # Absent /\ p.role = "host" /\ p.match = Absent
  <2>1. p.net \in 1 .. n
    BY <1>1 DEF PageInv, Formed, Absent
  <2>2. Recording(p.net).kind = "record" /\ Awaited(Recording(p.net), n)
    BY <2>1, AnswerFields DEF Awaited
  <2>3. PageInv(p, C \cup {Recording(p.net)}, n)
    BY <1>1, <2>2, MoreInv
  <2>4. Ensured(p, C) = C \/ Ensured(p, C) = C \cup {Recording(p.net)}
    BY DEF Ensured, Recording
  <2> QED
    BY <2>3, <2>4
<1>2. CASE ~(p.net # Absent /\ p.role = "host" /\ p.match = Absent)
  BY <1>2 DEF Ensured
<1> QED
  BY <1>1, <1>2

\* The ready screen.
LEMMA ConnectedKeeps ==
  ASSUME ShellInv, Connected
  PROVE  ShellInv'
<1> DEFINE q == [page EXCEPT !.stage = "lobby", !.screen = "netready", !.ready = FALSE]
<1>1. PICK known \in BOOLEAN : Show(q, Readying(q, IF known THEN Ensured(q, calls) ELSE calls))
  BY DEF Connected
<1>2. page.net # Absent /\ UNCHANGED pairings
  BY DEF Connected
<1>3. DOMAIN q = Field /\ q.screen = "netready" /\ q.net = page.net /\ q.stage = "lobby"
      /\ q.role = page.role /\ q.ranked = page.ranked /\ q.busy = page.busy /\ q.ready = FALSE
      /\ q.bot = page.bot /\ q.match = page.match /\ q.result = page.result
      /\ q.verdict = page.verdict
  BY ShellFacts, Zenon DEF Field
<1> HIDE DEF q
<1>4. ~Sought(calls)
  BY <1>2, ShellFacts DEF PageInv, Ranked
<1>5. Formed(q, calls, pairings) /\ Verdicts(q) /\ Records(q, calls)
  BY <1>2, <1>3, ShellFacts DEF PageInv, Formed, Verdicts, Records
<1>6. Waits(q, calls) /\ Ranked(q, calls) /\ Played(q)
  BY <1>2, <1>3, <1>4, ShellFacts DEF PageInv, Waits, Ranked, Played, Pitch
<1>7. PageInv(q, calls, pairings) /\ PageInv(q, Ensured(q, calls), pairings)
  BY <1>5, <1>6, ShellFacts, EnsuredInv DEF PageInv
<1>8. PageInv(q, Readying(q, IF known THEN Ensured(q, calls) ELSE calls), pairings)
  BY <1>7, ReadyingInv
<1> QED
  BY <1>1, <1>2, <1>8, ShellFacts, ShowKeeps

\* launchNet(): the match of the page's driver begins.
LEMMA StartedKeeps ==
  ASSUME ShellInv, Started
  PROVE  ShellInv'
<1> DEFINE q == [page EXCEPT !.stage = "playing", !.engine = page.net, !.phase = "first",
                   !.paused = FALSE, !.screen = "match"]
<1>1. Show(q, Ensured(q, calls)) /\ UNCHANGED pairings /\ page.stage = "lobby" /\ page.ready
  BY DEF Started
<1>2. DOMAIN q = Field /\ q.screen = "match" /\ q.net = page.net /\ q.stage = "playing"
      /\ q.role = page.role /\ q.ranked = page.ranked /\ q.busy = page.busy
      /\ q.ready = page.ready /\ q.bot = page.bot /\ q.match = page.match
      /\ q.result = page.result /\ q.verdict = page.verdict /\ q.engine = page.net
  BY ShellFacts, Zenon DEF Field
<1> HIDE DEF q
<1>3. page.net # Absent
  BY <1>1, ShellFacts DEF PageInv, Formed
<1>4. ~Sought(calls)
  BY <1>3, ShellFacts DEF PageInv, Ranked
<1>5. Formed(q, calls, pairings) /\ Verdicts(q) /\ Records(q, calls)
  BY <1>2, <1>3, ShellFacts DEF PageInv, Formed, Verdicts, Records
<1>6. Waits(q, calls) /\ Ranked(q, calls) /\ Played(q)
  BY <1>1, <1>2, <1>3, <1>4, ShellFacts DEF PageInv, Waits, Ranked, Played
<1>7. PageInv(q, Ensured(q, calls), pairings)
  BY <1>5, <1>6, ShellFacts, EnsuredInv DEF PageInv
<1> QED
  BY <1>1, <1>7, ShellFacts, ShowKeeps

\* The guest is told the record.
LEMMA RecordComesKeeps ==
  ASSUME ShellInv, RecordComes
  PROVE  ShellInv'
<1>1. PICK same \in BOOLEAN : Show(Recorded(page, same), Readying(Recorded(page, same), calls))
  BY DEF RecordComes
<1>2. page.net # Absent /\ page.role = "join" /\ page.match = Absent /\ UNCHANGED pairings
  BY DEF RecordComes
<1>3. \A c \in calls : c.kind = "record" => c.net # page.net
  BY <1>2, ShellFacts DEF PageInv, Records
<1>4. PageInv(Recorded(page, same), calls, pairings)
  BY <1>2, <1>3, ShellFacts, RecordedInv
<1>5. PageInv(Recorded(page, same), Readying(Recorded(page, same), calls), pairings)
  BY <1>4, ReadyingInv
<1> QED
  BY <1>1, <1>2, <1>5, ShellFacts, ShowKeeps

\* A match is stopped, or goes on: only the screen, between those of the match, and
\* what the invariant does not look at changes.
LEMMA PlayKeeps ==
  ASSUME ShellInv, NEW q, DOMAIN q = Field, Same(page, q), q.engine = page.engine,
         Show(q, calls), UNCHANGED pairings,
         \/ q.screen = page.screen
         \/ /\ page.screen \in {"match", "pause", "half"}
            /\ q.screen \in {"match", "pause", "half", "full"}
  PROVE  ShellInv'
<1>1. page.screen \in {"match", "pause", "half"} => ~Sought(calls)
  BY ShellFacts DEF PageInv, Ranked
<1>2. PageInv(q, calls, pairings)
  BY <1>1, ShellFacts, SameInv DEF Pitch
<1> QED
  BY <1>2, ShellFacts, ShowKeeps

\* The pause flag, or the phase, of a page; and its screen.
LEMMA PlayFields ==
  ASSUME NEW p, DOMAIN p = Field, NEW x, NEW s
  PROVE  /\ LET q == [p EXCEPT !.paused = x] IN
            DOMAIN q = Field /\ Same(p, q) /\ q.engine = p.engine /\ q.screen = p.screen
         /\ LET q == [p EXCEPT !.paused = x, !.screen = s] IN
            DOMAIN q = Field /\ Same(p, q) /\ q.engine = p.engine /\ q.screen = s
         /\ LET q == [p EXCEPT !.phase = x] IN
            DOMAIN q = Field /\ Same(p, q) /\ q.engine = p.engine /\ q.screen = p.screen
         /\ LET q == [p EXCEPT !.phase = x, !.screen = s] IN
            DOMAIN q = Field /\ Same(p, q) /\ q.engine = p.engine /\ q.screen = s
BY Zenon DEF Same, Field

\* openPause(): from the match only.
LEMMA PausedFields ==
  ASSUME NEW p, DOMAIN p = Field
  PROVE  /\ DOMAIN Paused(p) = Field /\ Same(p, Paused(p)) /\ Paused(p).engine = p.engine
         /\ \/ Paused(p).screen = p.screen
            \/ p.screen = "match" /\ Paused(p).screen = "pause"
<1>1. CASE p.screen = "match"
  BY <1>1, Zenon DEF Paused, Same, Field
<1>2. CASE p.screen # "match"
  BY <1>2 DEF Paused, Same
<1> QED
  BY <1>1, <1>2

\* The opponent pauses, or goes on.
LEMMA PeerPausesKeeps ==
  ASSUME ShellInv, PeerPauses
  PROVE  ShellInv'
<1>1. UNCHANGED pairings
  BY DEF PeerPauses
<1>2. CASE Show(Paused([page EXCEPT !.paused = TRUE]), calls)
  <2> DEFINE q == [page EXCEPT !.paused = TRUE]
  <2>1. DOMAIN q = Field /\ Same(page, q) /\ q.engine = page.engine /\ q.screen = page.screen
    BY ShellFacts, PlayFields, Zenon
  <2>2. Show(Paused(q), calls)
    BY <1>2
  <2> HIDE DEF q
  <2>3. DOMAIN Paused(q) = Field /\ Same(page, Paused(q)) /\ Paused(q).engine = page.engine
    BY <2>1, PausedFields DEF Same
  <2> QED
    BY <1>1, <2>1, <2>2, <2>3, PausedFields, PlayKeeps
<1>3. CASE LET p == [page EXCEPT !.paused = FALSE] IN
             Show(IF p.screen = "pause" THEN To(p, "match") ELSE p, calls)
  <2> DEFINE q == [page EXCEPT !.paused = FALSE]
  <2>1. DOMAIN q = Field /\ Same(page, q) /\ q.engine = page.engine /\ q.screen = page.screen
    BY ShellFacts, PlayFields, Zenon
  <2>2. Show(IF q.screen = "pause" THEN To(q, "match") ELSE q, calls)
    BY <1>3
  <2> HIDE DEF q
  <2>3. /\ DOMAIN To(q, "match") = Field /\ Same(page, To(q, "match"))
        /\ To(q, "match").screen = "match" /\ To(q, "match").engine = page.engine
    BY <2>1, ToFields DEF Same
  <2> QED
    BY <1>1, <2>1, <2>2, <2>3, PlayKeeps
<1> QED
  BY <1>2, <1>3 DEF PeerPauses

\* The host has gone on from half time.
LEMMA HostContinuedKeeps ==
  ASSUME ShellInv, HostContinued
  PROVE  ShellInv'
<1> DEFINE q == [page EXCEPT !.phase = "second"]
<1>1. DOMAIN q = Field /\ Same(page, q) /\ q.engine = page.engine /\ q.screen = page.screen
  BY ShellFacts, PlayFields, Zenon
<1>2. Show(q, calls) /\ UNCHANGED pairings
  BY DEF HostContinued
<1> HIDE DEF q
<1> QED
  BY <1>1, <1>2, PlayKeeps

\* The opponent is gone: the page leaves.
LEMMA PeerGoesKeeps ==
  ASSUME ShellInv, PeerGoes \/ \E c \in calls : FriendLeft(c)
  PROVE  ShellInv'
<1>1. UNCHANGED pairings
  BY DEF PeerGoes, FriendLeft
<1>2. Show(Lobbyward(page), Dropped(calls)) \/ Show(To(Closed(page), "title"), Dropped(calls))
  BY DEF PeerGoes, FriendLeft
<1>3. PageInv(Lobbyward(page), Dropped(calls), pairings)
      /\ PageInv(To(Closed(page), "title"), Dropped(calls), pairings)
  BY ShellFacts, LobbywardInv, ClosedInv DEF Pitch
<1> QED
  BY <1>1, <1>2, <1>3, ShellFacts, ShowKeeps

\* Whatever is told.
LEMMA TellsKeeps ==
  ASSUME ShellInv, Tells
  PROVE  ShellInv'
<1>1. CASE PeerProfile
  BY <1>1, ShellFacts, EnsuredInv, ShowKeeps DEF PeerProfile
<1> QED
  BY <1>1, ConnectedKeeps, RecordComesKeeps, StartedKeeps, PeerPausesKeeps, PeerGoesKeeps,
    HostContinuedKeeps DEF Tells

-----------------------------------------------------------------------------
(***************************************************************************)
(* What the player does.                                                   *)
(***************************************************************************)
\* findCountryMatch(), from a page as it is or one that has just left its match.
LEMMA SearchKeeps ==
  ASSUME ShellInv, UNCHANGED pairings,
         (page.screen # "full" /\ Search(page)) \/ Search(To(Closed(page), "title"))
  PROVE  ShellInv'
<1> DEFINE q == To(Closed(page), "title")
<1>1. DOMAIN q = Field /\ Verdicts(q) /\ q.screen = "title"
  <2>1. DOMAIN q = Field /\ Same(Closed(page), q) /\ q.screen = "title"
    BY ShellFacts, ClosedFields, ToFields
  <2> QED
    BY <2>1, ShellFacts, ClosedFields DEF PageInv, Verdicts, Same
<1> HIDE DEF q
<1>2. ASSUME NEW p, DOMAIN p = Field, Verdicts(p), p.screen # "full", Search(p)
      PROVE  ShellInv'
  <2>1. PageInv(To(Closed(p), "search"), SearchAfter(calls), pairings)
    BY <1>2, ShellFacts, SearchInv
  <2> QED
    BY <1>2, <2>1, ShellFacts, ShowKeeps DEF Search
<1> QED
  BY <1>1, <1>2, ShellFacts DEF PageInv, q

\* submitCityResult(), up to its first await.
LEMMA SubmittingKeeps ==
  ASSUME ShellInv, NEW p, PageInv(p, calls, pairings), Submitting(p, calls), UNCHANGED pairings
  PROVE  ShellInv'
<1>1. CASE Show(p, calls)
  BY <1>1, ShellFacts, ShowKeeps
<1>2. CASE Show([p EXCEPT !.result = "friendly", !.verdict = Absent], calls)
  <2>1. "friendly" \notin {"confirmed", "disputed"}
    OBVIOUS
  <2>2. PageInv([p EXCEPT !.result = "friendly", !.verdict = Absent], calls, pairings)
    BY <2>1, ResultInv
  <2> QED
    BY <1>2, <2>2, ShellFacts, ShowKeeps
<1>3. CASE p.match # Absent /\
           Show([p EXCEPT !.result = "confirming", !.verdict = Absent],
                calls \cup {[kind |-> "result", match |-> p.match,
                             of |-> IF p.bot # Absent THEN p.bot ELSE p.match]})
  <2> DEFINE q == [p EXCEPT !.result = "confirming", !.verdict = Absent]
  <2>1. (IF p.bot # Absent THEN p.bot ELSE p.match) = p.match
    BY DEF PageInv, Verdicts
  <2>2. Show(q, calls \cup {Asking(p.match)})
    BY <1>3, <2>1 DEF Asking
  <2>3. "confirming" \notin {"confirmed", "disputed"}
    OBVIOUS
  <2>4. PageInv(q, calls, pairings)
    BY <2>3, ResultInv
  <2> HIDE DEF q
  <2>5. Asking(p.match).kind = "result" /\ Awaited(Asking(p.match), pairings)
    BY <1>3, AnswerFields DEF Awaited
  <2>6. PageInv(q, calls \cup {Asking(p.match)}, pairings)
    BY <2>4, <2>5, MoreInv
  <2> QED
    BY <2>2, <2>6, ShellFacts, ShowKeeps
<1> QED
  BY <1>1, <1>2, <1>3 DEF Submitting

\* The match comes to half time or to its end.
LEMMA MatchFrameKeeps ==
  ASSUME ShellInv, MatchFrame
  PROVE  ShellInv'
<1>1. page.screen = "match" /\ UNCHANGED pairings
  BY DEF MatchFrame
<1> DEFINE h == [page EXCEPT !.phase = "halftime", !.screen = "half"]
           f == [page EXCEPT !.phase = "fulltime", !.screen = "full"]
<1>2. DOMAIN h = Field /\ Same(page, h) /\ h.screen = "half" /\ h.engine = page.engine
      /\ DOMAIN f = Field /\ Same(page, f) /\ f.screen = "full" /\ f.engine = page.engine
  BY ShellFacts, Zenon DEF Same, Field
<1>3. Show(h, calls) \/ Submitting(f, calls)
  BY DEF MatchFrame
<1> HIDE DEF h, f
<1>4. ~Sought(calls)
  BY <1>1, ShellFacts DEF PageInv, Ranked
<1>5. PageInv(f, calls, pairings)
  BY <1>1, <1>2, <1>4, ShellFacts, SameInv DEF Pitch
<1> QED
  BY <1>1, <1>2, <1>3, <1>5, PlayKeeps, SubmittingKeeps

\* The second half begins, or is waited for.
LEMMA ContinueKeeps ==
  ASSUME ShellInv, Continue
  PROVE  ShellInv'
<1>1. page.screen = "half" /\ UNCHANGED pairings
  BY DEF Continue
<1>2. CASE Show(To(page, "match"), calls) \/ Show(page, calls)
  BY <1>1, <1>2, ShellFacts, ToFields, PlayKeeps, ShowKeeps
<1>3. CASE Show([page EXCEPT !.phase = "second", !.screen = "match"], calls)
  <2> DEFINE q == [page EXCEPT !.phase = "second", !.screen = "match"]
  <2>1. DOMAIN q = Field /\ Same(page, q) /\ q.engine = page.engine /\ q.screen = "match"
    BY ShellFacts, Zenon DEF Same, Field
  <2>2. Show(q, calls)
    BY <1>3
  <2> HIDE DEF q
  <2> QED
    BY <1>1, <2>1, <2>2, PlayKeeps
<1> QED
  BY <1>2, <1>3 DEF Continue

\* A page leaves for a menu, or for a match alone.
LEMMA LeavesKeeps ==
  ASSUME ShellInv, UNCHANGED pairings,
         \/ \E s \in {"title", "online", "join"} : Show(To(Closed(page), s), Dropped(calls))
         \/ \E s \in {"title", "online"} : Show(To(Forgotten(Closed(page)), s), Dropped(calls))
         \/ /\ page.screen # "full" \/ page.match = Absent
            /\ Show(Alone(page), Dropped(calls))
         \/ Show(Lobbyward(page), Dropped(calls))
  PROVE  ShellInv'
<1>1. \A s \in {"title", "online", "join"} :
        PageInv(To(Closed(page), s), Dropped(calls), pairings)
  BY ShellFacts, ClosedInv DEF Pitch
<1>2. \A s \in {"title", "online"} :
        PageInv(To(Forgotten(Closed(page)), s), Dropped(calls), pairings)
  BY ShellFacts, ForgottenInv DEF Pitch
<1>3. /\ page.screen # "full" \/ page.match = Absent
           => PageInv(Alone(page), Dropped(calls), pairings)
      /\ PageInv(Lobbyward(page), Dropped(calls), pairings)
  BY ShellFacts, LaunchedInv, LobbywardInv
<1> QED
  BY <1>1, <1>2, <1>3, ShellFacts, ShowKeeps

\* A menu that is not of a match leads to another.
LEMMA MenuKeeps ==
  ASSUME ShellInv, UNCHANGED pairings, page.screen \notin {"host", "join"},
         NEW s, s \in {"title", "city", "onboard"}, Show(To(page, s), calls)
  PROVE  ShellInv'
<1>1. ~Sought(calls)
  BY ShellFacts DEF PageInv, Ranked
<1>2. PageInv(To(page, s), calls, pairings)
  BY <1>1, ShellFacts, ToFields, SameInv DEF Pitch
<1> QED
  BY <1>2, ShellFacts, ShowKeeps

\* The menus of a match.
LEMMA MatchMenusKeep ==
  ASSUME ShellInv, PauseMenu \/ OpenPause \/ FullMenu
  PROVE  ShellInv'
<1>1. CASE PauseMenu
  <2> DEFINE q == [page EXCEPT !.paused = FALSE, !.screen = "match"]
  <2>1. DOMAIN q = Field /\ Same(page, q) /\ q.engine = page.engine /\ q.screen = "match"
    BY ShellFacts, Zenon DEF Same, Field
  <2>2. page.screen = "pause" /\ UNCHANGED pairings
    BY <1>1 DEF PauseMenu
  <2>3. \/ Show(q, calls) \/ Search(To(Closed(page), "title"))
        \/ Show(Alone(page), Dropped(calls)) \/ Show(To(Closed(page), "title"), Dropped(calls))
    BY <1>1 DEF PauseMenu
  <2> HIDE DEF q
  <2> QED
    BY <2>1, <2>2, <2>3, PlayKeeps, SearchKeeps, LeavesKeeps
<1>2. CASE OpenPause
  BY <1>2, ShellFacts, PausedFields, PlayKeeps DEF OpenPause
<1>3. CASE FullMenu
  <2>1. page.screen = "full" /\ UNCHANGED pairings
    BY <1>3 DEF FullMenu
  <2>2. \/ Search(To(Closed(page), "title")) \/ Submitting(page, calls)
        \/ Show(To(page, "city"), calls)
        \/ \E s \in {"title", "online"} : Show(To(Forgotten(Closed(page)), s), Dropped(calls))
        \/ page.match = Absent /\ Show(Alone(page), Dropped(calls))
        \/ Show(To(Closed(page), "title"), Dropped(calls))
    <3>1. page.net = Absent /\ ~(page.bot # Absent /\ page.match # Absent)
            => page.match = Absent
      BY <2>1, ShellFacts DEF PageInv, Played, Pitch
    <3> QED
      BY <1>3, <3>1 DEF FullMenu
  <2> QED
    BY <2>1, <2>2, ShellFacts, SearchKeeps, SubmittingKeeps, MenuKeeps, LeavesKeeps
<1> QED
  BY <1>1, <1>2, <1>3

\* A friend is invited from the title: not as a ranked opponent.
LEMMA InviteKeeps ==
  ASSUME ShellInv, UNCHANGED pairings, page.screen = "title",
         Attempting([page EXCEPT !.ranked = FALSE, !.screen = "host"], calls, "host")
  PROVE  ShellInv'
<1> DEFINE q == [page EXCEPT !.ranked = FALSE, !.screen = "host"]
<1>1. DOMAIN q = Field /\ q.screen = "host" /\ q.net = page.net /\ q.stage = page.stage
      /\ q.role = page.role /\ q.ranked = FALSE /\ q.busy = page.busy /\ q.ready = page.ready
      /\ q.bot = page.bot /\ q.match = page.match /\ q.result = page.result
      /\ q.verdict = page.verdict
  BY ShellFacts, Zenon DEF Field
<1>2. Attempting(q, calls, "host")
  OBVIOUS
<1> HIDE DEF q
<1>3. ~Sought(calls)
  BY ShellFacts DEF PageInv, Ranked
<1>4. Formed(q, calls, pairings) /\ Verdicts(q) /\ Records(q, calls)
  BY <1>1, ShellFacts DEF PageInv, Formed, Verdicts, Records
<1>5. Waits(q, calls) /\ Ranked(q, calls) /\ Played(q)
  BY <1>1, <1>3, ShellFacts DEF PageInv, Waits, Ranked, Played, Pitch
<1> QED
  BY <1>1, <1>2, <1>4, <1>5, ShellFacts, AttemptingKeeps DEF PageInv

\* The menus before a match.
LEMMA MenusKeep ==
  ASSUME ShellInv, TitleMenu \/ CityMenu \/ SearchMenu \/ OnlineMenu \/ RoomMenu
  PROVE  ShellInv'
<1>0. UNCHANGED pairings
  BY DEF TitleMenu, CityMenu, SearchMenu, OnlineMenu, RoomMenu
<1>1. CASE TitleMenu
  BY <1>0, <1>1, SearchKeeps, InviteKeeps, MenuKeeps, LeavesKeeps DEF TitleMenu
<1>2. CASE CityMenu
  BY <1>0, <1>2, SearchKeeps, MenuKeeps DEF CityMenu
<1>3. CASE SearchMenu
  <2>1. PICK s \in {"online", "title"} : Show(To(page, s), Unsearched(calls))
    BY <1>3 DEF SearchMenu
  <2>2. page.screen = "search" /\ Unsearched(calls) \in SUBSET calls
    BY <1>3 DEF SearchMenu, Unsearched
  <2>3. PageInv(To(page, s), Unsearched(calls), pairings)
    BY <2>2, ShellFacts, SearchLeftInv
  <2> QED
    BY <1>0, <2>1, <2>3, ShellFacts, ShowKeeps
<1>4. CASE OnlineMenu
  <2>1. page.screen = "online"
    BY <1>4 DEF OnlineMenu
  <2>2. ~Sought(calls)
    BY <2>1, ShellFacts DEF PageInv, Ranked
  <2>3. ASSUME NEW s \in {"host", "join"}
        PROVE  LET q == [page EXCEPT !.code = FALSE, !.screen = s] IN
               q.screen = s /\ PageInv(q, calls, pairings)
    <3> DEFINE q == [page EXCEPT !.code = FALSE, !.screen = s]
    <3>1. DOMAIN q = Field /\ Same(page, q) /\ q.screen = s
      BY ShellFacts, Zenon DEF Same, Field
    <3> HIDE DEF q
    <3>2. PageInv(q, calls, pairings)
      BY <2>2, <3>1, ShellFacts, SameInv DEF Pitch
    <3> QED
      BY <3>1, <3>2 DEF q
  <2> DEFINE h == [page EXCEPT !.code = FALSE, !.screen = "host"]
             j == [page EXCEPT !.code = FALSE, !.screen = "join"]
  <2>4. \/ Attempting(h, calls, "host") \/ Show(j, calls) \/ Show(To(page, "title"), calls)
    BY <1>4 DEF OnlineMenu
  <2>5. h.screen = "host" /\ PageInv(h, calls, pairings) /\ PageInv(j, calls, pairings)
    BY <2>3, Zenon
  <2> HIDE DEF h, j
  <2> QED
    BY <1>0, <2>1, <2>4, <2>5, ShellFacts, AttemptingKeeps, ShowKeeps, MenuKeeps
<1>5. CASE RoomMenu
  <2>1. page.screen \in {"host", "join", "netready"}
    BY <1>5 DEF RoomMenu
  <2>2. \/ Show(Lobbyward(page), Dropped(calls)) \/ Attempting(page, calls, "join")
        \/ Show(MadeReady(page), calls)
    BY <1>5 DEF RoomMenu
  <2>3. PageInv(MadeReady(page), calls, pairings)
    BY <2>1, ShellFacts, MadeReadyInv
  <2> QED
    BY <1>0, <2>1, <2>2, <2>3, ShellFacts, LeavesKeeps, AttemptingKeeps, ShowKeeps
<1> QED
  BY <1>1, <1>2, <1>3, <1>4, <1>5

\* A page that is loaded has met nobody.
LEMMA LoadedInv ==
  ASSUME NEW p, NEW n \in Nat, PageInv(p, {}, n), p.screen = "closed",
         NEW s, s \in {"title", "onboard"}, NEW C, C \in {{}, {[kind |-> "boot"]}}
  PROVE  PageInv(To(p, s), C, n)
<1>1. DOMAIN To(p, s) = Field /\ Same(p, To(p, s)) /\ To(p, s).screen = s
  BY ToFields DEF PageInv, Formed
<1>2. Unmet(To(p, s)) /\ Verdicts(To(p, s)) /\ Played(To(p, s))
  BY <1>1 DEF PageInv, Waits, Verdicts, Played, Pitch, Unmet, Same
<1>3. \A c \in C : Awaited(c, n) /\ c.kind = "boot"
  BY TimerFields DEF Awaited, Booting
<1> QED
  BY <1>1, <1>2, <1>3, UnmetInv DEF Attempted

\* Nor has one that has not been loaded.
LEMMA BlankInv ==
  ASSUME NEW n \in Nat
  PROVE  PageInv(Blank, {}, n)
<1>1. DOMAIN Blank = Field
  BY DEF Blank, Field
<1>2. Unmet(Blank) /\ Verdicts(Blank) /\ Played(Blank) /\ Blank.screen = "closed"
  BY DEF Blank, Unmet, Verdicts, Played, Pitch
<1> QED
  BY <1>1, <1>2, UnmetInv DEF Attempted

\* The page is loaded, asked for a profile, and left.
LEMMA PageKeeps ==
  ASSUME ShellInv, Load \/ Unload \/ Onboard
  PROVE  ShellInv'
<1>0. UNCHANGED pairings
  BY DEF Load, Unload, Onboard
<1>1. CASE Load
  <2>1. page.screen = "closed"
    BY <1>1 DEF Load
  <2>2. PICK s \in {"title", "onboard"}, C \in {{}, {[kind |-> "boot"]}} : Show(To(page, s), C)
    BY <1>1 DEF Load
  <2>3. PageInv(page, {}, pairings)
    <3>1. ~page.ranked
      BY <2>1, ShellFacts DEF PageInv, Waits, Unmet
    <3>2. ~Sought(calls)
      BY <3>1, ShellFacts DEF PageInv, Ranked
    <3> QED
      BY <2>1, <3>2, ShellFacts, FewerInv
  <2>4. PageInv(To(page, s), C, pairings)
    BY <2>1, <2>3, ShellFacts, LoadedInv
  <2> QED
    BY <1>0, <2>2, <2>4, ShellFacts, ShowKeeps
<1>2. CASE Unload
  BY <1>0, <1>2, ShellFacts, BlankInv, ShowKeeps DEF Unload
<1>3. CASE Onboard
  <2>1. page.screen = "onboard"
    BY <1>3 DEF Onboard
  <2>2. ~Sought(calls)
    BY <2>1, ShellFacts DEF PageInv, Ranked
  <2>3. DOMAIN To(page, "join") = Field /\ Same(page, To(page, "join"))
        /\ To(page, "join").screen = "join"
    BY ShellFacts, ToFields
  <2>4. PageInv(To(page, "join"), calls, pairings)
    BY <2>2, <2>3, ShellFacts, SameInv DEF Pitch
  <2> QED
    BY <1>0, <1>3, <2>1, <2>3, <2>4, ShellFacts, AttemptingKeeps, MenuKeeps DEF Onboard
<1> QED
  BY <1>1, <1>2, <1>3

\* The invariant is one: of the first page, and of every step.
LEMMA ShellInvKept ==
  /\ ShellInit => ShellInv
  /\ ShellInv /\ [ShellNext]_shellVars => ShellInv'
<1>1. ASSUME ShellInit
      PROVE  ShellInv
  <2>1. pairings = 0 /\ page = Blank /\ calls = {} /\ 0 \in Nat
    BY <1>1 DEF ShellInit
  <2> QED
    BY <2>1, BlankInv DEF ShellInv
<1>2. ASSUME ShellInv, [ShellNext]_shellVars
      PROVE  ShellInv'
  <2>1. CASE UNCHANGED shellVars
    <3>1. UNCHANGED <<pairings, page, calls>>
      BY <2>1 DEF shellVars
    <3> QED
      BY <1>2, <3>1 DEF ShellInv
  <2>2. CASE \E c \in calls : Answer(c)
    BY <1>2, <2>2, AnswerKeeps
  <2>3. CASE Uses
    BY <1>2, <2>3, MatchMenusKeep, MenusKeep, PageKeeps, ContinueKeeps DEF Uses
  <2> QED
    BY <1>2, <2>1, <2>2, <2>3, TellsKeeps, MatchFrameKeeps DEF ShellNext
<1> QED
  BY <1>1, <1>2

-----------------------------------------------------------------------------
(***************************************************************************)
(* The theorems.                                                           *)
(***************************************************************************)
\* The invariant holds of every behaviour.
THEOREM ShellInvHolds == ShellSpec => []ShellInv
BY ShellInvKept, PTL DEF ShellSpec

\* VerdictIsThisMatch: whatever matches follow each other, and however late an answer
\* of the league is, the verdict on the full-time screen is on the match that has been
\* played there; on a page with a kept record, on the match of that record.
THEOREM VerdictIsThisMatchHolds == ShellSpec => []VerdictIsThisMatch
<1>1. ASSUME ShellInv, page.screen = "full", page.result \in {"confirmed", "disputed"}
      PROVE  page.verdict = IF KeptRecord THEN page.match ELSE page.engine
  <2>1. page.verdict = page.match /\ page.match # Absent
    BY <1>1, ShellFacts DEF PageInv, Verdicts
  <2>2. CASE page.net # Absent
    <3>1. page.engine = page.net /\ (page.ranked => page.match = page.net)
      BY <1>1, <2>1, <2>2, ShellFacts DEF PageInv, Played, Pitch
    <3> QED
      BY <2>1, <3>1 DEF KeptRecord
  <2>3. CASE page.net = Absent
    <3>1. page.engine = page.bot /\ page.match = page.bot
      BY <1>1, <2>1, <2>3, ShellFacts DEF PageInv, Played, Verdicts, Pitch
    <3> QED
      BY <2>1, <3>1
  <2> QED
    BY <2>2, <2>3
<1>2. ShellInv => VerdictIsThisMatch
  BY <1>1 DEF VerdictIsThisMatch
<1> QED
  BY <1>2, ShellInvHolds, PTL

\* WaitIsServed: a page that waits for an opponent, or for his readiness, has a search,
\* an attempt or a driver to wait on.
THEOREM WaitIsServedHolds == ShellSpec => []WaitIsServed
<1>1. ASSUME ShellInv
      PROVE  WaitIsServed
  <2>1. Waits(page, calls) /\ Ranked(page, calls)
    BY <1>1 DEF ShellInv, PageInv
  <2> QED
    BY <2>1 DEF WaitIsServed, Waits, Ranked, Searched, Sought
<1> QED
  BY <1>1, ShellInvHolds, PTL

\* A page on which a match is played shows what is shown of it as it is.
LEMMA MatchShown ==
  ASSUME DOMAIN page = Field, InMatch, NEW p, NEW C, Show(p, C), DOMAIN p = Field,
         p.screen = page.screen, p.engine = page.engine
  PROVE  page'.screen = page.screen /\ page'.engine = page.engine
BY ShownFields DEF Show, InMatch

\* No answer, and no news of a driver, changes what is played.
LEMMA MatchStays ==
  ASSUME ShellInv, InMatch, (\E c \in calls : Answer(c)) \/ Connected \/ Started
  PROVE  page'.screen = page.screen /\ page'.engine = page.engine
<1>1. page.screen \in {"match", "pause", "half"} /\ DOMAIN page = Field
  BY ShellFacts DEF InMatch
<1>2. page.net # Absent => page.stage = "playing"
  BY <1>1, ShellFacts DEF PageInv, Played, Pitch
<1>3. ASSUME NEW C, Show(page, C)
      PROVE  page'.screen = page.screen /\ page'.engine = page.engine
  BY <1>1, <1>3, MatchShown
<1>4. ASSUME NEW result, NEW verdict, NEW C,
             Show([page EXCEPT !.result = result, !.verdict = verdict], C)
      PROVE  page'.screen = page.screen /\ page'.engine = page.engine
  <2> DEFINE q == [page EXCEPT !.result = result, !.verdict = verdict]
  <2>1. DOMAIN q = Field /\ q.screen = page.screen /\ q.engine = page.engine
    BY <1>1, Zenon DEF Field
  <2>2. Show(q, C)
    BY <1>4
  <2> HIDE DEF q
  <2> QED
    BY <1>1, <2>1, <2>2, MatchShown
<1>5. ASSUME NEW c \in calls, Answer(c)
      PROVE  page'.screen = page.screen /\ page'.engine = page.engine
  <2>1. CASE SearchAnswered(c) \/ PollTimer(c)
    BY <1>1, <1>3, <2>1 DEF SearchAnswered, PollTimer, Alive
  <2>2. CASE RoomAnswered(c) \/ PeerAnswered(c) \/ AttemptFails(c)
    <3>1. c.kind = "attempt"
      BY <2>2 DEF RoomAnswered, PeerAnswered, AttemptFails
    <3>2. ~Wanted(c)
      BY <1>1, <3>1, WantedFacts
    <3> QED
      BY <1>3, <2>2, <3>2 DEF RoomAnswered, PeerAnswered, AttemptFails
  <2>3. CASE RecordAnswered(c)
    <3>1. ASSUME NEW same, NEW C, Show(Recorded(page, same), C)
          PROVE  page'.screen = page.screen /\ page'.engine = page.engine
      BY <1>1, <3>1, RecordedFields, MatchShown
    <3>2. CASE page.net = c.net
      <4>1. c.kind = "record" /\ c.net # Absent
        <5>1. c.kind = "record"
          BY <2>3 DEF RecordAnswered
        <5>2. c.net \in 1 .. pairings
          BY <5>1, ShellFacts, AwaitedKinds
        <5> QED
          BY <5>1, <5>2, ShellFacts DEF Absent
      <4>2. page.match = Absent
        BY <3>2, <4>1, ShellFacts DEF PageInv, Records
      <4>3. ~page.ranked
        BY <1>2, <3>2, <4>1, <4>2, ShellFacts DEF PageInv, Ranked
      <4> QED
        BY <1>4, <2>3, <3>1, <3>2, <4>3 DEF RecordAnswered
    <3>3. CASE page.net # c.net
      BY <1>3, <2>3, <3>3 DEF RecordAnswered
    <3> QED
      BY <3>2, <3>3
  <2>4. CASE AutoReady(c) \/ BootJoin(c)
    BY <1>1, <1>3, <2>4 DEF AutoReady, BootJoin
  <2>5. CASE ResultAnswered(c)
    <3>1. \/ \E C : Show(page, C)
          \/ \E result, verdict, C : Show([page EXCEPT !.result = result, !.verdict = verdict], C)
      BY <2>5, Zenon DEF ResultAnswered
    <3> QED
      BY <1>3, <1>4, <3>1
  <2> QED
    BY <1>5, <2>1, <2>2, <2>3, <2>4, <2>5 DEF Answer
<1>6. ~Connected /\ ~Started
  <2>1. page.net = Absent => page.stage = "none"
    BY ShellFacts DEF PageInv, Formed
  <2> QED
    BY <1>2, <2>1 DEF Connected, Started
<1> QED
  BY <1>5, <1>6

\* MatchNotLeft: no answer that comes late takes a match that is played off the screen.
THEOREM MatchNotLeftHolds == ShellSpec => MatchNotLeft
<1>1. ShellInv /\ [ShellNext]_shellVars =>
        [(\E c \in calls : Answer(c)) \/ Connected \/ Started =>
           (InMatch => page'.screen = page.screen /\ page'.engine = page.engine)]_shellVars
  BY MatchStays
<1> QED
  BY <1>1, ShellInvHolds, PTL DEF ShellSpec, MatchNotLeft

-----------------------------------------------------------------------------
(***************************************************************************)
(* II. The video tool.                                                     *)
(***************************************************************************)
Child == {"server", "browser", "encoder"}
\* Where main() has a browser.
Pictures == {"browser", "page", "frames", "closing", "failing"}
Pictured == [frame : Nat, run : Nat]
Place == {"ended", "server", "encoding", "probing"} \cup Pictures

-----------------------------------------------------------------------------
(***************************************************************************)
(* The inductive invariant.                                                *)
(***************************************************************************)
Typed ==
  /\ job.run \in Nat /\ job.total \in 0 .. MaxFrames
  /\ job.command \in {"video", "frames"}
  /\ at \in Place /\ handed \in BOOLEAN /\ closing \in BOOLEAN
  /\ alive \subseteq Child
  /\ signalled \in Place \cup {"no"}

Files ==
  /\ output \in [run : Nat, frames : SUBSET Pictured, good : BOOLEAN]
  /\ dir \subseteq Pictured

\* Which child processes run where: the browser from its launch to the end of the
\* session, unless a signal closes it; Vite until then as well; FFmpeg while it encodes.
Children ==
  /\ at = "ended" => "browser" \notin alive /\ ~closing
  /\ "server" \in alive => at \in Pictures \cup {"server"} \/ (at = "ended" /\ signalled = "server")
  /\ "encoder" \in alive =>
       \/ at = "encoding" /\ signalled # "encoding"
       \/ at = "ended" /\ signalled \notin {"no", "encoding", "probing"}
  /\ signalled = "no" /\ at \in Pictures => "browser" \in alive

\* What onSignal() can know, and when.
Told ==
  /\ signalled = "probing" => at \in {"probing", "ended"}
  /\ signalled = "encoding" => at \in {"encoding", "probing", "ended"}
  /\ handed => at = "frames"
  /\ closing => signalled = "frames"
  /\ at \in {"encoding", "probing"} => job.command = "video"

\* The first k frames of this run.
First(k) == {[frame |-> i, run |-> job.run] : i \in 0 .. (k - 1)}

\* The directory holds the frames taken so far, in order, and no others.
Frames ==
  /\ at \in {"server", "browser", "page"} => dir = {} /\ job.total > 0
  /\ at = "frames" => \E k \in 0 .. (job.total - 1) : dir = First(k)
  /\ at \in {"closing", "encoding", "probing"} => dir = OwnFrames

\* The MP4 is of an earlier run until FFmpeg has written this one's.
Written ==
  /\ output.run <= job.run
  /\ at \in Pictures \cup {"server"} => output.run < job.run
  /\ at = "probing" =>
       output = [run |-> job.run, frames |-> OwnFrames, good |-> output.good]

RunInv == Typed /\ Files /\ Children /\ Told /\ Frames /\ Written /\ ExitIsTrue
-----------------------------------------------------------------------------
(***************************************************************************)
(* The steps that leave the frames and the MP4 alone.                      *)
(***************************************************************************)
\* main() goes on, or the run ends: with a failure, or with all its frames.
LEMMA GoingKeepsInv ==
  ASSUME MaxFrames \in Nat, RunInv, job' = job, dir' = dir, output' = output, at # "ended",
         \/ at' = at
         \/ at \in {"server", "browser", "page"} /\ at' \in {"browser", "page"}
         \/ at = "page" /\ at' = "frames"
         \/ at = "closing" /\ at' = "encoding"
         \/ at' = "ended" /\ (exit' # 0 \/ (at = "closing" /\ job.command = "frames")),
         Typed', Children', Told'
  PROVE  RunInv'
<1>1. OwnFrames' = OwnFrames /\ \A k : First(k)' = First(k)
  BY DEF OwnFrames, First
<1>2. First(0) = {}
  BY DEF First
<1>3. Frames'
  <2>1. CASE at = "page" /\ at' = "frames"
    <3>1. 0 \in 0 .. (job.total - 1) /\ dir = First(0)
      BY <1>2, <2>1 DEF RunInv, Typed, Frames
    <3> QED
      BY <1>1, <2>1, <3>1 DEF Frames
  <2>2. CASE ~(at = "page" /\ at' = "frames")
    BY <1>1, <2>2 DEF RunInv, Frames
  <2> QED
    BY <2>1, <2>2
<1>4. Written'
  BY <1>1 DEF RunInv, Typed, Files, Written, Pictures, Place
<1>5. ExitIsTrue'
  <2>1. CASE at' = "ended" /\ exit' # 0
    <3>1. output.run = job.run => at \in {"encoding", "probing"}
      BY DEF RunInv, Typed, Files, Written, Place, Pictures
    <3> QED
      BY <1>1, <2>1, <3>1 DEF RunInv, ExitIsTrue, Frames
  <2>2. CASE at' = "ended" /\ at = "closing" /\ job.command = "frames" /\ exit' = 0
    BY <1>1, <2>2 DEF RunInv, ExitIsTrue, Frames
  <2>3. CASE at' # "ended"
    BY <2>3 DEF ExitIsTrue
  <2> QED
    BY <2>1, <2>2, <2>3
<1> QED
  BY <1>3, <1>4, <1>5 DEF RunInv, Files

\* Vite answers, or is stopped.
LEMMA ServerUpKeepsInv ==
  ASSUME MaxFrames \in Nat, RunInv, ServerUp
  PROVE  RunInv'
<1>1. Typed'
  BY DEF RunInv, Typed, ServerUp, End, Child, Place, Pictures
<1>2. Children'
  BY DEF RunInv, Typed, Children, Told, ServerUp, End, Child, Place, Pictures
<1>3. Told'
  BY DEF RunInv, Typed, Told, ServerUp, End, Pictures
<1> QED
  BY <1>1, <1>2, <1>3, GoingKeepsInv DEF ServerUp, End

\* The page is there, or Chromium and Vite are stopped.
LEMMA OpenedKeepsInv ==
  ASSUME MaxFrames \in Nat, RunInv, Opened
  PROVE  RunInv'
<1>1. Typed'
  BY DEF RunInv, Typed, Opened, Unopened, End, Child, Place, Pictures
<1>2. Children'
  BY DEF RunInv, Typed, Children, Told, Opened, Unopened, End, Child, Place, Pictures
<1>3. Told'
  BY DEF RunInv, Typed, Told, Opened, Unopened, End, Pictures
<1> QED
  BY <1>1, <1>2, <1>3, GoingKeepsInv DEF Opened, End

\* Chromium and Vite are stopped; FFmpeg starts, or the run is over.
LEMMA CloseSessionKeepsInv ==
  ASSUME MaxFrames \in Nat, RunInv, CloseSession
  PROVE  RunInv'
<1>1. Typed'
  BY DEF RunInv, Typed, CloseSession, AfterClose, End, Child, Place, Pictures
<1>2. Children'
  BY DEF RunInv, Typed, Children, Told, CloseSession, AfterClose, End, Child, Place, Pictures
<1>3. Told'
  BY DEF RunInv, Typed, Told, CloseSession, AfterClose, End, Pictures
<1> QED
  BY <1>1, <1>2, <1>3, GoingKeepsInv DEF CloseSession, End

\* The SIGTERM, wherever main() is.
LEMMA SignalKeepsInv ==
  ASSUME MaxFrames \in Nat, RunInv, Signal
  PROVE  RunInv'
<1>1. Typed'
  <2>1. /\ job' = job /\ signalled' = at /\ at' \in {at, "ended"} /\ closing' \in {handed, FALSE}
        /\ handed' \in {handed, FALSE} /\ alive' \subseteq alive
    BY DEF Signal, End
  <2> QED
    BY <2>1 DEF RunInv, Typed, Child, Place, Pictures
<1>2. Children'
  BY DEF RunInv, Typed, Children, Told, Signal, End, Child, Place, Pictures
<1>3. Told'
  BY DEF RunInv, Typed, Told, Signal, End, Pictures
<1> QED
  BY <1>1, <1>2, <1>3, GoingKeepsInv DEF Signal, End

\* What follows from it: the browser goes, the session is closed, time is up.
LEMMA AfterSignalKeepsInv ==
  ASSUME MaxFrames \in Nat, RunInv, BrowserGone \/ ClosedBySignal \/ TimeUp
  PROVE  RunInv'
<1>1. CASE BrowserGone
  <2>1. Typed' /\ Children' /\ Told' /\ at # "ended"
    BY <1>1 DEF RunInv, Typed, Children, Told, BrowserGone, Child, Place, Pictures
  <2> QED
    BY <1>1, <2>1, GoingKeepsInv DEF BrowserGone
<1>2. CASE ClosedBySignal
  <2>1. at # "ended" => Typed' /\ Children' /\ Told'
    BY <1>2 DEF RunInv, Typed, Children, Told, ClosedBySignal, AfterClose, End, Child,
             Place, Pictures
  <2>2. at # "ended"
    BY <1>2 DEF RunInv, Children, ClosedBySignal
  <2> QED
    BY <1>2, <2>1, <2>2, GoingKeepsInv DEF ClosedBySignal, End
<1>3. CASE TimeUp
  <2>1. Typed' /\ Children' /\ Told'
    BY <1>3 DEF RunInv, Typed, Children, Told, TimeUp, End, Child, Place, Pictures
  <2> QED
    BY <1>3, <2>1, GoingKeepsInv DEF TimeUp, End
<1> QED
  BY <1>1, <1>2, <1>3

-----------------------------------------------------------------------------
(***************************************************************************)
(* The steps that write frames and the MP4.                                *)
(***************************************************************************)
\* A run starts with an empty directory, whatever earlier runs have left there.
LEMMA StartKeepsInv ==
  ASSUME MaxFrames \in Nat, RunInv, StartVideo \/ StartFrames
  PROVE  RunInv'
<1>1. /\ job'.run = job.run + 1 /\ job'.command \in {"video", "frames"}
      /\ job'.total \in 1 .. MaxFrames
      /\ at = "ended" /\ alive = {} /\ signalled' = "no" /\ UNCHANGED <<handed, closing, output>>
      /\ dir' = {}
      /\ \/ at' = at /\ alive' = alive /\ exit' = 1
         \/ at' = "server" /\ alive' = {"server"} /\ exit' = exit
  BY DEF StartVideo, StartFrames, Begin, Serve, Cleared
<1>2. Typed'
  BY <1>1 DEF RunInv, Typed, Child, Place, Pictures
<1>3. Files'
  BY <1>1 DEF RunInv, Files
<1>4. Children' /\ Told'
  BY <1>1 DEF RunInv, Children, Told, Pictures
<1>5. Frames'
  BY <1>1 DEF RunInv, Frames
<1>6. Written' /\ ExitIsTrue'
  <2>1. output.run \in Nat /\ job.run \in Nat /\ output.run <= job.run
    BY DEF RunInv, Typed, Files, Written
  <2> QED
    BY <1>1, <2>1 DEF Written, ExitIsTrue, Pictures
<1> QED
  BY <1>2, <1>3, <1>4, <1>5, <1>6 DEF RunInv

\* After k frames the next one is number k.
LEMMA NextFrameIs ==
  ASSUME MaxFrames \in Nat, Typed, NEW k \in 0 .. (job.total - 1), dir = First(k)
  PROVE  NextFrame = k
<1>1. Taken = First(k)
  BY DEF Taken, First
<1>2. k \in 0 .. MaxFrames /\ k \in Nat
  BY DEF Typed
<1>3. \A f \in First(k) : f.frame \in 0 .. (k - 1)
  BY DEF First
<1>4. \A i \in 0 .. (k - 1) : \E f \in First(k) : f.frame = i
  <2>1. \A i \in 0 .. (k - 1) : [frame |-> i, run |-> job.run] \in First(k)
    BY DEF First
  <2> QED
    BY <2>1
<1> DEFINE Next(i) == /\ \A f \in Taken : f.frame # i
                      /\ \A j \in 0 .. (i - 1) : \E f \in Taken : f.frame = j
<1>5. Next(k)
  BY <1>1, <1>2, <1>3, <1>4
<1>6. ASSUME NEW i \in 0 .. MaxFrames, Next(i) PROVE i = k
  <2>1. ~(i < k)
    BY <1>1, <1>2, <1>4, <1>6
  <2>2. ~(k < i)
    <3>1. k < i => k \in 0 .. (i - 1)
      BY <1>2
    <3> QED
      BY <1>1, <1>2, <1>3, <1>6, <3>1
  <2> QED
    BY <1>2, <2>1, <2>2
<1>7. NextFrame = CHOOSE i \in 0 .. MaxFrames : Next(i)
  BY DEF NextFrame
<1> HIDE DEF Next
<1> QED
  BY <1>2, <1>5, <1>6, <1>7

\* A picture is added to those before it, or the run has failed.
LEMMA TakeFrameKeepsInv ==
  ASSUME MaxFrames \in Nat, RunInv, TakeFrame
  PROVE  RunInv'
<1>1. PICK k \in 0 .. (job.total - 1) : dir = First(k)
  BY DEF RunInv, Frames, TakeFrame
<1>2. NextFrame = k
  BY <1>1, NextFrameIs DEF RunInv
<1>3. k \in Nat /\ job.total \in Nat /\ job.run \in Nat
  BY DEF RunInv, Typed
<1> DEFINE taken == {f \in dir : f.frame # k} \cup {[frame |-> k, run |-> job.run]}
<1>4. taken = First(k + 1)
  <2>1. {f \in dir : f.frame # k} = First(k)
    BY <1>1, <1>3 DEF First
  <2>2. 0 .. (k + 1 - 1) = 0 .. (k - 1) \cup {k}
    BY <1>3
  <2> QED
    BY <2>1, <2>2 DEF First
<1>5. First(job.total) = OwnFrames /\ First(k + 1) \subseteq Pictured
  BY <1>3 DEF First, OwnFrames, Pictured
<1>6. /\ at = "frames" /\ UNCHANGED <<job, alive, signalled, closing, output, exit>>
      /\ handed' = (handed /\ at' = "frames")
      /\ \/ dir' = taken /\ at' = "failing"
         \/ dir' = taken /\ at' = "closing" /\ k = job.total - 1
         \/ dir' = taken /\ at' = "frames" /\ k # job.total - 1
         \/ dir' = dir /\ at' = "failing"
  BY <1>2 DEF TakeFrame
<1> HIDE DEF taken
<1>7. Typed'
  BY <1>6 DEF RunInv, Typed, Place, Pictures
<1>8. Files'
  BY <1>4, <1>5, <1>6 DEF RunInv, Files
<1>9. Children'
  BY <1>6 DEF RunInv, Children, Pictures
<1>10. Told'
  BY <1>6 DEF RunInv, Told
<1>11. OwnFrames' = OwnFrames /\ First(k + 1)' = First(k + 1)
  BY <1>6 DEF OwnFrames, First
<1>12. Frames'
  <2>1. CASE at' = "failing"
    BY <2>1 DEF Frames
  <2>2. CASE at' = "closing"
    <3>1. k + 1 = job.total
      BY <1>3, <1>6, <2>2
    <3> QED
      BY <1>4, <1>5, <1>6, <1>11, <2>2, <3>1 DEF Frames
  <2>3. CASE at' = "frames"
    <3>1. k + 1 \in 0 .. (job.total - 1) /\ dir' = First(k + 1)
      BY <1>3, <1>4, <1>6, <2>3
    <3> QED
      BY <1>6, <1>11, <2>3, <3>1 DEF Frames
  <2> QED
    BY <1>6, <2>1, <2>2, <2>3
<1>13. Written'
  BY <1>6 DEF RunInv, Written, Pictures
<1>14. ExitIsTrue'
  BY <1>6 DEF ExitIsTrue
<1> QED
  BY <1>7, <1>8, <1>9, <1>10, <1>12, <1>13, <1>14 DEF RunInv

\* FFmpeg reads all the frames of the run, and no others.
LEMMA ReadIs ==
  ASSUME MaxFrames \in Nat, Typed, dir = OwnFrames
  PROVE  Read = OwnFrames
<1>1. job.total \in Nat
  BY DEF Typed
<1>2. \A i \in 0 .. (job.total - 1) : \E g \in OwnFrames : g.frame = i
  <2>1. \A i \in 0 .. (job.total - 1) : [frame |-> i, run |-> job.run] \in OwnFrames
    BY DEF OwnFrames
  <2> QED
    BY <2>1
<1>3. \A f \in OwnFrames : f.frame \in 0 .. (job.total - 1)
  BY DEF OwnFrames
<1> QED
  BY <1>1, <1>2, <1>3 DEF Read

\* FFmpeg has written the MP4, good or not, or was killed while it did.
LEMMA EncodedKeepsInv ==
  ASSUME MaxFrames \in Nat, RunInv, Encoded
  PROVE  RunInv'
<1>1. PICK good \in BOOLEAN : output' = [run |-> job.run, frames |-> Read, good |-> good]
  BY DEF Encoded
<1>2. dir = OwnFrames /\ Read = OwnFrames
  BY ReadIs DEF RunInv, Frames, Encoded
<1>3. /\ at = "encoding" /\ UNCHANGED <<job, signalled, dir, shared>>
      /\ alive' \subseteq alive /\ "encoder" \notin alive'
      /\ \/ at' = "probing" /\ UNCHANGED <<handed, closing>>
         \/ at' = "ended" /\ exit' = 1 /\ handed' = FALSE /\ closing' = FALSE
            /\ "browser" \notin alive'
  BY DEF Encoded, End
<1>4. OwnFrames' = OwnFrames
  BY <1>3 DEF OwnFrames
<1>5. Typed'
  BY <1>3 DEF RunInv, Typed, Place
<1>6. Files'
  BY <1>1, <1>2, <1>3 DEF RunInv, Typed, Files
<1>7. Children'
  BY <1>3 DEF RunInv, Children, Pictures
<1>8. Told'
  BY <1>3 DEF RunInv, Told
<1>9. Frames'
  BY <1>2, <1>3, <1>4 DEF Frames
<1>10. Written'
  BY <1>1, <1>2, <1>3, <1>4 DEF RunInv, Typed, Written, Pictures
<1>11. ExitIsTrue'
  BY <1>2, <1>3, <1>4 DEF ExitIsTrue
<1> QED
  BY <1>5, <1>6, <1>7, <1>8, <1>9, <1>10, <1>11 DEF RunInv

\* What passes is good; what does not pass keeps its frames.
LEMMA ProbedKeepsInv ==
  ASSUME MaxFrames \in Nat, RunInv, Probed
  PROVE  RunInv'
<1>1. /\ dir = OwnFrames /\ job.command = "video"
      /\ output = [run |-> job.run, frames |-> OwnFrames, good |-> output.good]
  BY DEF RunInv, Frames, Written, Told, Probed
<1>2. /\ at = "probing" /\ UNCHANGED <<job, signalled, shared, output>>
      /\ at' = "ended" /\ handed' = FALSE /\ closing' = FALSE /\ alive' = alive \ {"browser"}
      /\ \/ output.good /\ exit' = 0 /\ dir' \in {{}, dir}
         \/ exit' = 1 /\ dir' = dir
  BY DEF Probed, End, Removed
<1>3. OwnFrames' = OwnFrames
  BY <1>2 DEF OwnFrames
<1>4. Typed'
  BY <1>2 DEF RunInv, Typed, Place
<1>5. Files'
  BY <1>2 DEF RunInv, Files
<1>6. Children' /\ Told'
  BY <1>2 DEF RunInv, Children, Told, Pictures
<1>7. Frames' /\ Written'
  BY <1>2 DEF RunInv, Frames, Written, Pictures
<1>8. ExitIsTrue'
  <2>1. CASE exit' = 0
    <3>1. output.good = TRUE
      BY <1>2, <2>1 DEF RunInv, Files
    <3> QED
      BY <1>1, <1>2, <1>3, <2>1, <3>1 DEF ExitIsTrue
  <2>2. CASE exit' = 1
    BY <1>1, <1>2, <1>3, <2>2 DEF ExitIsTrue
  <2> QED
    BY <1>2, <2>1, <2>2
<1> QED
  BY <1>4, <1>5, <1>6, <1>7, <1>8 DEF RunInv

-----------------------------------------------------------------------------
(***************************************************************************)
(* The theorems.                                                           *)
(***************************************************************************)
\* The invariant holds of every run of the tool.
LEMMA RunInvHolds ==
  ASSUME MaxFrames \in Nat
  PROVE  RenderSpec => []RunInv
<1>1. RenderInit => RunInv
  <2> SUFFICES ASSUME RenderInit PROVE RunInv
    OBVIOUS
  <2>1. Typed /\ Files
    <3>1. Typed
      <4>1. job.run \in Nat /\ job.total \in 0 .. MaxFrames /\ job.command \in {"video", "frames"}
        BY DEF RenderInit
      <4>2. at \in Place /\ signalled \in Place \cup {"no"}
        BY DEF RenderInit, Place
      <4>3. handed \in BOOLEAN /\ closing \in BOOLEAN /\ alive \subseteq Child
        BY DEF RenderInit
      <4> QED
        BY <4>1, <4>2, <4>3 DEF Typed
    <3>2. Files
      BY DEF RenderInit, Files, NoOutput
    <3> QED
      BY <3>1, <3>2
  <2>2. Children /\ Told /\ Frames
    BY DEF RenderInit, Children, Told, Frames, Pictures
  <2>3. Written /\ ExitIsTrue
    BY DEF RenderInit, Written, ExitIsTrue, NoOutput, Pictures
  <2> QED
    BY <2>1, <2>2, <2>3 DEF RunInv
<1>2. RunInv /\ [RenderNext]_renderVars => RunInv'
  <2> SUFFICES ASSUME RunInv, [RenderNext]_renderVars PROVE RunInv'
    OBVIOUS
  <2>1. CASE UNCHANGED renderVars
    BY <2>1 DEF renderVars, RunInv, Typed, Files, Children, Told, Frames, First, OwnFrames,
                Written, ExitIsTrue
  <2>2. CASE RenderNext
    BY <2>2, StartKeepsInv, ServerUpKeepsInv, OpenedKeepsInv, TakeFrameKeepsInv,
       CloseSessionKeepsInv, EncodedKeepsInv, ProbedKeepsInv, SignalKeepsInv,
       AfterSignalKeepsInv DEF RenderNext
  <2> QED
    BY <2>1, <2>2
<1> QED
  BY <1>1, <1>2, PTL DEF RenderSpec

\* NothingLeftRunning: a run that is over has left no child behind but those that
\* onSignal() cannot know of, wherever the SIGTERM came and whatever failed.
THEOREM NothingLeftRunningHolds ==
  ASSUME MaxFrames \in Nat
  PROVE  RenderSpec => []NothingLeftRunning
<1>1. RunInv => NothingLeftRunning
  BY DEF RunInv, Children, NothingLeftRunning, Pictures
<1> QED
  BY <1>1, RunInvHolds, PTL

\* ExitIsTrue: what the exit code says of the MP4 and the frames is so, for videos of
\* any length and whatever longer video an earlier run has left.
THEOREM ExitIsTrueHolds ==
  ASSUME MaxFrames \in Nat
  PROVE  RenderSpec => []ExitIsTrue
<1>1. RunInv => ExitIsTrue
  BY DEF RunInv
<1> QED
  BY <1>1, RunInvHolds, PTL
=============================================================================
