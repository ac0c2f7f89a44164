---------------------------- MODULE FriendLeague ----------------------------
(***************************************************************************)
(* A league among friends on the Node server (leagues/service.ts over a    *)
(* LeagueStore): it is opened, joined and started, its fixtures are        *)
(* reported by both sides, and its creator rules on what they dispute.     *)
(*                                                                         *)
(* Every call of the store is awaited, so requests overlap between any two *)
(* of them; one call of the store is one atomic step.  A request that is   *)
(* being handled is a record of calls, its field "next" the call it makes  *)
(* next.  A request may die between two calls.                             *)
(*                                                                         *)
(* Operators whose comment starts with "Slip:" are not part of the model:  *)
(* they are definitions as a plausible mistake would have them.            *)
(***************************************************************************)
EXTENDS Integers, FiniteSets, SequencesExt

CONSTANTS
  Friend,       \* client ids, in the order in which they are sorted: 1 .. n
  Result,       \* final scores, <<home goals, away goals>>
  Nothing,      \* null
  MaxStarts,    \* bound: how many starts are requested
  Watched,      \* bound: fixtures that are reported and ruled on
  MaxCalls,     \* bound: requests handled at a time
  MaxSchedule   \* bound: members of the leagues whose schedule is checked

Creator == 1
Bye == 0        \* "__bye__"

VARIABLES
  status,       \* the league: not there, in its lobby, or active
  members,
  fixtures,     \* the fixtures written so far, each with its status and score
  submissions,  \* the latest report of each side of a fixture
  starts,       \* how many starts have been requested
  jobs,        \* the requests being handled
  reported,     \* history: every score a side has ever reported
  ruled,        \* history: every score the creator has ruled
  died          \* history: fixtures of which a report died half-way

leagueVars == <<status, members, fixtures, submissions, starts, jobs, reported, ruled, died>>

-----------------------------------------------------------------------------
(* The schedule *)

\* The circle method: the first stays, the others move round him.
Turned(ring) == <<ring[1], ring[Len(ring)]>> \o SubSeq(ring, 2, Len(ring) - 1)

Ring(ids) ==
  LET f[r \in 1 .. Len(ids)] == IF r = 1 THEN ids ELSE Turned(f[r - 1]) IN f

\* Slip: the first moves round as well.
HomeAndAwayTurned(ring, r, i) ==
  LET a == ring[((i + r - 2) % Len(ring)) + 1] b == ring[Len(ring) + 1 - i] IN
    IF r % 2 = 1 THEN <<a, b>> ELSE <<b, a>>

\* Who plays in place i of a round; home and away alternate by round.
HomeAndAway(ring, r, i) ==
  LET a == ring[i] b == ring[Len(ring) + 1 - i] IN
    IF r % 2 = 1 THEN <<a, b>> ELSE <<b, a>>

Sorted(S) == [i \in 1 .. Cardinality(S) |->
  CHOOSE c \in S : Cardinality({d \in S : d < c}) = i - 1]

\* roundRobin(): sorted, with a bye if they are odd in number.
RoundRobin(S) ==
  LET sorted == Sorted(S)
      ids == IF Len(sorted) % 2 = 1 THEN Append(sorted, Bye) ELSE sorted
      row(r, i) == LET p == HomeAndAway(Ring(ids)[r], r, i) IN
                     [round |-> r, place |-> i, home |-> p[1], away |-> p[2]]
  IN {x \in {row(r, i) : r \in 1 .. Len(ids) - 1, i \in 1 .. Len(ids) \div 2} :
        Bye \notin {x.home, x.away}}

-----------------------------------------------------------------------------
(* Requests *)

Slot == 1 .. MaxCalls
Free(s) == jobs[s] = Nothing /\ \A o \in 1 .. s - 1 : jobs[o] # Nothing
Calling(s, op, next) == jobs[s] # Nothing /\ jobs[s].op = op /\ jobs[s].next = next
Asked(s, call) == Free(s) /\ jobs' = [jobs EXCEPT ![s] = call]
Further(call, next) == [call EXCEPT !.next = next]
Then(s, next) == jobs' = [jobs EXCEPT ![s] = Further(@, next)]
Answered(s) == jobs' = [jobs EXCEPT ![s] = Nothing]

LeagueInit ==
  /\ status = "none" /\ members = {} /\ starts = 0
  /\ fixtures = [f \in {} |-> Nothing]
  /\ submissions = [f \in {} |-> Nothing]
  /\ jobs = [s \in Slot |-> Nothing]
  /\ reported = {} /\ ruled = {} /\ died = {}

\* create(): the league, and its creator as its first member.
Create(s) ==
  /\ status = "none" /\ Asked(s, [op |-> "create", next |-> "member", client |-> Creator])
  /\ status' = "lobby"
  /\ UNCHANGED <<members, fixtures, submissions, starts, reported, ruled, died>>

\* join(): the league is read, and joined later.
Join(s, c) ==
  /\ status = "lobby" /\ Asked(s, [op |-> "join", next |-> "member", client |-> c])
  /\ UNCHANGED <<status, members, fixtures, submissions, starts, reported, ruled, died>>

AddMember(s) ==
  /\ Calling(s, "create", "member") \/ Calling(s, "join", "member")
  /\ members' = members \cup {jobs[s].client}
  /\ Answered(s)
  /\ UNCHANGED <<status, fixtures, submissions, starts, reported, ruled, died>>

\* start(): of a league in its lobby, by its creator.
Start(s) ==
  /\ status = "lobby" /\ Creator \in members /\ starts < MaxStarts
  /\ Asked(s, [op |-> "start", next |-> "list"])
  /\ starts' = starts + 1
  /\ UNCHANGED <<status, members, fixtures, submissions, reported, ruled, died>>

ListMembers(s) ==
  /\ Calling(s, "start", "list")
  /\ IF Cardinality(members) < 2 THEN Answered(s)
     ELSE jobs' = [jobs EXCEPT ![s] =
            [op |-> "start", next |-> "fixtures", rows |-> RoundRobin(members)]]
  /\ UNCHANGED <<status, members, fixtures, submissions, starts, reported, ruled, died>>

\* Each fixture gets a fresh id: here, the number of those before it.
InSomeOrder(rows) == SetToSeq(rows)

AddFixtures(s) ==
  /\ Calling(s, "start", "fixtures")
  /\ LET n == Cardinality(DOMAIN fixtures)
         rows == InSomeOrder(jobs[s].rows)
         id == (n + 1) .. (n + Len(rows))
     IN /\ fixtures' = [f \in DOMAIN fixtures \cup id |-> IF f \in id
             THEN [home |-> rows[f - n].home, away |-> rows[f - n].away,
                   status |-> "pending", score |-> Nothing]
             ELSE fixtures[f]]
        /\ submissions' = [f \in DOMAIN fixtures' |->
             IF f \in id THEN [home |-> Nothing, away |-> Nothing] ELSE submissions[f]]
  /\ Then(s, "status")
  /\ UNCHANGED <<status, members, starts, reported, ruled, died>>

SetStatus(s) ==
  /\ Calling(s, "start", "status")
  /\ status' = "active"
  /\ Answered(s)
  /\ UNCHANGED <<members, fixtures, submissions, starts, reported, ruled, died>>

\* submit(): the fixture is read, and is not confirmed.  Once active a league
\* stays so, and the check that it is may be made with the write.
Submit(s, f, side, x) ==
  /\ f \in DOMAIN fixtures /\ fixtures[f].status # "confirmed"
  /\ Asked(s, [op |-> "submit", next |-> "report", fixture |-> f, side |-> side, score |-> x])
  /\ UNCHANGED <<status, members, fixtures, submissions, starts, reported, ruled, died>>

\* The latest report of a side replaces the one before.
Upserted(both, side, x) == [both EXCEPT ![side] = x]

UpsertSubmission(s) ==
  /\ Calling(s, "submit", "report")
  /\ LET q == jobs[s] IN
     \/ status # "active" /\ Answered(s) /\ UNCHANGED <<submissions, reported>>
     \/ /\ status = "active"
        /\ submissions' = [submissions EXCEPT ![q.fixture] = Upserted(@, q.side, q.score)]
        /\ reported' = reported \cup {<<q.fixture, q.side, q.score>>}
        /\ Then(s, "list")
  /\ UNCHANGED <<status, members, fixtures, starts, ruled, died>>

SameScore(x, y) == x = y

\* Slip: a dispute is told, but not written.
WrittenIfAgreed(home, away) ==
  IF SameScore(home, away) THEN [status |-> "confirmed", score |-> home] ELSE Nothing

\* What two reports come to.
Written(home, away) ==
  IF SameScore(home, away) THEN [status |-> "confirmed", score |-> home]
  ELSE [status |-> "disputed", score |-> Nothing]

\* Both sides' latest reports are read, and decide if they are both there.
ListSubmissions(s) ==
  /\ Calling(s, "submit", "list")
  /\ LET f == jobs[s].fixture
         both == submissions[f]
     IN IF Nothing \in {both.home, both.away} \/ Written(both.home, both.away) = Nothing
        THEN Answered(s)
        ELSE jobs' = [jobs EXCEPT ![s] = [op |-> "submit", next |-> "result", fixture |-> f,
                                            write |-> Written(both.home, both.away)]]
  /\ UNCHANGED <<status, members, fixtures, submissions, starts, reported, ruled, died>>

\* resolve(): the creator rules on a fixture that is not confirmed.
Resolve(s, f, x) ==
  /\ f \in DOMAIN fixtures /\ fixtures[f].status # "confirmed"
  /\ Asked(s, [op |-> "resolve", next |-> "result", fixture |-> f,
               write |-> [status |-> "confirmed", score |-> x]])
  /\ UNCHANGED <<status, members, fixtures, submissions, starts, reported, ruled, died>>

\* setFixtureResult(): whatever the fixture has become in the meantime.
Decided(fixture, write) == [fixture EXCEPT !.status = write.status, !.score = write.score]

SetFixtureResult(s) ==
  /\ Calling(s, "submit", "result") \/ Calling(s, "resolve", "result")
  /\ LET q == jobs[s] IN
     /\ fixtures' = [fixtures EXCEPT ![q.fixture] = Decided(@, q.write)]
     /\ ruled' = IF q.op = "resolve" THEN ruled \cup {<<q.fixture, q.write.score>>} ELSE ruled
  /\ Answered(s)
  /\ UNCHANGED <<status, members, submissions, starts, reported, died>>

\* The process ends, or the store refuses, between two calls.
Dies(s) ==
  /\ jobs[s] # Nothing
  /\ died' = IF jobs[s].op = "submit" THEN died \cup {jobs[s].fixture} ELSE died
  /\ Answered(s)
  /\ UNCHANGED <<status, members, fixtures, submissions, starts, reported, ruled>>

LeagueNext == \E s \in Slot :
  \/ Create(s) \/ \E c \in Friend : Join(s, c)
  \/ AddMember(s) \/ Start(s) \/ ListMembers(s) \/ AddFixtures(s) \/ SetStatus(s)
  \/ \E f \in Watched \cap DOMAIN fixtures, x \in Result :
       Resolve(s, f, x) \/ \E side \in {"home", "away"} : Submit(s, f, side, x)
  \/ UpsertSubmission(s) \/ ListSubmissions(s) \/ SetFixtureResult(s) \/ Dies(s)

LeagueSpec == LeagueInit /\ [][LeagueNext]_leagueVars

-----------------------------------------------------------------------------
(* Properties *)

\* A score counts only if both sides have reported it, or the creator has ruled
\* it, whatever requests overlap, are repeated or die ("the server records only
\* when both submissions agree").
ScoreIsAgreed ==
  \A f \in DOMAIN fixtures : fixtures[f].status = "confirmed" =>
    \/ \A side \in {"home", "away"} : <<f, side, fixtures[f].score>> \in reported
    \/ <<f, fixtures[f].score>> \in ruled

\* Once both sides' reports are in, and no report is half-way, a fixture has been
\* decided or is before the creator: of two reports that cross, one sees both.
BothReportedDecides ==
  \A f \in DOMAIN fixtures :
    /\ Nothing \notin {submissions[f].home, submissions[f].away}
    /\ f \notin died
    /\ \A s \in Slot : jobs[s] = Nothing \/ jobs[s].op # "submit" \/ jobs[s].fixture # f
    => fixtures[f].status # "pending"

\* Verdicts come of both reports, and both reports lead to a verdict.
ReportsDecide == ScoreIsAgreed /\ BothReportedDecides

\* A schedule pairs every two of ids exactly once, has each play at most once a round,
\* and leaves nobody at home throughout.
PairedUp(ids) ==
  LET rows == RoundRobin(ids)
      Of(c) == {x \in rows : c \in {x.home, x.away}}
  IN /\ \A a, b \in ids : a # b => \E x \in rows : Of(a) \cap Of(b) = {x}
     /\ \A c \in ids : \A x, y \in Of(c) : x # y => x.round # y.round
     /\ Cardinality(ids) > 2 => \A c \in ids : \E x \in Of(c) : x.away = c

Schedules == \A n \in 2 .. MaxSchedule : PairedUp(1 .. n)

\* Whatever the size that a league which is being opened will have, its schedule will be
\* fair to every pair and every member of it.
EveryPairOnce == status = "lobby" /\ members = {} => Schedules
=============================================================================
