-------------------------- MODULE NodeServerProofs --------------------------
(***************************************************************************)
(* Proofs about the Node server: a league among friends (FriendLeague),    *)
(* for any number of friends, scores, starts and requests at a time, and a *)
(* room (NodeRooms), for any number of sockets, messages and seats; and    *)
(* the schedule of a league, for any number of members.                    *)
(***************************************************************************)
EXTENDS FriendLeague, NodeRooms,
        FiniteSetTheorems, WellFoundedInduction, SequenceTheorems, TLAPS


Side == {"home", "away"}

\* What is handled: the records calls holds, by what the request is at.
Opening(op, c) == [op |-> op, next |-> "member", client |-> c]
Listing == [op |-> "start", next |-> "list"]
Starting(next, rows) == [op |-> "start", next |-> next, rows |-> rows]
Reporting(next, f, side, x) ==
  [op |-> "submit", next |-> next, fixture |-> f, side |-> side, score |-> x]
Deciding(op, f, write) == [op |-> op, next |-> "result", fixture |-> f, write |-> write]
Verdict(st, x) == [status |-> st, score |-> x]

\* Null is no score, no request and no verdict.
NothingIsNull ==
  /\ Nothing \notin Result
  /\ \A next, f, side, x : Nothing # Reporting(next, f, side, x)
  /\ \A op, f, write : Nothing # Deciding(op, f, write)
  /\ \A st, x : Nothing # Verdict(st, x)

-----------------------------------------------------------------------------
(***************************************************************************)
(* The inductive invariant.                                                *)
(***************************************************************************)
\* The fixtures and their reports are written together, and what a side has on
\* record is what it has reported.
OnRecord(x, f, side, said) == x = Nothing \/ (x \in Result /\ <<f, side, x>> \in said)

Rows ==
  /\ DOMAIN submissions = DOMAIN fixtures
  /\ \A f \in DOMAIN fixtures :
       \E h, a, st, x : fixtures[f] = [home |-> h, away |-> a, status |-> st, score |-> x]
  /\ \A f \in DOMAIN submissions :
       \E h, a : /\ submissions[f] = [home |-> h, away |-> a]
                 /\ OnRecord(h, f, "home", reported) /\ OnRecord(a, f, "away", reported)

\* A verdict that confirms is of a score both sides have reported.
Supported(f, st, x, said) ==
  /\ st \in {"confirmed", "disputed"}
  /\ st = "confirmed" => \A side \in Side : <<f, side, x>> \in said

\* A request is at one of its calls, with what it has read.
Served(call, known, said) ==
  \/ call = Nothing
  \/ \E op \in {"create", "join"} : \E c : call = Opening(op, c)
  \/ call = Listing
  \/ \E next \in {"fixtures", "status"} : \E rows : call = Starting(next, rows)
  \/ \E next \in {"report", "list"}, f \in known, side \in Side, x \in Result :
       call = Reporting(next, f, side, x)
  \/ \E f \in known : \E st, x :
       call = Deciding("submit", f, Verdict(st, x)) /\ Supported(f, st, x, said)
  \/ \E f \in known : \E x : call = Deciding("resolve", f, Verdict("confirmed", x))

Requests ==
  /\ DOMAIN jobs = Slot
  /\ \A s \in Slot : Served(jobs[s], DOMAIN fixtures, reported)

\* A report past its write decides f, or is about to.
AboutTo(call, f) ==
  /\ call # Nothing /\ call.op = "submit" /\ call.next \in {"list", "result"}
  /\ call.fixture = f

\* While a fixture with both reports is pending, a report of it is still handled.
Handled(f) ==
  \/ submissions[f].home = Nothing \/ submissions[f].away = Nothing
  \/ f \in died
  \/ fixtures[f].status # "pending"
  \/ \E s \in Slot : AboutTo(jobs[s], f)

PendingIsHandled == \A f \in DOMAIN fixtures : Handled(f)

LeagueInv == Rows /\ Requests /\ ScoreIsAgreed /\ PendingIsHandled

-----------------------------------------------------------------------------
(***************************************************************************)
(* Requests, one slot at a time.                                           *)
(***************************************************************************)
\* What each kind of request is doing, and with what.
LEMMA OpeningFields ==
  ASSUME NEW op, NEW c
  PROVE  Opening(op, c).op = op /\ Opening(op, c).next = "member"
BY DEF Opening

\* start(), before and after it has listed the members.
LEMMA StartingFields ==
  ASSUME NEW next, NEW rows
  PROVE  /\ Listing.op = "start" /\ Listing.next = "list"
         /\ Starting(next, rows).op = "start" /\ Starting(next, rows).next = next
BY DEF Listing, Starting

\* submit(), until it has read both reports.
LEMMA ReportingFields ==
  ASSUME NEW next, NEW f, NEW side, NEW x
  PROVE  LET call == Reporting(next, f, side, x) IN
         /\ call.op = "submit" /\ call.next = next /\ call.fixture = f
         /\ call.side = side /\ call.score = x
BY DEF Reporting

\* A request goes on with what it has.
LEMMA FurtherCalls ==
  ASSUME NEW next, NEW further, NEW rows, NEW f, NEW side, NEW x
  PROVE  /\ Further(Starting(next, rows), further) = Starting(further, rows)
         /\ Further(Reporting(next, f, side, x), further) = Reporting(further, f, side, x)
BY DEF Further, Starting, Reporting

\* submit() and resolve(), before they write.
LEMMA DecidingFields ==
  ASSUME NEW op, NEW f, NEW write
  PROVE  LET call == Deciding(op, f, write) IN
         call.op = op /\ call.next = "result" /\ call.fixture = f /\ call.write = write
BY DEF Deciding

\* A request that reports is at its report, its side and its score.
LEMMA ReportFields ==
  ASSUME Requests, NEW s \in Slot, NEW next, Calling(s, "submit", next), next \in {"report", "list"}
  PROVE  \E f \in DOMAIN fixtures, side \in Side, x \in Result :
           jobs[s] = Reporting(next, f, side, x)
<1>1. Served(jobs[s], DOMAIN fixtures, reported)
  BY DEF Requests
<1>2. jobs[s] # Nothing /\ jobs[s].op = "submit" /\ jobs[s].next = next
  BY DEF Calling
<1>3. \E n \in {"report", "list"}, f \in DOMAIN fixtures, side \in Side, x \in Result :
        jobs[s] = Reporting(n, f, side, x)
  BY <1>1, <1>2, OpeningFields, StartingFields, DecidingFields DEF Served
<1> QED
  BY <1>2, <1>3, ReportingFields

\* A request that writes a result has a verdict, of both reports or of the creator.
LEMMA ResultFields ==
  ASSUME Requests, NEW s \in Slot, NEW op \in {"submit", "resolve"}, Calling(s, op, "result")
  PROVE  \E f \in DOMAIN fixtures : \E st, x :
           /\ jobs[s] = Deciding(op, f, Verdict(st, x))
           /\ op = "submit" => Supported(f, st, x, reported)
           /\ op = "resolve" => st = "confirmed"
<1>1. Served(jobs[s], DOMAIN fixtures, reported)
  BY DEF Requests
<1>2. jobs[s] # Nothing /\ jobs[s].op = op /\ jobs[s].next = "result"
  BY DEF Calling
<1>3. \/ \E f \in DOMAIN fixtures : \E st, x :
            jobs[s] = Deciding("submit", f, Verdict(st, x)) /\ Supported(f, st, x, reported)
      \/ \E f \in DOMAIN fixtures : \E x : jobs[s] = Deciding("resolve", f, Verdict("confirmed", x))
  BY <1>1, <1>2, OpeningFields, StartingFields, ReportingFields DEF Served
<1>4. CASE \E f \in DOMAIN fixtures : \E st, x :
            jobs[s] = Deciding("submit", f, Verdict(st, x)) /\ Supported(f, st, x, reported)
  BY <1>2, <1>4, DecidingFields
<1>5. CASE \E f \in DOMAIN fixtures : \E x :
            jobs[s] = Deciding("resolve", f, Verdict("confirmed", x))
  BY <1>2, <1>5, DecidingFields
<1> QED
  BY <1>3, <1>4, <1>5

\* A request stays served while fixtures and reports are only added.
LEMMA ServedStill ==
  ASSUME NEW call, NEW known, NEW said, NEW known2, NEW said2, known \subseteq known2,
         said \subseteq said2, Served(call, known, said)
  PROVE  Served(call, known2, said2)
<1>1. ASSUME NEW f, NEW st, NEW x, Supported(f, st, x, said)
      PROVE  Supported(f, st, x, said2)
  BY <1>1 DEF Supported
<1> QED
  BY <1>1 DEF Served

\* One slot changes, and the requests are all served.
LEMMA SlotServed ==
  ASSUME Requests, NEW s \in Slot, NEW c, jobs' = [jobs EXCEPT ![s] = c],
         DOMAIN fixtures \subseteq DOMAIN fixtures', reported \subseteq reported',
         Served(c, DOMAIN fixtures', reported')
  PROVE  Requests'
<1>1. DOMAIN jobs' = Slot /\ \A o \in Slot : jobs'[o] = IF o = s THEN c ELSE jobs[o]
  BY DEF Requests
<1>2. ASSUME NEW o \in Slot
      PROVE  Served(jobs'[o], DOMAIN fixtures', reported')
  <2>1. CASE o = s
    BY <1>1, <2>1
  <2>2. CASE o # s
    BY <1>1, <2>2, ServedStill DEF Requests
  <2> QED
    BY <2>1, <2>2
<1> QED
  BY <1>1, <1>2 DEF Requests, Slot

\* A fixture whose reports and status stay is handled still, unless the request
\* that was about to decide it has gone.
LEMMA HandledStill ==
  ASSUME Requests, NEW s \in Slot, NEW c, jobs' = [jobs EXCEPT ![s] = c],
         NEW f, Handled(f), submissions'[f] = submissions[f],
         fixtures'[f] = fixtures[f], died \subseteq died',
         AboutTo(jobs[s], f) => AboutTo(c, f)
  PROVE  Handled(f)'
<1>1. \A o \in Slot : jobs'[o] = IF o = s THEN c ELSE jobs[o]
  BY DEF Requests
<1>2. (\E o \in Slot : AboutTo(jobs[o], f)) => \E o \in Slot : AboutTo(jobs'[o], f)
  BY <1>1
<1> QED
  BY <1>2 DEF Handled, AboutTo, Slot

\* A request that touches neither fixtures nor reports keeps the invariant.
LEMMA RequestMoves ==
  ASSUME LeagueInv, NEW s \in Slot, NEW c, jobs' = [jobs EXCEPT ![s] = c],
         UNCHANGED <<fixtures, submissions, reported, ruled>>, died \subseteq died',
         Served(c, DOMAIN fixtures, reported),
         \A f \in DOMAIN fixtures : AboutTo(jobs[s], f) =>
           \/ AboutTo(c, f) \/ f \in died'
           \/ submissions[f].home = Nothing \/ submissions[f].away = Nothing
  PROVE  LeagueInv'
<1>1. Requests'
  BY SlotServed DEF LeagueInv
<1>2. ASSUME NEW f \in DOMAIN fixtures'
      PROVE  Handled(f)'
  <2>1. CASE AboutTo(jobs[s], f) => AboutTo(c, f)
    BY <2>1, HandledStill DEF LeagueInv, PendingIsHandled
  <2>2. CASE f \in died' \/ submissions[f].home = Nothing \/ submissions[f].away = Nothing
    BY <2>2 DEF Handled
  <2> QED
    BY <2>1, <2>2
<1> QED
  BY <1>1, <1>2 DEF LeagueInv, Rows, ScoreIsAgreed, PendingIsHandled

\* A free slot takes a request that is not about to decide anything.
LEMMA RequestAsked ==
  ASSUME LeagueInv, NEW s \in Slot, NEW c, Asked(s, c),
         UNCHANGED <<fixtures, submissions, reported, ruled, died>>,
         Served(c, DOMAIN fixtures, reported)
  PROVE  LeagueInv'
<1>1. \A f : ~AboutTo(jobs[s], f)
  BY DEF Asked, Free, AboutTo
<1> QED
  BY <1>1, RequestMoves DEF Asked

\* A request that is answered without having anything left to decide.
LEMMA RequestAnswered ==
  ASSUME LeagueInv, NEW s \in Slot, Answered(s),
         UNCHANGED <<fixtures, submissions, reported, ruled>>, died \subseteq died',
         \A f \in DOMAIN fixtures : AboutTo(jobs[s], f) => f \in died'
  PROVE  LeagueInv'
<1>1. Served(Nothing, DOMAIN fixtures, reported)
  BY DEF Served
<1> QED
  BY <1>1, RequestMoves DEF Answered

-----------------------------------------------------------------------------
(***************************************************************************)
(* Every call keeps the invariant.                                         *)
(***************************************************************************)
\* create(), join(), start(), submit() and resolve() come to a free slot.
LEMMA RequestsComeKeep ==
  ASSUME LeagueInv, NEW s \in Slot,
         \/ Create(s) \/ Start(s) \/ \E c \in Friend : Join(s, c)
         \/ \E f \in DOMAIN fixtures, x \in Result :
              Resolve(s, f, x) \/ \E side \in Side : Submit(s, f, side, x)
  PROVE  LeagueInv'
<1>1. CASE Create(s) \/ \E c \in Friend : Join(s, c)
  <2>0. PICK op \in {"create", "join"} : \E c :
          /\ Asked(s, Opening(op, c))
          /\ UNCHANGED <<fixtures, submissions, reported, ruled, died>>
    BY <1>1 DEF Create, Join, Opening
  <2>1. PICK c :
          /\ Asked(s, Opening(op, c))
          /\ UNCHANGED <<fixtures, submissions, reported, ruled, died>>
    BY <2>0
  <2>2. Served(Opening(op, c), DOMAIN fixtures, reported)
    BY DEF Served
  <2> QED
    BY <2>1, <2>2, RequestAsked
<1>2. CASE Start(s)
  <2>1. Asked(s, Listing) /\ UNCHANGED <<fixtures, submissions, reported, ruled, died>>
    BY <1>2 DEF Start, Listing
  <2>2. Served(Listing, DOMAIN fixtures, reported)
    BY DEF Served
  <2> QED
    BY <2>1, <2>2, RequestAsked
<1>3. ASSUME NEW f \in DOMAIN fixtures, NEW x \in Result, Resolve(s, f, x)
      PROVE  LeagueInv'
  <2>1. /\ Asked(s, Deciding("resolve", f, Verdict("confirmed", x)))
        /\ UNCHANGED <<fixtures, submissions, reported, ruled, died>>
    BY <1>3 DEF Resolve, Deciding, Verdict
  <2>2. Served(Deciding("resolve", f, Verdict("confirmed", x)), DOMAIN fixtures, reported)
    BY DEF Served
  <2> QED
    BY <2>1, <2>2, RequestAsked
<1>4. ASSUME NEW f \in DOMAIN fixtures, NEW x \in Result, NEW side \in Side, Submit(s, f, side, x)
      PROVE  LeagueInv'
  <2>1. /\ Asked(s, Reporting("report", f, side, x))
        /\ UNCHANGED <<fixtures, submissions, reported, ruled, died>>
    BY <1>4 DEF Submit, Reporting
  <2>2. Served(Reporting("report", f, side, x), DOMAIN fixtures, reported)
    BY DEF Served
  <2> QED
    BY <2>1, <2>2, RequestAsked
<1> QED
  BY <1>1, <1>2, <1>3, <1>4

\* Only a report that is written is about to decide.
LEMMA OthersDecideNothing ==
  ASSUME NEW s \in Slot, jobs[s].op # "submit" \/ jobs[s].next = "report", NEW f
  PROVE  ~AboutTo(jobs[s], f)
BY DEF AboutTo

\* Opening, joining and starting the league, but for its fixtures.
LEMMA LeagueOpensKeep ==
  ASSUME LeagueInv, NEW s \in Slot, AddMember(s) \/ ListMembers(s) \/ SetStatus(s)
  PROVE  LeagueInv'
<1>1. jobs[s].op # "submit"
  BY DEF AddMember, ListMembers, SetStatus, Calling
<1>2. UNCHANGED <<fixtures, submissions, reported, ruled, died>>
  BY DEF AddMember, ListMembers, SetStatus
<1>3. CASE Answered(s)
  BY <1>1, <1>2, <1>3, RequestAnswered, OthersDecideNothing
<1>4. CASE jobs' = [jobs EXCEPT ![s] = Starting("fixtures", RoundRobin(members))]
  <2>1. Served(Starting("fixtures", RoundRobin(members)), DOMAIN fixtures, reported)
    BY DEF Served
  <2> QED
    BY <1>1, <1>2, <1>4, <2>1, RequestMoves, OthersDecideNothing
<1> QED
  BY <1>3, <1>4 DEF AddMember, ListMembers, SetStatus, Starting

\* A request that dies leaves its fixture among those a report of which has died.
LEMMA DiesKeeps ==
  ASSUME LeagueInv, NEW s \in Slot, Dies(s)
  PROVE  LeagueInv'
<1>1. Answered(s) /\ UNCHANGED <<fixtures, submissions, reported, ruled>> /\ died \subseteq died'
  BY DEF Dies
<1>2. \A f : AboutTo(jobs[s], f) => f \in died'
  BY DEF Dies, AboutTo
<1> QED
  BY <1>1, <1>2, RequestAnswered

\* The fixtures are written: pending, and without a report.
LEMMA AddFixturesKeeps ==
  ASSUME LeagueInv, NEW s \in Slot, AddFixtures(s)
  PROVE  LeagueInv'
<1> DEFINE n == Cardinality(DOMAIN fixtures)
           rows == InSomeOrder(jobs[s].rows)
           id == (n + 1) .. (n + Len(rows))
<1>1. /\ DOMAIN fixtures' = DOMAIN fixtures \cup id
      /\ DOMAIN submissions' = DOMAIN fixtures'
      /\ \A f \in id : /\ fixtures'[f] = [home |-> rows[f - n].home, away |-> rows[f - n].away,
                                           status |-> "pending", score |-> Nothing]
                       /\ submissions'[f] = [home |-> Nothing, away |-> Nothing]
      /\ \A f \in DOMAIN fixtures \ id :
           fixtures'[f] = fixtures[f] /\ submissions'[f] = submissions[f]
  BY DEF AddFixtures
<1>2. UNCHANGED <<reported, ruled, died>> /\ jobs[s].op = "start" /\ jobs[s].next = "fixtures"
      /\ jobs' = [jobs EXCEPT ![s] = Further(@, "status")]
  BY DEF AddFixtures, Calling, Then
<1> HIDE DEF n, rows, id
<1>3. PICK old : jobs[s] = Starting("fixtures", old)
  <2>1. Served(jobs[s], DOMAIN fixtures, reported) /\ jobs[s] # Nothing
    BY DEF LeagueInv, Requests, AddFixtures, Calling
  <2> QED
    BY <1>2, <2>1, OpeningFields, StartingFields, ReportingFields, DecidingFields DEF Served
<1>4. jobs' = [jobs EXCEPT ![s] = Starting("status", old)]
  <2>1. Further(jobs[s], "status") = Starting("status", old)
    BY <1>3, FurtherCalls
  <2> QED
    BY <1>2, <2>1
<1>5. Requests'
  <2>1. Served(Starting("status", old), DOMAIN fixtures', reported')
    BY DEF Served
  <2> QED
    BY <1>1, <1>2, <1>4, <2>1, SlotServed DEF LeagueInv
<1>6. ASSUME NEW f \in DOMAIN fixtures'
      PROVE  /\ \E h, a, st, x : fixtures'[f] = [home |-> h, away |-> a, status |-> st, score |-> x]
             /\ \E h, a : /\ submissions'[f] = [home |-> h, away |-> a]
                         /\ OnRecord(h, f, "home", reported') /\ OnRecord(a, f, "away", reported')
             /\ Handled(f)'
             /\ fixtures'[f].status = "confirmed" =>
                   \/ \A side \in Side : <<f, side, fixtures'[f].score>> \in reported'
                   \/ <<f, fixtures'[f].score>> \in ruled'
  <2>1. CASE f \in id
    <3>1. PICK h, a :
            fixtures'[f] = [home |-> h, away |-> a, status |-> "pending", score |-> Nothing]
      BY <1>1, <2>1
    <3>2. submissions'[f] = [home |-> Nothing, away |-> Nothing]
      BY <1>1, <2>1
    <3>3. fixtures'[f].status = "pending" /\ submissions'[f].home = Nothing
      BY <3>1, <3>2
    <3>4. \A side : OnRecord(Nothing, f, side, reported')
      BY DEF OnRecord
    <3>5. Handled(f)'
      BY <3>3 DEF Handled
    <3> QED
      BY <3>1, <3>2, <3>3, <3>4, <3>5
  <2>2. CASE f \notin id
    <3>1. f \in DOMAIN fixtures /\ fixtures'[f] = fixtures[f] /\ submissions'[f] = submissions[f]
      BY <1>1, <2>2
    <3>2. Handled(f)'
      BY <1>2, <1>4, <3>1, HandledStill, OthersDecideNothing DEF LeagueInv, PendingIsHandled
    <3> QED
      BY <1>2, <3>1, <3>2 DEF LeagueInv, Rows, ScoreIsAgreed, Side
  <2> QED
    BY <2>1, <2>2
<1> QED
  BY <1>1, <1>5, <1>6 DEF LeagueInv, Rows, ScoreIsAgreed, PendingIsHandled, Side

\* A report is written: the side's, and it is about to decide.
LEMMA UpsertSubmissionKeeps ==
  ASSUME NothingIsNull, LeagueInv, NEW s \in Slot, UpsertSubmission(s)
  PROVE  LeagueInv'
<1>1. PICK f \in DOMAIN fixtures, side \in Side, x \in Result :
        jobs[s] = Reporting("report", f, side, x)
  BY ReportFields DEF LeagueInv, UpsertSubmission
<1>2. CASE Answered(s) /\ UNCHANGED <<submissions, reported>>
  BY <1>1, <1>2, RequestAnswered, OthersDecideNothing, ReportingFields DEF UpsertSubmission
<1>3. CASE /\ submissions' = [submissions EXCEPT ![f] = Upserted(@, side, x)]
           /\ reported' = reported \cup {<<f, side, x>>}
           /\ Then(s, "list")
  <2>1. UNCHANGED <<fixtures, ruled, died>>
    BY DEF UpsertSubmission
  <2>2. jobs' = [jobs EXCEPT ![s] = Reporting("list", f, side, x)]
    <3>1. Further(jobs[s], "list") = Reporting("list", f, side, x)
      BY <1>1, FurtherCalls
    <3> QED
      BY <1>3, <3>1 DEF Then
  <2>3. Requests'
    <3>1. Served(Reporting("list", f, side, x), DOMAIN fixtures', reported')
      BY <2>1 DEF Served
    <3> QED
      BY <1>3, <2>1, <2>2, <3>1, SlotServed DEF LeagueInv
  <2>4. \E h, a : /\ submissions'[f] = [home |-> h, away |-> a]
                  /\ OnRecord(h, f, "home", reported') /\ OnRecord(a, f, "away", reported')
    <3>1. PICK h, a : /\ submissions[f] = [home |-> h, away |-> a]
                      /\ OnRecord(h, f, "home", reported) /\ OnRecord(a, f, "away", reported)
      BY DEF LeagueInv, Rows
    <3>2. OnRecord(h, f, "home", reported') /\ OnRecord(a, f, "away", reported')
          /\ OnRecord(x, f, side, reported')
      BY <1>3, <3>1 DEF OnRecord
    <3>3. submissions'[f] = Upserted(submissions[f], side, x)
      BY <1>3 DEF LeagueInv, Rows
    <3>4. CASE side = "home"
      <4>1. submissions'[f] = [home |-> x, away |-> a]
        BY <3>1, <3>3, <3>4 DEF Upserted
      <4> QED
        BY <3>2, <3>4, <4>1
    <3>5. CASE side = "away"
      <4>1. submissions'[f] = [home |-> h, away |-> x]
        BY <3>1, <3>3, <3>5 DEF Upserted
      <4> QED
        BY <3>2, <3>5, <4>1
    <3> QED
      BY <3>4, <3>5 DEF Side
  <2>5. Rows'
    <3>1. ASSUME NEW g \in DOMAIN submissions', g # f
          PROVE  \E h, a : /\ submissions'[g] = [home |-> h, away |-> a]
                          /\ OnRecord(h, g, "home", reported') /\ OnRecord(a, g, "away", reported')
      <4>1. g \in DOMAIN submissions /\ submissions'[g] = submissions[g]
        BY <1>3, <3>1
      <4> QED
        BY <1>3, <4>1 DEF LeagueInv, Rows, OnRecord
    <3>2. DOMAIN submissions' = DOMAIN fixtures'
      BY <1>3, <2>1 DEF LeagueInv, Rows
    <3> QED
      BY <2>1, <2>4, <3>1, <3>2 DEF LeagueInv, Rows
  <2>6. PendingIsHandled'
    <3>1. AboutTo(Reporting("list", f, side, x), f)
      BY ReportingFields DEF AboutTo, NothingIsNull
    <3>2. jobs'[s] = Reporting("list", f, side, x)
      BY <2>2 DEF LeagueInv, Requests
    <3>3. Handled(f)'
      BY <3>1, <3>2 DEF Handled, AboutTo, Slot
    <3>4. ASSUME NEW g \in DOMAIN fixtures', g # f
          PROVE  Handled(g)'
      <4>1. submissions'[g] = submissions[g] /\ fixtures'[g] = fixtures[g]
        BY <1>3, <2>1, <3>4 DEF LeagueInv, Rows
      <4>2. ~AboutTo(jobs[s], g)
        BY <1>1, ReportingFields, OthersDecideNothing
      <4> QED
        BY <2>1, <2>2, <4>1, <4>2, HandledStill DEF LeagueInv, PendingIsHandled
    <3> QED
      BY <3>3, <3>4 DEF PendingIsHandled
  <2>7. ScoreIsAgreed'
    BY <1>3, <2>1 DEF LeagueInv, ScoreIsAgreed
  <2> QED
    BY <2>3, <2>5, <2>6, <2>7 DEF LeagueInv
<1> QED
  BY <1>1, <1>2, <1>3, ReportingFields DEF UpsertSubmission

\* Both reports are read, and decide if both are there.
LEMMA ListSubmissionsKeeps ==
  ASSUME NothingIsNull, LeagueInv, NEW s \in Slot, ListSubmissions(s)
  PROVE  LeagueInv'
<1>1. PICK f \in DOMAIN fixtures, side \in Side, y \in Result :
        jobs[s] = Reporting("list", f, side, y)
  BY ReportFields DEF LeagueInv, ListSubmissions
<1>2. PICK h, a : /\ submissions[f] = [home |-> h, away |-> a]
                  /\ OnRecord(h, f, "home", reported) /\ OnRecord(a, f, "away", reported)
  BY DEF LeagueInv, Rows
<1>3. jobs[s].fixture = f /\ submissions[f].home = h /\ submissions[f].away = a
  BY <1>1, <1>2, ReportingFields
<1>4. UNCHANGED <<fixtures, submissions, reported, ruled, died>>
  BY DEF ListSubmissions
<1>5. ASSUME NEW g \in DOMAIN fixtures, AboutTo(jobs[s], g)
      PROVE  g = f
  BY <1>3, <1>5 DEF AboutTo
<1>6. CASE h = Nothing \/ a = Nothing
  <2>1. Answered(s)
    BY <1>3, <1>6 DEF ListSubmissions
  <2>2. Served(Nothing, DOMAIN fixtures, reported)
    BY DEF Served
  <2> QED
    BY <1>3, <1>4, <1>5, <1>6, <2>1, <2>2, RequestMoves DEF Answered
<1>7. CASE h # Nothing /\ a # Nothing
  <2>1. \E st, x : Written(h, a) = Verdict(st, x) /\ Supported(f, st, x, reported)
    <3>1. CASE h = a
      <4>1. Supported(f, "confirmed", h, reported)
        BY <1>2, <1>7, <3>1 DEF Supported, OnRecord, Side
      <4>2. Written(h, a) = Verdict("confirmed", h)
        BY <3>1 DEF Written, SameScore, Verdict
      <4> QED
        BY <4>1, <4>2
    <3>2. CASE h # a
      <4>1. Supported(f, "disputed", Nothing, reported)
        BY DEF Supported
      <4>2. Written(h, a) = Verdict("disputed", Nothing)
        BY <3>2 DEF Written, SameScore, Verdict
      <4> QED
        BY <4>1, <4>2
    <3> QED
      BY <3>1, <3>2
  <2>2. PICK st, x : Written(h, a) = Verdict(st, x) /\ Supported(f, st, x, reported)
    BY <2>1
  <2> DEFINE c == Deciding("submit", f, Verdict(st, x))
  <2>3. jobs' = [jobs EXCEPT ![s] = c]
    BY <1>3, <1>7, <2>2 DEF ListSubmissions, Deciding, NothingIsNull
  <2>4. Served(c, DOMAIN fixtures, reported)
    BY <2>2 DEF Served
  <2>5. AboutTo(c, f)
    BY DecidingFields DEF AboutTo, NothingIsNull
  <2> HIDE DEF c
  <2> QED
    BY <1>4, <1>5, <2>3, <2>4, <2>5, RequestMoves
<1> QED
  BY <1>6, <1>7

\* A decided fixture has the status and the score that are written.
LEMMA DecidedFields ==
  ASSUME NEW h, NEW a, NEW st, NEW x, NEW st2, NEW x2
  PROVE  Decided([home |-> h, away |-> a, status |-> st, score |-> x], Verdict(st2, x2))
           = [home |-> h, away |-> a, status |-> st2, score |-> x2]
<1> DEFINE r == [home |-> h, away |-> a, status |-> st, score |-> x]
           w == Verdict(st2, x2)
<1>1. [r EXCEPT !.status = st2] = [home |-> h, away |-> a, status |-> st2, score |-> x]
  OBVIOUS
<1> DEFINE v == [r EXCEPT !.status = st2]
<1> v = [home |-> h, away |-> a, status |-> st2, score |-> x]
  BY <1>1
<1>2. w.status = st2 /\ w.score = x2
  BY DEF Verdict
<1> HIDE DEF r, w
<1>3. Decided(r, w) = [v EXCEPT !.score = x2]
  BY <1>2, Zenon DEF Decided
<1> HIDE DEF v
<1>4. [v EXCEPT !.score = x2] = [home |-> h, away |-> a, status |-> st2, score |-> x2]
  OBVIOUS
<1> QED
  BY <1>3, <1>4 DEF r, w

\* A verdict is written: of both sides' reports, or the creator's.
LEMMA SetFixtureResultKeeps ==
  ASSUME LeagueInv, NEW s \in Slot, SetFixtureResult(s)
  PROVE  LeagueInv'
<1>0. PICK op \in {"submit", "resolve"} : \E f \in DOMAIN fixtures : \E st, x :
        /\ jobs[s] = Deciding(op, f, Verdict(st, x))
        /\ op = "submit" => Supported(f, st, x, reported)
        /\ op = "resolve" => st = "confirmed"
  BY ResultFields DEF LeagueInv, SetFixtureResult
<1> PICK f \in DOMAIN fixtures : \E st, x :
        /\ jobs[s] = Deciding(op, f, Verdict(st, x))
        /\ op = "submit" => Supported(f, st, x, reported)
        /\ op = "resolve" => st = "confirmed"
  BY <1>0
<1>1. PICK st, x :
        /\ jobs[s] = Deciding(op, f, Verdict(st, x))
        /\ op = "submit" => Supported(f, st, x, reported)
        /\ op = "resolve" => st = "confirmed"
  OBVIOUS
<1>2. jobs[s].op = op /\ jobs[s].fixture = f /\ jobs[s].write = Verdict(st, x)
  BY <1>1, DecidingFields
<1>3. /\ fixtures' = [fixtures EXCEPT ![f] = Decided(@, Verdict(st, x))]
      /\ ruled' = IF op = "resolve" THEN ruled \cup {<<f, Verdict(st, x).score>>} ELSE ruled
      /\ Answered(s) /\ UNCHANGED <<submissions, reported, died>>
  BY <1>2 DEF SetFixtureResult
<1>4. Verdict(st, x).score = x
  BY DEF Verdict
<1>5. PICK h, a, st0, x0 : fixtures[f] = [home |-> h, away |-> a, status |-> st0, score |-> x0]
  BY DEF LeagueInv, Rows
<1>6. fixtures'[f] = [home |-> h, away |-> a, status |-> st, score |-> x]
  BY <1>3, <1>5, DecidedFields
<1>7. DOMAIN fixtures' = DOMAIN fixtures
      /\ \A g \in DOMAIN fixtures : g # f => fixtures'[g] = fixtures[g]
  BY <1>3
<1>8. st \in {"confirmed", "disputed"}
  BY <1>1 DEF Supported
<1>9. Requests'
  <2>1. Served(Nothing, DOMAIN fixtures', reported')
    BY DEF Served
  <2> QED
    BY <1>3, <1>7, <2>1, SlotServed DEF LeagueInv, Answered
<1>10. Rows'
  <2>1. ASSUME NEW g \in DOMAIN fixtures'
        PROVE  \E h1, a1, st1, x1 :
                 fixtures'[g] = [home |-> h1, away |-> a1, status |-> st1, score |-> x1]
    <3>1. CASE g = f
      BY <1>6, <3>1
    <3>2. CASE g # f
      BY <1>7, <3>2 DEF LeagueInv, Rows
    <3> QED
      BY <3>1, <3>2
  <2> QED
    BY <1>3, <1>7, <2>1 DEF LeagueInv, Rows
<1>11. ScoreIsAgreed'
  <2>1. CASE op = "submit"
    BY <1>1, <1>3, <1>6, <1>7, <2>1 DEF LeagueInv, ScoreIsAgreed, Supported, Side
  <2>2. CASE op = "resolve"
    BY <1>3, <1>4, <1>6, <1>7, <2>2 DEF LeagueInv, ScoreIsAgreed
  <2> QED
    BY <2>1, <2>2
<1>12. ASSUME NEW g \in DOMAIN fixtures'
       PROVE  Handled(g)'
  <2>1. CASE g = f
    BY <1>6, <1>8, <2>1 DEF Handled
  <2>2. CASE g # f
    <3>1. ~AboutTo(jobs[s], g)
      BY <1>2, <2>2 DEF AboutTo
    <3> QED
      BY <1>3, <1>7, <2>2, <3>1, HandledStill DEF LeagueInv, PendingIsHandled, Answered
  <2> QED
    BY <2>1, <2>2
<1> QED
  BY <1>9, <1>10, <1>11, <1>12 DEF LeagueInv, PendingIsHandled

-----------------------------------------------------------------------------
(***************************************************************************)
(* The theorems.                                                           *)
(***************************************************************************)
\* The invariant holds of every behaviour.
THEOREM LeagueInvHolds ==
  ASSUME NothingIsNull
  PROVE  LeagueSpec => []LeagueInv
<1>1. ASSUME LeagueInit
      PROVE  LeagueInv
  BY <1>1 DEF LeagueInit, LeagueInv, Rows, Requests, Served, ScoreIsAgreed, PendingIsHandled
<1>2. ASSUME LeagueInv, [LeagueNext]_leagueVars
      PROVE  LeagueInv'
  <2>1. CASE UNCHANGED leagueVars
    <3>1. UNCHANGED <<fixtures, submissions, jobs, reported, ruled, died>>
      BY <2>1 DEF leagueVars
    <3> QED
      BY <1>2, <3>1 DEF LeagueInv, Rows, Requests, Slot, ScoreIsAgreed, PendingIsHandled,
        Handled, AboutTo
  <2>2. CASE LeagueNext
    <3>1. PICK s \in Slot :
            \/ Create(s) \/ \E c \in Friend : Join(s, c)
            \/ AddMember(s) \/ Start(s) \/ ListMembers(s) \/ AddFixtures(s) \/ SetStatus(s)
            \/ \E f \in Watched \cap DOMAIN fixtures, x \in Result :
                 Resolve(s, f, x) \/ \E side \in {"home", "away"} : Submit(s, f, side, x)
            \/ UpsertSubmission(s) \/ ListSubmissions(s) \/ SetFixtureResult(s) \/ Dies(s)
      BY <2>2 DEF LeagueNext
    <3>2. CASE \/ Create(s) \/ Start(s) \/ \E c \in Friend : Join(s, c)
               \/ \E f \in Watched \cap DOMAIN fixtures, x \in Result :
                    Resolve(s, f, x) \/ \E side \in {"home", "away"} : Submit(s, f, side, x)
      BY <1>2, <3>2, RequestsComeKeep DEF Side
    <3> QED
      BY <1>2, <3>1, <3>2, LeagueOpensKeep, AddFixturesKeeps, UpsertSubmissionKeeps,
        ListSubmissionsKeeps, SetFixtureResultKeeps, DiesKeeps
  <2> QED
    BY <1>2, <2>1, <2>2
<1> QED
  BY <1>1, <1>2, PTL DEF LeagueSpec

\* A score that counts is one both sides have reported or the creator has ruled;
\* and of two reports that cross, one sees both: a fixture is not left pending.
THEOREM ReportsDecideHolds ==
  ASSUME NothingIsNull
  PROVE  LeagueSpec => []ReportsDecide
<1>1. ASSUME LeagueInv
      PROVE  ReportsDecide
  <2>1. ASSUME NEW f \in DOMAIN fixtures,
               Nothing \notin {submissions[f].home, submissions[f].away}, f \notin died,
               \A s \in Slot : jobs[s] = Nothing \/ jobs[s].op # "submit" \/ jobs[s].fixture # f
        PROVE  fixtures[f].status # "pending"
    BY <1>1, <2>1 DEF LeagueInv, PendingIsHandled, Handled, AboutTo
  <2> QED
    BY <1>1, <2>1 DEF LeagueInv, ReportsDecide, BothReportedDecides
<1> QED
  BY <1>1, LeagueInvHolds, PTL

-----------------------------------------------------------------------------
(***************************************************************************)
(* A room.  Its record is never overfull, nor is any copy of it that a     *)
(* removeMember() has read and will write back.                            *)
(***************************************************************************)
Seated(people) == IsFiniteSet(people) /\ Cardinality(people) <= MaxMembers

RoomInv ==
  /\ DOMAIN task = Job /\ DOMAIN read = Job
  /\ record # Nil => Seated(record)
  /\ \A j \in Job : task[j] = "write" => Seated(read[j])

\* One member more, if there is a free seat, and one less.
LEMMA SeatsTaken ==
  ASSUME MaxMembers \in Nat, NEW people, NEW c, Seated(people)
  PROVE  /\ FreeSeat(people) \/ c \in people => Seated(people \cup {c})
         /\ Seated(Without(people, c))
<1>1. IsFiniteSet(people) /\ Cardinality(people) \in Nat /\ Cardinality(people) <= MaxMembers
  BY FS_CardinalityType DEF Seated
<1>2. ASSUME FreeSeat(people) \/ c \in people
      PROVE  Seated(people \cup {c})
  <2>1. /\ IsFiniteSet(people \cup {c})
        /\ Cardinality(people \cup {c}) =
              IF c \in people THEN Cardinality(people) ELSE Cardinality(people) + 1
    BY <1>1, FS_AddElement
  <2> QED
    BY <1>1, <1>2, <2>1 DEF FreeSeat, Seated
<1>3. /\ IsFiniteSet(people \ {c})
      /\ Cardinality(people \ {c}) =
            IF c \in people THEN Cardinality(people) - 1 ELSE Cardinality(people)
  BY <1>1, FS_RemoveElement
<1> QED
  BY <1>1, <1>2, <1>3 DEF Seated, Without

\* A room is created with one member.
LEMMA OneIsSeated ==
  ASSUME MaxMembers \in Nat \ {0}, NEW c
  PROVE  Seated({c})
<1>1. IsFiniteSet({c}) /\ Cardinality({c}) = 1
  BY FS_Singleton
<1>2. 1 <= MaxMembers
  OBVIOUS
<1> QED
  BY <1>1, <1>2 DEF Seated

\* Every handler keeps it.
LEMMA RoomInvKept ==
  ASSUME MaxMembers \in Nat \ {0}, RoomInv, [NodeNext]_nodeVars
  PROVE  RoomInv'
<1>1. ASSUME NEW s \in Sock, Connect(s) \/ Message(s) \/ Close(s)
      PROVE  RoomInv'
  <2>1. UNCHANGED <<record, read>>
    BY <1>1 DEF Connect, Message, Close
  <2>2. \/ UNCHANGED task
        \/ \E o \in Job, what \in {"create", "join", "leave"} : Turns(o, what)
    BY <1>1 DEF Connect, Message, Close, Job
  <2> QED
    BY <2>1, <2>2 DEF RoomInv, Turns, Job, Sock
<1>2. ASSUME NEW j \in Job, CreateRoom(j)
      PROVE  RoomInv'
  <2>1. Seated({Who(j)})
    BY OneIsSeated
  <2>2. record' = record \/ record' = {Who(j)}
    BY <1>2 DEF CreateRoom
  <2>3. UNCHANGED read /\ \E what \in {"none", "bind"} : Turns(j, what)
    BY <1>2 DEF CreateRoom
  <2> QED
    BY <2>1, <2>2, <2>3 DEF RoomInv, Turns, Job, Sock, Seated
<1>3. ASSUME NEW j \in Job, AddRoomMember(j)
      PROVE  RoomInv'
  <2>1. UNCHANGED read /\ \E what \in {"none", "bind"} : Turns(j, what)
    BY <1>3 DEF AddRoomMember
  <2>2. \/ record' = record
        \/ /\ record # Nil /\ (Who(j) \in record \/ FreeSeat(record))
           /\ record' = record \cup {Who(j)}
    BY <1>3 DEF AddRoomMember
  <2>3. record' # Nil => Seated(record')
    BY <2>2, SeatsTaken DEF RoomInv
  <2> QED
    BY <2>1, <2>3 DEF RoomInv, Turns, Job, Sock, Seated
<1>4. ASSUME NEW j \in Job, Bind(j)
      PROVE  RoomInv'
  BY <1>4 DEF Bind, RoomInv, Turns, Job, Sock, Seated
<1>5. ASSUME NEW j \in Job, ReadRecord(j)
      PROVE  RoomInv'
  <2>1. UNCHANGED record
    BY <1>5 DEF ReadRecord
  <2>2. CASE Turns(j, "none") /\ UNCHANGED read
    BY <2>1, <2>2 DEF RoomInv, Turns, Job, Sock, Seated
  <2>3. CASE record # Nil /\ Turns(j, "write") /\ read' = [read EXCEPT ![j] = record]
    BY <2>1, <2>3 DEF RoomInv, Turns, Job, Sock, Seated
  <2> QED
    BY <1>5, <2>2, <2>3 DEF ReadRecord
<1>6. ASSUME NEW j \in Job, WriteRecord(j)
      PROVE  RoomInv'
  <2>1. Seated(Without(read[j], Who(j)))
    BY <1>6, SeatsTaken DEF WriteRecord, Doing, RoomInv
  <2>2. record' \in {Nil, Without(read[j], Who(j))}
    BY <1>6 DEF WriteRecord
  <2>3. Turns(j, "none") /\ read' = [read EXCEPT ![j] = Nil]
    BY <1>6 DEF WriteRecord
  <2> QED
    BY <2>1, <2>2, <2>3 DEF RoomInv, Turns, Job, Sock, Seated
<1>7. CASE Expire
  BY <1>7 DEF Expire, RoomInv, Job, Sock, Seated
<1>8. CASE UNCHANGED nodeVars
  BY <1>8 DEF nodeVars, RoomInv, Job, Sock, Seated
<1> QED
  BY <1>1, <1>2, <1>3, <1>4, <1>5, <1>6, <1>7, <1>8 DEF NodeNext

\* However joins, departures that write back a record read earlier, and expiry
\* overlap, a room never has more members than it has seats.
THEOREM NeverOverfullHolds ==
  ASSUME MaxMembers \in Nat \ {0}
  PROVE  NodeSpec => []NeverOverfull
<1>1. NodeInit => RoomInv
  BY DEF NodeInit, RoomInv
<1>2. RoomInv /\ [NodeNext]_nodeVars => RoomInv'
  BY RoomInvKept
<1>3. RoomInv => NeverOverfull
  BY DEF RoomInv, NeverOverfull, Seated
<1> QED
  BY <1>1, <1>2, <1>3, PTL DEF NodeSpec

-----------------------------------------------------------------------------
\* Some number of a set of numbers is the least.
LEMMA LeastOf ==
  ASSUME NEW I, I \subseteq Nat, I # {}
  PROVE  \E x \in I : \A y \in I : ~(y < x)
<1>1. \E x \in I : \A y \in I : <<y, x>> \notin OpToRel(<, Nat)
  BY WFMin, NatLessThanWellFounded
<1>2. \A x, y \in Nat : y < x => <<y, x>> \in OpToRel(<, Nat)
  BY DEF OpToRel
<1> QED
  BY <1>1, <1>2

(***************************************************************************)
(* The schedule.  N is the number of places of a ring, H those of a half;  *)
(* ids is the ring of the first round.                                     *)
(***************************************************************************)
\* Whose place p is in round r, and where x is then: places of the first round.
WhoIs(N, r, p) == IF p = 1 THEN 1 ELSE IF p > r THEN p - r + 1 ELSE p - r + N
PlaceOf(N, r, x) == IF x = 1 THEN 1 ELSE IF x + r - 1 <= N THEN x + r - 1 ELSE x + r - N

\* Turning a ring moves everybody but the first on by one.
LEMMA TurnedIs ==
  ASSUME NEW S, NEW ring \in Seq(S), NEW N \in Nat, Len(ring) = N, N >= 2
  PROVE  Turned(ring) = [p \in 1 .. N |-> IF p = 1 THEN ring[1]
                                          ELSE IF p = 2 THEN ring[N] ELSE ring[p - 1]]
<1> DEFINE s == <<ring[1], ring[N]>>
           t == SubSeq(ring, 2, N - 1)
<1>1. \A i \in 1 .. N : ring[i] \in S
  BY ElementOfSeq
<1>2. s \in Seq(S) /\ Len(s) = 2 /\ s[1] = ring[1] /\ s[2] = ring[N]
  BY <1>1
<1>3. t \in Seq(S) /\ Len(t) = N - 2 /\ \A i \in 1 .. N - 2 : t[i] = ring[i + 1]
  <2>1. \A i \in 2 .. N - 1 : ring[i] \in S
    BY <1>1
  <2>2. /\ t \in Seq(S)
        /\ Len(t) = IF 2 <= N - 1 THEN N - 1 - 2 + 1 ELSE 0
        /\ \A i \in 1 .. N - 1 - 2 + 1 : t[i] = ring[2 + i - 1]
    BY <2>1, SubSeqProperties
  <2> QED
    BY <2>2
<1>4. Turned(ring) = s \o t
  BY DEF Turned
<1> HIDE DEF s, t
<1>5. /\ s \o t \in Seq(S) /\ Len(s \o t) = N
      /\ \A i \in 1 .. N : (s \o t)[i] = IF i <= 2 THEN s[i] ELSE t[i - 2]
  <2>1. /\ s \o t \in Seq(S) /\ Len(s \o t) = Len(s) + Len(t)
        /\ \A i \in 1 .. Len(s) + Len(t) :
             (s \o t)[i] = IF i <= Len(s) THEN s[i] ELSE t[i - Len(s)]
    BY <1>2, <1>3, ConcatProperties
  <2>2. Len(s) + Len(t) = N
    BY <1>2, <1>3
  <2> QED
    BY <1>2, <2>1, <2>2
<1>6. s \o t = [i \in 1 .. N |-> (s \o t)[i]]
  BY <1>5, LenProperties
<1>7. \A i \in 1 .. N : (s \o t)[i] = IF i = 1 THEN ring[1]
                                      ELSE IF i = 2 THEN ring[N] ELSE ring[i - 1]
  <2> SUFFICES ASSUME NEW i \in 1 .. N
               PROVE  (s \o t)[i] = IF i = 1 THEN ring[1]
                                      ELSE IF i = 2 THEN ring[N] ELSE ring[i - 1]
    OBVIOUS
  <2>1. i \in Int /\ i >= 1 /\ i =< N
    OBVIOUS
  <2>2. CASE i = 1
    BY <1>2, <1>5, <2>2
  <2>3. CASE i = 2
    BY <1>2, <1>5, <2>3
  <2>4. CASE i > 2
    <3>1. i - 2 \in 1 .. N - 2 /\ (i - 2) + 1 = i - 1
      BY <2>4
    <3>2. (s \o t)[i] = t[i - 2]
      BY <1>5, <2>4
    <3>3. t[i - 2] = ring[i - 1]
      BY <1>3, <3>1
    <3> QED
      BY <2>1, <2>4, <3>2, <3>3
  <2>5. i = 1 \/ i = 2 \/ i > 2
    BY <2>1
  <2> QED
    BY <2>2, <2>3, <2>4, <2>5, Zenon
<1> QED
  BY <1>4, <1>6, <1>7

\* The ring of round r, from the first one.
RingIs(ids, r) == [p \in 1 .. Len(ids) |-> ids[WhoIs(Len(ids), r, p)]]

\* From one round to the next it is turned.
LEMMA RingTurns ==
  ASSUME NEW S, NEW ids \in Seq(S), Len(ids) >= 2, NEW r \in 2 .. Len(ids)
  PROVE  RingIs(ids, r) = Turned(RingIs(ids, r - 1))
<1> DEFINE N == Len(ids)
           old == RingIs(ids, r - 1)
<1>1. N \in Nat /\ \A i \in 1 .. N : ids[i] \in S
  BY ElementOfSeq, LenProperties
<1>2. \A p \in 1 .. N : WhoIs(N, r - 1, p) \in 1 .. N /\ WhoIs(N, r, p) \in 1 .. N
  BY <1>1 DEF WhoIs
<1>3. old \in [1 .. N -> S] /\ \A p \in 1 .. N : old[p] = ids[WhoIs(N, r - 1, p)]
  BY <1>1, <1>2 DEF RingIs
<1>4. old \in Seq(S) /\ Len(old) = N
  BY <1>1, <1>3, SeqDef
<1>5. Turned(old) = [p \in 1 .. N |-> IF p = 1 THEN old[1]
                                      ELSE IF p = 2 THEN old[N] ELSE old[p - 1]]
  <2> HIDE DEF old
  <2> QED
    BY <1>1, <1>4, TurnedIs
<1>6. ASSUME NEW p \in 1 .. N
      PROVE  ids[WhoIs(N, r, p)] = IF p = 1 THEN old[1] ELSE IF p = 2 THEN old[N] ELSE old[p - 1]
  <2>1. CASE p = 1
    BY <1>1, <1>3, <2>1 DEF WhoIs
  <2>2. CASE p = 2
    <3>1. WhoIs(N, r, 2) = WhoIs(N, r - 1, N)
      BY <1>1 DEF WhoIs
    <3> QED
      BY <1>1, <1>3, <2>2, <3>1
  <2>3. CASE p > 2
    <3>1. WhoIs(N, r, p) = WhoIs(N, r - 1, p - 1) /\ p - 1 \in 1 .. N
      BY <1>1, <2>3 DEF WhoIs
    <3> QED
      BY <1>1, <1>3, <2>3, <3>1
  <2> QED
    BY <1>1, <2>1, <2>2, <2>3
<1> HIDE DEF old
<1>7. [p \in 1 .. N |-> ids[WhoIs(N, r, p)]] = Turned(old)
  BY <1>5, <1>6
<1> QED
  BY <1>7 DEF old, RingIs

\* Ring() is that of the code: each round the ring of the round before, turned.
LEMMA RingRounds ==
  ASSUME NEW S, NEW ids \in Seq(S), Len(ids) >= 2
  PROVE  \A r \in 1 .. Len(ids) : Ring(ids)[r] = RingIs(ids, r)
<1> DEFINE N == Len(ids)
           all == [r \in 1 .. N |-> RingIs(ids, r)]
           Rounds(f) == f = [r \in 1 .. N |-> IF r = 1 THEN ids ELSE Turned(f[r - 1])]
<1>1. N \in Nat
  BY LenProperties
<1>2. RingIs(ids, 1) = ids
  <2>1. \A p \in 1 .. N : WhoIs(N, 1, p) = p
    BY <1>1 DEF WhoIs
  <2>2. ids = [p \in 1 .. N |-> ids[p]]
    BY LenProperties
  <2> QED
    BY <2>1, <2>2 DEF RingIs
<1>3. Rounds(all)
  <2>1. \A r \in 2 .. N : r - 1 \in 1 .. N /\ RingIs(ids, r) = Turned(RingIs(ids, r - 1))
    BY <1>1, RingTurns
  <2> QED
    BY <1>1, <1>2, <2>1
<1>4. Rounds(Ring(ids))
  <2>1. Ring(ids) = CHOOSE f : Rounds(f)
    BY DEF Ring
  <2> HIDE DEF Rounds, all
  <2> QED
    BY <1>3, <2>1
<1> DEFINE Wrong == {r \in 1 .. N : Ring(ids)[r] # RingIs(ids, r)}
<1>5. ASSUME Wrong # {} PROVE FALSE
  <2>1. PICK r \in Wrong : \A o \in Wrong : ~(o < r)
    <3>1. Wrong \subseteq Nat
      BY <1>1
    <3> HIDE DEF Wrong
    <3> QED
      BY <1>5, <3>1, LeastOf
  <2>2. Ring(ids)[r] = IF r = 1 THEN ids ELSE Turned(Ring(ids)[r - 1])
    BY <1>4
  <2>3. CASE r = 1
    BY <1>2, <2>1, <2>2, <2>3
  <2>4. CASE r # 1
    <3>1. r \in 2 .. N /\ r - 1 \in 1 .. N /\ r - 1 < r
      BY <1>1, <2>1, <2>4
    <3>2. Ring(ids)[r - 1] = RingIs(ids, r - 1)
      BY <2>1, <3>1
    <3> QED
      BY <2>1, <2>2, <2>4, <3>1, <3>2, RingTurns
  <2> QED
    BY <2>3, <2>4
<1> QED
  BY <1>5

\* WhoIs() and PlaceOf() are each other's inverses.
LEMMA Placed ==
  ASSUME NEW N \in Nat, N >= 2, NEW r \in 1 .. N - 1
  PROVE  /\ \A p \in 1 .. N : WhoIs(N, r, p) \in 1 .. N
         /\ \A x \in 1 .. N : PlaceOf(N, r, x) \in 1 .. N
         /\ \A x, p \in 1 .. N : WhoIs(N, r, p) = x <=> PlaceOf(N, r, x) = p
BY DEF WhoIs, PlaceOf

\* Two are opposite each other in no more than one round.
LEMMA MeetOnce ==
  ASSUME NEW H \in Nat, H >= 1, NEW x \in 1 .. 2 * H, NEW y \in 1 .. 2 * H, x # y,
         NEW r \in 1 .. 2 * H - 1, NEW s \in 1 .. 2 * H - 1,
         PlaceOf(2 * H, r, x) + PlaceOf(2 * H, r, y) = 2 * H + 1,
         PlaceOf(2 * H, s, x) + PlaceOf(2 * H, s, y) = 2 * H + 1
  PROVE  r = s
BY DEF PlaceOf

\* Two are opposite each other in some round.
LEMMA Meet ==
  ASSUME NEW H \in Nat, H >= 1, NEW x \in 1 .. 2 * H, NEW y \in 1 .. 2 * H, x # y
  PROVE  \E r \in 1 .. 2 * H - 1 : PlaceOf(2 * H, r, x) + PlaceOf(2 * H, r, y) = 2 * H + 1
<1>1. CASE x = 1
  <2> DEFINE r == 2 * H + 1 - y
  <2>1. r \in 1 .. 2 * H - 1 /\ PlaceOf(2 * H, r, x) + PlaceOf(2 * H, r, y) = 2 * H + 1
    BY <1>1 DEF PlaceOf
  <2> QED
    BY <2>1
<1>2. CASE y = 1
  <2> DEFINE r == 2 * H + 1 - x
  <2>1. r \in 1 .. 2 * H - 1 /\ PlaceOf(2 * H, r, x) + PlaceOf(2 * H, r, y) = 2 * H + 1
    BY <1>2 DEF PlaceOf
  <2> QED
    BY <2>1
<1>3. CASE x # 1 /\ y # 1
  <2>1. PICK k \in Nat : x + y = 2 * k \/ x + y = 2 * k + 1
    <3> DEFINE k == (x + y) \div 2
    <3>1. k \in Nat /\ (x + y = 2 * k \/ x + y = 2 * k + 1)
      OBVIOUS
    <3> QED
      BY <3>1
  <2>2. CASE x + y = 2 * k
    <3> DEFINE r == 2 * H + 1 - k
    <3>1. r \in 1 .. 2 * H - 1 /\ PlaceOf(2 * H, r, x) + PlaceOf(2 * H, r, y) = 2 * H + 1
      BY <1>3, <2>2 DEF PlaceOf
    <3> QED
      BY <3>1
  <2>3. CASE x + y = 2 * k + 1 /\ k =< H
    <3> DEFINE r == H + 1 - k
    <3>1. r \in 1 .. 2 * H - 1 /\ PlaceOf(2 * H, r, x) + PlaceOf(2 * H, r, y) = 2 * H + 1
      BY <1>3, <2>3 DEF PlaceOf
    <3> QED
      BY <3>1
  <2>4. CASE x + y = 2 * k + 1 /\ k > H
    <3> DEFINE r == 3 * H - k
    <3>1. r \in 1 .. 2 * H - 1 /\ PlaceOf(2 * H, r, x) + PlaceOf(2 * H, r, y) = 2 * H + 1
      BY <1>3, <2>4 DEF PlaceOf
    <3> QED
      BY <3>1
  <2> QED
    BY <2>1, <2>2, <2>3, <2>4
<1> QED
  BY <1>1, <1>2, <1>3

\* Everybody is away in some round, and not against the last of the first ring, the bye.
LEMMA AwayOnce ==
  ASSUME NEW H \in Nat, H >= 2, NEW c \in 1 .. 2 * H
  PROVE  \E r \in 1 .. 2 * H - 1 :
           /\ \/ r % 2 = 1 /\ PlaceOf(2 * H, r, c) > H
              \/ r % 2 = 0 /\ PlaceOf(2 * H, r, c) =< H
           /\ PlaceOf(2 * H, r, c) + PlaceOf(2 * H, r, 2 * H) # 2 * H + 1
<1> DEFINE Away(r) ==
      /\ \/ r % 2 = 1 /\ PlaceOf(2 * H, r, c) > H
         \/ r % 2 = 0 /\ PlaceOf(2 * H, r, c) =< H
      /\ PlaceOf(2 * H, r, c) + PlaceOf(2 * H, r, 2 * H) # 2 * H + 1
<1>1. 1 % 2 = 1 /\ 2 % 2 = 0 /\ 3 % 2 = 1 /\ 5 % 2 = 1
  OBVIOUS
<1>2. CASE c > H
  <2>1. Away(1)
    BY <1>1, <1>2 DEF PlaceOf
  <2> QED
    BY <2>1
<1>3. CASE c < H
  <2>1. Away(2)
    BY <1>1, <1>3 DEF PlaceOf
  <2> QED
    BY <2>1
<1>4. CASE c = H /\ H # 4
  <2>1. Away(3)
    BY <1>1, <1>4 DEF PlaceOf
  <2> QED
    BY <2>1
<1>5. CASE c = H /\ H = 4
  <2>1. Away(5)
    BY <1>1, <1>5 DEF PlaceOf
  <2> QED
    BY <1>5, <2>1
<1> QED
  BY <1>2, <1>3, <1>4, <1>5

\* In order, the first n numbers are themselves.
LEMMA SortedIs ==
  ASSUME NEW n \in Nat
  PROVE  Sorted(1 .. n) = [i \in 1 .. n |-> i]
<1>1. Cardinality(1 .. n) = n
  BY FS_Interval
<1>2. ASSUME NEW c \in 1 .. n PROVE Cardinality({d \in 1 .. n : d < c}) = c - 1
  <2>1. {d \in 1 .. n : d < c} = 1 .. c - 1
    OBVIOUS
  <2>2. Cardinality(1 .. c - 1) = c - 1
    BY FS_Interval
  <2> QED
    BY <2>1, <2>2
<1>3. ASSUME NEW i \in 1 .. n
      PROVE  (CHOOSE c \in 1 .. n : Cardinality({d \in 1 .. n : d < c}) = i - 1) = i
  <2>1. \A c \in 1 .. n : Cardinality({d \in 1 .. n : d < c}) = i - 1 <=> c = i
    BY <1>2
  <2> QED
    BY <2>1
<1> QED
  BY <1>1, <1>3 DEF Sorted

(***************************************************************************)
(* The rows of n members, 1 .. n, in Places(n) places: who is not a member *)
(* is the bye.                                                             *)
(***************************************************************************)
Places(n) == IF n % 2 = 1 THEN n + 1 ELSE n
Team(n, x) == IF x =< n THEN x ELSE Bye
TeamAt(n, r, p) == Team(n, WhoIs(Places(n), r, p))
Row(n, r, p) ==
  LET a == TeamAt(n, r, p) b == TeamAt(n, r, Places(n) + 1 - p) IN
    [round |-> r, place |-> p, home |-> IF r % 2 = 1 THEN a ELSE b,
                               away |-> IF r % 2 = 1 THEN b ELSE a]

\* The places are even in number, and at most one of them is the bye's.
LEMMA Halves ==
  ASSUME NEW n \in Nat, n >= 2
  PROVE  \E H \in Nat : /\ H >= 1 /\ Places(n) = 2 * H /\ Places(n) \div 2 = H
                        /\ n \in {2 * H, 2 * H - 1}
<1> DEFINE H == (n + 1) \div 2
<1>1. H \in Nat /\ H >= 1 /\ Places(n) = 2 * H
  BY DEF Places
<1>2. Places(n) \div 2 = H
  BY <1>1
<1>3. n \in {2 * H, 2 * H - 1}
  BY <1>1 DEF Places
<1> QED
  BY <1>1, <1>2, <1>3

\* The ring of each round.
LEMMA RingsAre ==
  ASSUME NEW n \in Nat, n >= 2
  PROVE  LET sorted == Sorted(1 .. n)
             ids == IF Len(sorted) % 2 = 1 THEN Append(sorted, Bye) ELSE sorted
         IN /\ Len(ids) = Places(n)
            /\ \A r \in 1 .. Places(n), p \in 1 .. Places(n) : Ring(ids)[r][p] = TeamAt(n, r, p)
            /\ \A r \in 1 .. Places(n) : Len(Ring(ids)[r]) = Places(n)
<1> DEFINE sorted == Sorted(1 .. n)
           ids == IF Len(sorted) % 2 = 1 THEN Append(sorted, Bye) ELSE sorted
           N == Places(n)
<1>1. sorted = [i \in 1 .. n |-> i] /\ sorted \in Seq(0 .. n) /\ Len(sorted) = n
  <2>1. sorted = [i \in 1 .. n |-> i]
    BY SortedIs
  <2>2. sorted \in [1 .. n -> 0 .. n]
    BY <2>1
  <2> HIDE DEF sorted
  <2> QED
    BY <2>1, <2>2, SeqDef
<1>2. N \in Nat /\ N >= 2
  BY DEF Places
<1>3. ids \in Seq(0 .. n) /\ Len(ids) = N /\ \A i \in 1 .. N : ids[i] = Team(n, i)
  <2>1. CASE n % 2 = 1
    <3>1. N = n + 1 /\ ids = Append(sorted, Bye)
      BY <1>1, <2>1 DEF Places
    <3>2. Bye \in 0 .. n
      BY DEF Bye
    <3> HIDE DEF sorted, ids, N
    <3>3. Append(sorted, Bye) \in Seq(0 .. n) /\ Len(Append(sorted, Bye)) = n + 1
      BY <1>1, <3>2
    <3>4. \A i \in 1 .. n + 1 : Append(sorted, Bye)[i] = IF i =< n THEN i ELSE Bye
      BY <1>1, <3>2
    <3> QED
      BY <3>1, <3>3, <3>4 DEF Team
  <2>2. CASE n % 2 # 1
    <3>1. N = n /\ ids = sorted
      BY <1>1, <2>2 DEF Places
    <3> HIDE DEF sorted, ids, N
    <3> QED
      BY <1>1, <3>1 DEF Team
  <2> QED
    BY <2>1, <2>2
<1> HIDE DEF sorted, ids, N
<1>4. ASSUME NEW r \in 1 .. N
      PROVE  Ring(ids)[r] = [p \in 1 .. N |-> ids[WhoIs(N, r, p)]]
  <2>1. \A o \in 1 .. Len(ids) : Ring(ids)[o] = RingIs(ids, o)
    BY <1>2, <1>3, RingRounds
  <2> QED
    BY <1>3, <2>1 DEF RingIs
<1>5. ASSUME NEW r \in 1 .. N, NEW p \in 1 .. N
      PROVE  Ring(ids)[r][p] = TeamAt(n, r, p)
  <2>1. WhoIs(N, r, p) \in 1 .. N
    BY <1>2 DEF WhoIs
  <2> QED
    BY <1>3, <1>4, <2>1 DEF TeamAt, N
<1>6. ASSUME NEW r \in 1 .. N PROVE Len(Ring(ids)[r]) = N
  <2> DEFINE ring == [p \in 1 .. N |-> ids[WhoIs(N, r, p)]]
  <2>1. \A p \in 1 .. N : WhoIs(N, r, p) \in 1 .. N
    BY <1>2 DEF WhoIs
  <2>2. \A i \in 1 .. N : ids[i] \in 0 .. n
    BY <1>3, ElementOfSeq
  <2>3. ring \in [1 .. N -> 0 .. n]
    BY <2>1, <2>2
  <2>4. ring \in Seq(0 .. n) /\ Len(ring) = N
    <3> HIDE DEF ring
    <3> QED
      BY <1>2, <2>3, SeqDef
  <2> QED
    BY <1>4, <2>4
<1> QED
  BY <1>3, <1>5, <1>6 DEF sorted, ids, N

\* RoundRobin() is made of the rows of all rounds, without those of the bye.
LEMMA RowsAre ==
  ASSUME NEW n \in Nat, n >= 2
  PROVE  RoundRobin(1 .. n) =
           {x \in {Row(n, r, p) : r \in 1 .. Places(n) - 1, p \in 1 .. Places(n) \div 2} :
              Bye \notin {x.home, x.away}}
<1> DEFINE sorted == Sorted(1 .. n)
           ids == IF Len(sorted) % 2 = 1 THEN Append(sorted, Bye) ELSE sorted
           N == Places(n)
           row(r, i) == LET p == HomeAndAway(Ring(ids)[r], r, i) IN
                          [round |-> r, place |-> i, home |-> p[1], away |-> p[2]]
           all == {row(r, i) : r \in 1 .. N - 1, i \in 1 .. N \div 2}
           rows == {Row(n, r, p) : r \in 1 .. N - 1, p \in 1 .. N \div 2}
<1>1. PICK H \in Nat : H >= 1 /\ N = 2 * H /\ N \div 2 = H
  BY Halves
<1>2. /\ Len(ids) = N
      /\ \A r \in 1 .. N, p \in 1 .. N : Ring(ids)[r][p] = TeamAt(n, r, p)
      /\ \A r \in 1 .. N : Len(Ring(ids)[r]) = N
  BY RingsAre
<1>3. RoundRobin(1 .. n) = {x \in all : Bye \notin {x.home, x.away}}
  <2>1. RoundRobin(1 .. n) =
          {x \in {row(r, i) : r \in 1 .. Len(ids) - 1, i \in 1 .. Len(ids) \div 2} :
             Bye \notin {x.home, x.away}}
    BY DEF RoundRobin
  <2> HIDE DEF ids, N, row
  <2> QED
    BY <1>2, <2>1
<1> HIDE DEF ids, N
<1>4. ASSUME NEW r \in 1 .. N - 1, NEW p \in 1 .. N \div 2
      PROVE  row(r, p) = Row(n, r, p)
  <2>1. r \in 1 .. N /\ p \in 1 .. N /\ N + 1 - p \in 1 .. N
    BY <1>1
  <2>2. /\ Ring(ids)[r][p] = TeamAt(n, r, p)
        /\ Ring(ids)[r][N + 1 - p] = TeamAt(n, r, N + 1 - p)
        /\ Len(Ring(ids)[r]) = N
    BY <1>2, <2>1
  <2>3. HomeAndAway(Ring(ids)[r], r, p) =
          IF r % 2 = 1 THEN <<TeamAt(n, r, p), TeamAt(n, r, N + 1 - p)>>
          ELSE <<TeamAt(n, r, N + 1 - p), TeamAt(n, r, p)>>
    BY <2>2 DEF HomeAndAway
  <2>4. CASE r % 2 = 1
    BY <2>3, <2>4 DEF Row, N
  <2>5. CASE r % 2 # 1
    BY <2>3, <2>5 DEF Row, N
  <2> QED
    BY <2>4, <2>5
<1> HIDE DEF row
<1>5. all = rows
  BY <1>4
<1>6. RoundRobin(1 .. n) = {x \in rows : Bye \notin {x.home, x.away}}
  <2> HIDE DEF all, rows
  <2> QED
    BY <1>3, <1>5
<1> QED
  BY <1>6 DEF N, rows

\* Who plays in a row: those whose place it is, and whose place is opposite.
LEMMA WhoPlays ==
  ASSUME NEW n \in Nat, n >= 2, NEW c \in 1 .. n,
         NEW r \in 1 .. Places(n) - 1, NEW p \in 1 .. Places(n) \div 2
  PROVE  /\ TeamAt(n, r, p) = c <=> PlaceOf(Places(n), r, c) = p
         /\ TeamAt(n, r, Places(n) + 1 - p) = c <=> PlaceOf(Places(n), r, c) = Places(n) + 1 - p
         /\ c \in {Row(n, r, p).home, Row(n, r, p).away} <=>
              PlaceOf(Places(n), r, c) \in {p, Places(n) + 1 - p}
<1> DEFINE N == Places(n)
<1>1. PICK H \in Nat : H >= 1 /\ N = 2 * H /\ N \div 2 = H /\ n \in {2 * H, 2 * H - 1}
  BY Halves
<1>2. c \in 1 .. N /\ N \in Nat /\ N >= 2 /\ r \in 1 .. N - 1 /\ p \in 1 .. N /\ N + 1 - p \in 1 .. N
  BY <1>1
<1>3. \A q \in 1 .. N : Team(n, WhoIs(N, r, q)) = c <=> PlaceOf(N, r, c) = q
  <2> HIDE DEF N
  <2>1. \A q \in 1 .. N : WhoIs(N, r, q) \in 1 .. N /\ (WhoIs(N, r, q) = c <=> PlaceOf(N, r, c) = q)
    BY <1>2, Placed
  <2>2. \A x \in 1 .. N : Team(n, x) = c <=> x = c
    BY DEF Team, Bye
  <2> QED
    BY <2>1, <2>2
<1>4. /\ TeamAt(n, r, p) = c <=> PlaceOf(N, r, c) = p
      /\ TeamAt(n, r, N + 1 - p) = c <=> PlaceOf(N, r, c) = N + 1 - p
  BY <1>2, <1>3 DEF TeamAt
<1>5. {Row(n, r, p).home, Row(n, r, p).away} = {TeamAt(n, r, p), TeamAt(n, r, N + 1 - p)}
  BY DEF Row
<1> QED
  BY <1>4, <1>5

\* The row in which c is opposite another place than the bye's.
LEMMA RowOf ==
  ASSUME NEW n \in Nat, n >= 2, NEW c \in 1 .. n, NEW r \in 1 .. Places(n) - 1,
         n = Places(n) \/ PlaceOf(Places(n), r, c) + PlaceOf(Places(n), r, Places(n))
                            # Places(n) + 1
  PROVE  \E p \in 1 .. Places(n) \div 2 :
           /\ PlaceOf(Places(n), r, c) \in {p, Places(n) + 1 - p}
           /\ Row(n, r, p) \in RoundRobin(1 .. n)
<1> DEFINE N == Places(n)
           P == PlaceOf(N, r, c)
           p == IF P =< N \div 2 THEN P ELSE N + 1 - P
<1>1. PICK H \in Nat : H >= 1 /\ N = 2 * H /\ N \div 2 = H /\ n \in {2 * H, 2 * H - 1}
  BY Halves
<1>2. c \in 1 .. N /\ N \in Nat /\ N >= 2 /\ r \in 1 .. N - 1
  BY <1>1
<1>3. /\ \A q \in 1 .. N : WhoIs(N, r, q) \in 1 .. N
      /\ \A x \in 1 .. N : PlaceOf(N, r, x) \in 1 .. N
      /\ \A x, q \in 1 .. N : WhoIs(N, r, q) = x <=> PlaceOf(N, r, x) = q
  <2> HIDE DEF N
  <2> QED
    BY <1>2, Placed
<1>4. P \in 1 .. N
  BY <1>2, <1>3
<1> HIDE DEF N, P
<1>5. p \in 1 .. N \div 2 /\ P \in {p, N + 1 - p}
  BY <1>1, <1>4
<1>6. WhoIs(N, r, N + 1 - P) =< n
  <2>1. N + 1 - P \in 1 .. N
    BY <1>2, <1>4
  <2>2. CASE n = N
    BY <1>3, <2>1, <2>2
  <2>3. CASE n # N
    <3>1. WhoIs(N, r, N + 1 - P) # N
      <4>1. PlaceOf(N, r, N) # N + 1 - P
        <5>1. P + PlaceOf(N, r, N) # N + 1
          BY <2>3 DEF N, P
        <5>2. PlaceOf(N, r, N) \in Int /\ P \in Int /\ N \in Int
          BY <1>2, <1>3, <1>4
        <5> QED
          BY <5>1, <5>2
      <4> QED
        BY <1>2, <1>3, <2>1, <4>1
    <3>2. WhoIs(N, r, N + 1 - P) \in 1 .. N
      BY <1>3, <2>1
    <3> QED
      BY <1>1, <2>3, <3>1, <3>2
  <2> QED
    BY <2>2, <2>3
<1>7. WhoIs(N, r, P) = c /\ WhoIs(N, r, N + 1 - P) \in 1 .. n
  <2>1. N + 1 - P \in 1 .. N
    BY <1>2, <1>4
  <2> QED
    BY <1>2, <1>3, <1>4, <1>6, <2>1 DEF P
<1>8. TeamAt(n, r, P) # Bye /\ TeamAt(n, r, N + 1 - P) # Bye
  BY <1>7 DEF TeamAt, Team, N, Bye
<1>9. Bye \notin {Row(n, r, p).home, Row(n, r, p).away}
  <2>1. {Row(n, r, p).home, Row(n, r, p).away} = {TeamAt(n, r, p), TeamAt(n, r, N + 1 - p)}
    BY DEF Row, N
  <2>2. p = P \/ (p = N + 1 - P /\ N + 1 - p = P)
    BY <1>2, <1>4
  <2> QED
    BY <1>8, <2>1, <2>2
<1> HIDE DEF p
<1>10. Row(n, r, p) \in RoundRobin(1 .. n)
  BY <1>5, <1>9, RowsAre DEF N
<1> QED
  BY <1>5, <1>10 DEF N, P

\* What is known of a row that somebody plays in.
LEMMA PlaysIn ==
  ASSUME NEW n \in Nat, n >= 2, NEW x \in RoundRobin(1 .. n)
  PROVE  \E r \in 1 .. Places(n) - 1, p \in 1 .. Places(n) \div 2 :
           /\ x = Row(n, r, p) /\ x.round = r
           /\ \A c \in 1 .. n : c \in {x.home, x.away} <=>
                                  PlaceOf(Places(n), r, c) \in {p, Places(n) + 1 - p}
<1>1. PICK r \in 1 .. Places(n) - 1, p \in 1 .. Places(n) \div 2 : x = Row(n, r, p)
  BY RowsAre
<1>2. x.round = r
  BY <1>1 DEF Row
<1>3. \A c \in 1 .. n : c \in {x.home, x.away} <=>
                          PlaceOf(Places(n), r, c) \in {p, Places(n) + 1 - p}
  BY <1>1, WhoPlays
<1> QED
  BY <1>1, <1>2, <1>3

\* The circle method is right for any number of members.
THEOREM CircleMethod == \A n \in Nat : n >= 2 => PairedUp(1 .. n)
<1> SUFFICES ASSUME NEW n \in Nat, n >= 2 PROVE PairedUp(1 .. n)
  OBVIOUS
<1> DEFINE N == Places(n)
           rows == RoundRobin(1 .. n)
           Of(c) == {x \in rows : c \in {x.home, x.away}}
           At(r, c) == PlaceOf(N, r, c)
<1>1. PICK H \in Nat : H >= 1 /\ N = 2 * H /\ N \div 2 = H /\ n \in {2 * H, 2 * H - 1}
  BY Halves
<1>2. N \in Nat /\ N >= 2 /\ \A c \in 1 .. n : c \in 1 .. N
  BY <1>1
<1>3. \A r \in 1 .. N - 1, c \in 1 .. N : At(r, c) \in 1 .. N
  <2> HIDE DEF N
  <2> QED
    BY <1>2, Placed
<1>4. ASSUME NEW r \in 1 .. N - 1, NEW c \in 1 .. n,
             n = N \/ At(r, c) + At(r, N) # N + 1
      PROVE  \E p \in 1 .. N \div 2 : At(r, c) \in {p, N + 1 - p} /\ Row(n, r, p) \in rows
  BY <1>4, RowOf
<1>5. ASSUME NEW x \in rows
      PROVE  \E r \in 1 .. N - 1, p \in 1 .. N \div 2 :
               /\ x = Row(n, r, p) /\ x.round = r
               /\ \A c \in 1 .. n : c \in {x.home, x.away} <=> At(r, c) \in {p, N + 1 - p}
  BY PlaysIn
<1>6. ASSUME NEW r \in 1 .. N - 1, NEW p \in 1 .. N \div 2
      PROVE  \A c \in 1 .. n : c \in {Row(n, r, p).home, Row(n, r, p).away}
                                 <=> At(r, c) \in {p, N + 1 - p}
  BY WhoPlays
<1>7. \A x, y \in 1 .. N, r, s \in 1 .. N - 1 :
        x # y /\ At(r, x) + At(r, y) = N + 1 /\ At(s, x) + At(s, y) = N + 1 => r = s
  BY <1>1, MeetOnce
<1>8. \A x, y \in 1 .. N : x # y => \E r \in 1 .. N - 1 : At(r, x) + At(r, y) = N + 1
  BY <1>1, Meet
<1>9. \A r \in 1 .. N - 1 : \A c, d \in 1 .. N : At(r, c) = At(r, d) => c = d
  <2> HIDE DEF N
  <2> QED
    BY <1>2, <1>3, Placed
<1> HIDE DEF N, rows, At
<1>10. \A a, b \in 1 .. n : a # b => \E x \in rows : Of(a) \cap Of(b) = {x}
  <2> SUFFICES ASSUME NEW a \in 1 .. n, NEW b \in 1 .. n, a # b
               PROVE  \E x \in rows : Of(a) \cap Of(b) = {x}
    OBVIOUS
  <2>1. a \in 1 .. N /\ b \in 1 .. N
    BY <1>2
  <2>2. PICK r \in 1 .. N - 1 : At(r, a) + At(r, b) = N + 1
    BY <1>8, <2>1
  <2>3. At(r, a) \in 1 .. N /\ At(r, b) \in 1 .. N
    BY <1>3, <2>1
  <2>4. n = N \/ At(r, a) + At(r, N) # N + 1
    <3> SUFFICES ASSUME n # N, At(r, a) + At(r, N) = N + 1 PROVE FALSE
      OBVIOUS
    <3>1. N \in 1 .. N /\ b # N
      BY <1>1, <2>1
    <3>2. At(r, N) \in 1 .. N
      BY <1>3, <3>1
    <3>3. At(r, N) = At(r, b)
      BY <1>2, <2>2, <2>3, <3>2
    <3> QED
      BY <1>9, <2>1, <3>1, <3>3
  <2>5. PICK p \in 1 .. N \div 2 : At(r, a) \in {p, N + 1 - p} /\ Row(n, r, p) \in rows
    BY <1>4, <2>4
  <2>6. At(r, b) \in {p, N + 1 - p}
    BY <1>1, <2>2, <2>3, <2>5
  <2>7. Row(n, r, p) \in Of(a) \cap Of(b)
    BY <1>6, <2>5, <2>6
  <2>8. ASSUME NEW y \in Of(a) \cap Of(b) PROVE y = Row(n, r, p)
    <3>1. PICK s \in 1 .. N - 1, q \in 1 .. N \div 2 :
            /\ y = Row(n, s, q)
            /\ At(s, a) \in {q, N + 1 - q} /\ At(s, b) \in {q, N + 1 - q}
      BY <1>5, <2>8
    <3>2. At(s, a) # At(s, b) /\ At(s, a) \in 1 .. N /\ At(s, b) \in 1 .. N
      BY <1>3, <1>9, <2>1
    <3>3. At(s, a) + At(s, b) = N + 1
      BY <1>1, <3>1, <3>2
    <3>4. s = r
      BY <1>7, <2>1, <2>2, <3>3
    <3>5. q = p
      BY <1>1, <2>5, <3>1, <3>4
    <3> QED
      BY <3>1, <3>4, <3>5
  <2>9. Of(a) \cap Of(b) = {Row(n, r, p)}
    <3> HIDE DEF Of
    <3> QED
      BY <2>7, <2>8
  <2> QED
    BY <2>5, <2>9
<1>11. \A c \in 1 .. n : \A x, y \in Of(c) : x # y => x.round # y.round
  <2> SUFFICES ASSUME NEW c \in 1 .. n, NEW x \in Of(c), NEW y \in Of(c), x.round = y.round
               PROVE  x = y
    OBVIOUS
  <2>1. PICK r \in 1 .. N - 1, p \in 1 .. N \div 2 :
          x = Row(n, r, p) /\ x.round = r /\ At(r, c) \in {p, N + 1 - p}
    BY <1>5
  <2>2. PICK s \in 1 .. N - 1, q \in 1 .. N \div 2 :
          y = Row(n, s, q) /\ y.round = s /\ At(s, c) \in {q, N + 1 - q}
    BY <1>5
  <2>3. r = s
    BY <2>1, <2>2
  <2>4. p = q
    BY <1>1, <2>1, <2>2, <2>3
  <2> QED
    BY <2>1, <2>2, <2>3, <2>4
<1>12. ASSUME n > 2 PROVE \A c \in 1 .. n : \E x \in Of(c) : x.away = c
  <2> SUFFICES ASSUME NEW c \in 1 .. n PROVE \E x \in Of(c) : x.away = c
    OBVIOUS
  <2>1. H >= 2 /\ c \in 1 .. 2 * H
    BY <1>1, <1>2, <1>12
  <2>2. PICK r \in 1 .. 2 * H - 1 :
           /\ \/ r % 2 = 1 /\ PlaceOf(2 * H, r, c) > H
              \/ r % 2 = 0 /\ PlaceOf(2 * H, r, c) =< H
           /\ PlaceOf(2 * H, r, c) + PlaceOf(2 * H, r, 2 * H) # 2 * H + 1
    BY <2>1, AwayOnce
  <2>3. /\ r \in 1 .. N - 1
        /\ (r % 2 = 1 /\ At(r, c) > H) \/ (r % 2 = 0 /\ At(r, c) =< H)
        /\ At(r, c) + At(r, N) # N + 1
    BY <1>1, <2>2 DEF At
  <2>4. PICK p \in 1 .. N \div 2 : At(r, c) \in {p, N + 1 - p} /\ Row(n, r, p) \in rows
    BY <1>4, <2>3
  <2>5. Row(n, r, p) \in Of(c)
    BY <1>6, <2>3, <2>4
  <2>6. /\ TeamAt(n, r, p) = c <=> At(r, c) = p
        /\ TeamAt(n, r, N + 1 - p) = c <=> At(r, c) = N + 1 - p
    BY <2>3, WhoPlays DEF At, N
  <2>7. Row(n, r, p).away = IF r % 2 = 1 THEN TeamAt(n, r, N + 1 - p) ELSE TeamAt(n, r, p)
    BY DEF Row, N
  <2>8. Row(n, r, p).away = c
    <3>1. CASE r % 2 = 1
      BY <1>1, <2>3, <2>4, <2>6, <2>7, <3>1
    <3>2. CASE r % 2 = 0
      BY <1>1, <2>3, <2>4, <2>6, <2>7, <3>2
    <3> QED
      BY <2>3, <3>1, <3>2
  <2> QED
    BY <2>5, <2>8
<1>13. Cardinality(1 .. n) = n
  BY FS_Interval
<1> QED
  BY <1>10, <1>11, <1>12, <1>13 DEF PairedUp, rows

\* The schedule of a league that is being opened is fair to every pair and member of it,
\* however many they come to be: start() and roundRobin().
THEOREM SchedulesAreFair == LeagueSpec => []EveryPairOnce
<1>1. EveryPairOnce
  <2>1. \A n \in 2 .. MaxSchedule : PairedUp(1 .. n)
    BY CircleMethod
  <2> QED
    BY <2>1 DEF EveryPairOnce, Schedules
<1> QED
  BY <1>1, PTL
=============================================================================
