----------------------------- MODULE CityLeague -----------------------------
(***************************************************************************)
(* The weekly country league of the Worker: player profiles, match rows    *)
(* and result reports in D1 (worker/city-league/service.ts, d1-store.ts,   *)
(* bots.ts), and the table computed from them (city-league/standings.ts).  *)
(*                                                                         *)
(* A request is handled by an isolate of its own: it reads rows, awaits,   *)
(* and writes later what it decided from what it read, so handlers overlap *)
(* freely.  A D1 statement, or a batch of them, is one atomic step.  The   *)
(* handlers between their read and their write are the set "open"; two     *)
(* handlers that would write the same coincide in it.                      *)
(*                                                                         *)
(* Operators whose comment starts with "Slip:" are not part of the model:  *)
(* they are definitions as a plausible mistake would have them.            *)
(***************************************************************************)
EXTENDS Integers, FiniteSets

CONSTANTS
  Client,       \* client ids of human players
  Bot,          \* the away side of a match against the computer
  Country,      \* country codes
  Score,        \* final scores, <<home goals, away goals>>
  None,         \* SQL NULL, or no such row
  MaxMatches,   \* bound: match rows ever created
  MaxSeason,    \* bound: weeks, numbered from 1
  MaxOpen       \* bound: handlers between their read and their write

ASSUME CityLeagueAssumption ==
  /\ Bot \notin Client /\ Score \subseteq Nat \X Nat /\ IsFiniteSet(Country)
  /\ None \notin Score
  /\ MaxMatches \in Nat /\ MaxSeason \in Nat \ {0} /\ MaxOpen \in Nat

VARIABLES
  season,       \* the week, by the clock of the Worker
  players,      \* players: each client's country and the week it was saved in
  matches,      \* matches, numbered in the order of creation
  reports,      \* submissions: each side's reported score
  open          \* handlers between their read and their write

vars == <<season, players, matches, reports, open>>

Match == 1 .. MaxMatches
Side == Client \cup {Bot}
Final == {"confirmed", "disputed"}

Player == [country : Country, season : 1 .. MaxSeason]
MatchRow ==
  [home : Client, away : Side, homeCountry : Country, awayCountry : Country,
   season : 1 .. MaxSeason, status : {"pending"} \cup Final, score : Score \cup {None}]

\* No row is not a row.
ASSUME RowAssumption == None \notin MatchRow

ProfileCall(c, k, s) == [op |-> "profile", client |-> c, row |-> [country |-> k, season |-> s]]
CreateCall(row) == [op |-> "create", row |-> row]
SubmitCall(m, c, x) == [op |-> "submit", match |-> m, client |-> c, score |-> x]
FinishCall(m, x) == [op |-> "finish", match |-> m, score |-> x]

Call ==
  [op : {"profile"}, client : Client, row : Player]
    \cup [op : {"create"}, row : MatchRow]
    \cup [op : {"submit"}, match : Match, client : Client, score : Score]
    \cup [op : {"finish"}, match : Match, score : Score]

Init ==
  /\ season = 1
  /\ players = [c \in Client |-> None]
  /\ matches = [m \in Match |-> None]
  /\ reports = [m \in Match |-> [c \in Client |-> None]]
  /\ open = {}

\* A handler has read and decided to make the call h.
Decide(h) ==
  /\ Cardinality(open) < MaxOpen
  /\ open' = open \cup {h}
  /\ UNCHANGED <<season, players, matches, reports>>

-----------------------------------------------------------------------------
(***************************************************************************)
(* Profiles.                                                               *)
(***************************************************************************)
\* upsertProfile() is refused while the client's country is locked.
UpsertProfile(c, k) ==
  /\ players[c] # None => players[c].season # season \/ players[c].country = k
  /\ Decide(ProfileCall(c, k, season))

UpsertPlayer(h) ==
  /\ h \in open /\ h.op = "profile"
  /\ players' = [players EXCEPT ![h.client] = h.row]
  /\ open' = open \ {h}
  /\ UNCHANGED <<season, matches, reports>>

-----------------------------------------------------------------------------
(***************************************************************************)
(* Match rows.                                                             *)
(***************************************************************************)

NewRow(home, away, hk, ak) ==
  [home |-> home, away |-> away, homeCountry |-> hk, awayCountry |-> ak,
   season |-> season, status |-> "pending", score |-> None]

\* createMatch(): each side plays for the country saved in its profile.
CreateMatch(home, away) ==
  /\ home # away /\ players[home] # None /\ players[away] # None
  /\ Decide(CreateCall(NewRow(home, away, players[home].country, players[away].country)))

\* BotLeagueService.create(): a match against a computer of another country.
CreateBotMatch(home, ak) ==
  /\ players[home] # None /\ players[home].country # ak
  /\ Decide(CreateCall(NewRow(home, Bot, players[home].country, ak)))

\* The row, and for a computer's match its bot_matches row, under a fresh id.
InsertMatch(h) ==
  /\ h \in open /\ h.op = "create"
  /\ \E m \in Match :
       /\ matches[m] = None /\ \A o \in 1 .. (m - 1) : matches[o] # None
       /\ matches' = [matches EXCEPT ![m] = h.row]
  /\ open' = open \ {h}
  /\ UNCHANGED <<season, players, reports>>

-----------------------------------------------------------------------------
(***************************************************************************)
(* Results.                                                                *)
(***************************************************************************)
Human(m) == matches[m] # None /\ matches[m].away # Bot

\* submitResult(): a match that already has its verdict is only reported back.
SubmitResult(m, c, x) ==
  /\ Human(m) /\ c \in {matches[m].home, matches[m].away}
  /\ matches[m].status = "pending"
  /\ Decide(SubmitCall(m, c, x))

\* Slip: ON CONFLICT DO UPDATE, as in upsertSubmission().
ReportedLast(h) == [reports EXCEPT ![h.match][h.client] = h.score]

\* INSERT ... ON CONFLICT DO NOTHING: the first report of a side stands.
Reported(h) ==
  [reports EXCEPT ![h.match][h.client] = IF @ = None THEN h.score ELSE @]

\* Slip: only the home goals are compared.
AgreeOnHomeGoals(xs) == \A x, y \in xs : x[1] = y[1]

\* The verdict's condition on the scores reported by the two sides.
Agree(xs) == Cardinality(xs) = 1

\* submitAndResolve(): the report, and the verdict if it is the second one.
SubmitAndResolve(h) ==
  LET m == h.match
      given == Reported(h)[m]
      reporters == {c \in Client : given[c] # None}
      scores == {given[c] : c \in reporters}
      verdict == IF Agree(scores)
                 THEN [matches[m] EXCEPT !.status = "confirmed",
                                          !.score = CHOOSE x \in scores : TRUE]
                 ELSE [matches[m] EXCEPT !.status = "disputed"]
  IN /\ h \in open /\ h.op = "submit"
     /\ reports' = Reported(h)
     /\ matches' = IF matches[m].status = "pending" /\ Cardinality(reporters) = 2
                   THEN [matches EXCEPT ![m] = verdict] ELSE matches
     /\ open' = open \ {h}
     /\ UNCHANGED <<season, players>>

\* BotLeagueService.finish(): x is the score of the replayed inputs.
FinishBotMatch(m, x) ==
  /\ matches[m] # None /\ ~Human(m)
  /\ matches[m].status = "pending"
  /\ Decide(FinishCall(m, x))

\* Slip: UPDATE without AND status = 'pending'.
StillPendingAssumed(m) == TRUE

StillPending(m) == matches[m].status = "pending"

ConfirmBotMatch(h) ==
  LET m == h.match
  IN /\ h \in open /\ h.op = "finish"
     /\ matches' = IF StillPending(m)
                   THEN [matches EXCEPT ![m].status = "confirmed", ![m].score = h.score]
                   ELSE matches
     /\ open' = open \ {h}
     /\ UNCHANGED <<season, players, reports>>

-----------------------------------------------------------------------------
\* The isolate is gone, or its D1 call fails: nothing is written.
Fail(h) ==
  /\ open' = open \ {h}
  /\ UNCHANGED <<season, players, matches, reports>>

NextSeason ==
  /\ season < MaxSeason
  /\ season' = season + 1
  /\ UNCHANGED <<players, matches, reports, open>>

Next ==
  \/ \E c \in Client, k \in Country : UpsertProfile(c, k) \/ CreateBotMatch(c, k)
  \/ \E c, d \in Client : CreateMatch(c, d)
  \/ \E m \in Match, x \in Score :
       FinishBotMatch(m, x) \/ \E c \in Client : SubmitResult(m, c, x)
  \/ \E h \in open : UpsertPlayer(h) \/ InsertMatch(h) \/ SubmitAndResolve(h)
                     \/ ConfirmBotMatch(h) \/ Fail(h)
  \/ NextSeason

Spec == Init /\ [][Next]_vars

-----------------------------------------------------------------------------
(***************************************************************************)
(* The table of a week (computeCityStandings).                             *)
(***************************************************************************)
\* Confirmed matches of the week between two countries; friendlies don't count.
Counted(s) ==
  {m \in Match : /\ matches[m] # None /\ matches[m].season = s
                 /\ matches[m].status = "confirmed"
                 /\ matches[m].homeCountry # matches[m].awayCountry}

Goals(m, k) == IF matches[m].homeCountry = k THEN matches[m].score[1] ELSE matches[m].score[2]
Conceded(m, k) == IF matches[m].homeCountry = k THEN matches[m].score[2] ELSE matches[m].score[1]

MatchPoints(m, k) == CASE Goals(m, k) > Conceded(m, k) -> 3
                       [] Goals(m, k) = Conceded(m, k) -> 1
                       [] OTHER -> 0

\* The matches of the week that country k has played.
PlayedBy(s, k) == {m \in Counted(s) : k \in {matches[m].homeCountry, matches[m].awayCountry}}

\* The sum of n over its domain, counted one by one.
Total(n) == Cardinality(UNION {{m} \X (1 .. n[m]) : m \in DOMAIN n})

\* What country k has played, scored, conceded and won in week s.
Standing(s, k) ==
  LET mine == PlayedBy(s, k)
  IN [played |-> Cardinality(mine),
      goalsFor |-> Total([m \in mine |-> Goals(m, k)]),
      goalsAgainst |-> Total([m \in mine |-> Conceded(m, k)]),
      points |-> Total([m \in mine |-> MatchPoints(m, k)])]

-----------------------------------------------------------------------------
(***************************************************************************)
(* Properties.                                                             *)
(***************************************************************************)
TypeOK ==
  /\ season \in 1 .. MaxSeason
  /\ players \in [Client -> Player \cup {None}]
  /\ matches \in [Match -> MatchRow \cup {None}]
  /\ reports \in [Match -> [Client -> Score \cup {None}]]
  /\ open \subseteq Call

\* The verdict is what the two sides reported: a match is decided exactly when
\* both have, and confirmed exactly when they reported one score, which is the
\* score that counts, however the two requests overlap (d1-store.ts: "both
\* concurrent reports finalize in one D1 batch").
VerdictIsTheirs ==
  \A m \in Match : Human(m) =>
    LET x == reports[m][matches[m].home]
        y == reports[m][matches[m].away]
    IN /\ matches[m].status \in Final <=> x # None /\ y # None
       /\ matches[m].status = "confirmed" <=> x # None /\ x = y
       /\ matches[m].score = IF matches[m].status = "confirmed" THEN x ELSE None

\* A report, once made, and a verdict, once given, are never replaced
\* (docs/deployment.md: "immutable first score reports").
ReportsStand ==
  [][\A m \in Match :
       /\ \A c \in Client : reports[m][c] # None => reports'[m][c] = reports[m][c]
       /\ matches[m] # None /\ matches[m].status \in Final => matches'[m] = matches[m]]_vars

\* No country ever loses a point, a goal or a match of any week's table, in
\* whatever order replays and reports arrive.  (The table is computed from the
\* match rows: only a step that writes one can change it.)
TableOnlyGrows ==
  [][\/ UNCHANGED matches
     \/ \A s \in 1 .. MaxSeason, k \in Country :
          LET old == Standing(s, k)
              new == Standing(s, k)'
          IN \A f \in DOMAIN old : new[f] >= old[f]]_vars

\* A country saved in a week is not changed in that week (README.md: "Country
\* selection is locked weekly").
LockedWeekly ==
  [][\A c \in Client :
       players[c] # None /\ players[c].season = season
         => players'[c].country = players[c].country]_vars
=============================================================================
