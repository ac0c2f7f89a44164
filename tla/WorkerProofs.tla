---------------------------- MODULE WorkerProofs ----------------------------
(***************************************************************************)
(* Proofs about what the Worker keeps outside its rooms: the country       *)
(* league, for every set of clients, countries and scores and any number   *)
(* of matches, weeks and overlapping handlers; and the matchmaker, for     *)
(* every set of clients and countries and any number of searches and of    *)
(* restarts of the object.                                                 *)
(***************************************************************************)
EXTENDS CityLeague, Matchmaking, FiniteSetTheorems, TLAPS

-----------------------------------------------------------------------------
(***************************************************************************)
(* I. The country league.                                                  *)
(***************************************************************************)
(***************************************************************************)
(* Lemmas about the operators.                                             *)
(***************************************************************************)
\* Both of two sides have reported when two of them have.
LEMMA BothOfTwo ==
  ASSUME NEW a, NEW b, a # b, NEW S \in SUBSET {a, b}
  PROVE  Cardinality(S) = 2 <=> a \in S /\ b \in S
<1>1. Cardinality({}) = 0 /\ Cardinality({a}) = 1 /\ Cardinality({b}) = 1
  BY FS_EmptySet, FS_Singleton
<1>2. Cardinality({a} \cup {b}) = 2
  <2>1. IsFiniteSet({a}) /\ b \notin {a}
    BY FS_Singleton
  <2> QED
    BY <1>1, <2>1, FS_AddElement
<1>3. {a} \cup {b} = {a, b}
  OBVIOUS
<1>4. S = {} \/ S = {a} \/ S = {b} \/ S = {a, b}
  OBVIOUS
<1> QED
  BY <1>1, <1>2, <1>3, <1>4

\* The condition of the verdict: two reported scores are one.
LEMMA AgreeOnTwo == \A x, y : Agree({x, y}) <=> x = y
<1> SUFFICES ASSUME NEW x, NEW y PROVE Agree({x, y}) <=> x = y
  OBVIOUS
<1>1. CASE x = y
  <2>1. {x, y} = {x}
    BY <1>1
  <2> QED
    BY <1>1, <2>1, FS_Singleton DEF Agree
<1>2. CASE x # y
  BY <1>2, BothOfTwo DEF Agree
<1> QED
  BY <1>1, <1>2

(***************************************************************************)
(* The inductive invariant.                                                *)
(***************************************************************************)
\* What a handler decided from what it read is still right when it writes.
CallFits(h) ==
  /\ h.op = "create" => /\ h.row.status = "pending" /\ h.row.score = None
                        /\ h.row.home # h.row.away
  /\ h.op = "submit" => /\ Human(h.match)
                        /\ h.client \in {matches[h.match].home, matches[h.match].away}
  /\ h.op = "finish" => matches[h.match] # None /\ ~Human(h.match)

\* Only the two sides of a match between two clients report on it.
SidesReport ==
  \A m \in Match :
    /\ matches[m] # None => matches[m].home # matches[m].away
    /\ \A c \in Client : reports[m][c] # None =>
         Human(m) /\ c \in {matches[m].home, matches[m].away}

LeagueInv ==
  /\ TypeOK
  /\ \A h \in open : CallFits(h)
  /\ SidesReport
  /\ VerdictIsTheirs

LEMMA InitLeague == Init => LeagueInv
<1> SUFFICES ASSUME Init PROVE LeagueInv
  OBVIOUS
<1>1. TypeOK
  BY CityLeagueAssumption DEF Init, TypeOK
<1>2. \A m \in Match : matches[m] = None /\ \A c \in Client : reports[m][c] = None
  BY DEF Init
<1> QED
  BY <1>1, <1>2 DEF Init, LeagueInv, SidesReport, VerdictIsTheirs, Human

LEMMA DecideLeague ==
  ASSUME LeagueInv, NEW h \in Call, CallFits(h), Decide(h)
  PROVE  LeagueInv'
BY DEF LeagueInv, TypeOK, CallFits, SidesReport, VerdictIsTheirs, Human, Decide

\* Handlers that have read: every action that only opens a handler.
LEMMA ReadLeague ==
  ASSUME LeagueInv,
         \/ \E c \in Client, k \in Country : UpsertProfile(c, k) \/ CreateBotMatch(c, k)
         \/ \E c, d \in Client : CreateMatch(c, d)
         \/ \E m \in Match, x \in Score :
              FinishBotMatch(m, x) \/ \E c \in Client : SubmitResult(m, c, x)
  PROVE  LeagueInv'
<1> USE DEF LeagueInv, TypeOK
<1>1. ASSUME NEW c \in Client, NEW k \in Country, UpsertProfile(c, k) PROVE LeagueInv'
  <2>1. ProfileCall(c, k, season) \in Call /\ CallFits(ProfileCall(c, k, season))
    BY DEF ProfileCall, Call, Player, CallFits
  <2> QED
    BY <1>1, <2>1, DecideLeague DEF UpsertProfile
<1>2. ASSUME NEW home \in Client, NEW away \in Side, home # away,
             NEW hk \in Country, NEW ak \in Country
      PROVE  LET h == CreateCall(NewRow(home, away, hk, ak)) IN h \in Call /\ CallFits(h)
  <2>1. NewRow(home, away, hk, ak) \in MatchRow
    BY DEF NewRow, MatchRow
  <2> QED
    BY <1>2, <2>1 DEF CreateCall, Call, CallFits, NewRow
<1>3. ASSUME NEW c \in Client, NEW k \in Country, CreateBotMatch(c, k) PROVE LeagueInv'
  <2>1. Bot \in Side /\ c # Bot /\ players[c].country \in Country
    BY <1>3, CityLeagueAssumption DEF CreateBotMatch, Side, Player
  <2> QED
    BY <1>2, <1>3, <2>1, DecideLeague DEF CreateBotMatch
<1>4. ASSUME NEW c \in Client, NEW d \in Client, CreateMatch(c, d) PROVE LeagueInv'
  <2>1. d \in Side /\ c # d /\ players[c].country \in Country /\ players[d].country \in Country
    BY <1>4 DEF CreateMatch, Side, Player
  <2> QED
    BY <1>2, <1>4, <2>1, DecideLeague DEF CreateMatch
<1>5. ASSUME NEW m \in Match, NEW x \in Score, FinishBotMatch(m, x) PROVE LeagueInv'
  <2>1. FinishCall(m, x) \in Call /\ CallFits(FinishCall(m, x))
    BY <1>5 DEF FinishBotMatch, FinishCall, Call, CallFits
  <2> QED
    BY <1>5, <2>1, DecideLeague DEF FinishBotMatch
<1>6. ASSUME NEW m \in Match, NEW x \in Score, NEW c \in Client, SubmitResult(m, c, x)
      PROVE  LeagueInv'
  <2>1. SubmitCall(m, c, x) \in Call /\ CallFits(SubmitCall(m, c, x))
    BY <1>6 DEF SubmitResult, SubmitCall, Call, CallFits
  <2> QED
    BY <1>6, <2>1, DecideLeague DEF SubmitResult
<1> QED
  BY <1>1, <1>3, <1>4, <1>5, <1>6

(***************************************************************************)
(* The writes.                                                             *)
(***************************************************************************)
\* A write that leaves rows and reports alone.
LEMMA QuietLeague ==
  ASSUME LeagueInv, TypeOK', open' \subseteq open, UNCHANGED <<matches, reports>>
  PROVE  LeagueInv'
BY DEF LeagueInv, CallFits, SidesReport, VerdictIsTheirs, Human

LEMMA UpsertPlayerLeague ==
  ASSUME LeagueInv, NEW h \in open, UpsertPlayer(h)
  PROVE  LeagueInv'
<1>1. h.client \in Client /\ h.row \in Player
  BY DEF LeagueInv, TypeOK, Call, UpsertPlayer
<1>2. TypeOK'
  BY <1>1 DEF LeagueInv, TypeOK, UpsertPlayer
<1> QED
  BY <1>2, QuietLeague DEF UpsertPlayer

\* What a handler knows of a row stays true when no row disappears or changes
\* sides.
LEMMA CallFitsKept ==
  ASSUME LeagueInv, open' \subseteq open,
         \A m \in Match : matches[m] # None =>
           /\ matches'[m] # None
           /\ matches'[m].home = matches[m].home /\ matches'[m].away = matches[m].away
  PROVE  \A g \in open' : CallFits(g)'
<1> SUFFICES ASSUME NEW g \in open' PROVE CallFits(g)'
  OBVIOUS
<1>1. g \in open /\ g \in Call /\ CallFits(g)
  BY DEF LeagueInv, TypeOK
<1>2. g.op \in {"submit", "finish"} => g.match \in Match
  BY <1>1 DEF Call
<1> QED
  BY <1>1, <1>2 DEF CallFits, Human

LEMMA InsertLeague ==
  ASSUME LeagueInv, NEW h \in open, InsertMatch(h)
  PROVE  LeagueInv'
<1>1. h.row \in MatchRow /\ h.row # None /\ CallFits(h) /\ h.op = "create"
  BY RowAssumption DEF LeagueInv, TypeOK, Call, InsertMatch
<1>2. PICK m \in Match : matches[m] = None /\ matches' = [matches EXCEPT ![m] = h.row]
  BY DEF InsertMatch
<1>3. matches \in [Match -> MatchRow \cup {None}] /\ reports' = reports
  BY DEF LeagueInv, TypeOK, InsertMatch
<1>4. \A o \in Match : matches'[o] = IF o = m THEN h.row ELSE matches[o]
  BY <1>2, <1>3
<1>5. TypeOK'
  BY <1>1, <1>2 DEF LeagueInv, TypeOK, InsertMatch
<1>6. \A g \in open' : CallFits(g)'
  BY <1>2, <1>4, CallFitsKept DEF InsertMatch
<1>7. \A c \in Client : reports[m][c] = None
  BY <1>2 DEF LeagueInv, SidesReport, Human
<1>8. SidesReport'
  BY <1>1, <1>2, <1>3, <1>4, <1>7 DEF LeagueInv, SidesReport, Human, CallFits
<1>9. VerdictIsTheirs'
  <2> SUFFICES ASSUME NEW o \in Match, Human(o)'
               PROVE  LET x == reports[o][matches'[o].home]
                          y == reports[o][matches'[o].away]
                      IN /\ matches'[o].status \in Final <=> x # None /\ y # None
                         /\ matches'[o].status = "confirmed" <=> x # None /\ x = y
                         /\ matches'[o].score = IF matches'[o].status = "confirmed"
                                               THEN x ELSE None
    BY <1>3 DEF VerdictIsTheirs
  <2>1. CASE o = m
    <3>1. h.row.home \in Client /\ h.row.away \in Client
      BY <1>1, <1>4, <2>1 DEF Human, MatchRow, Side
    <3> QED
      BY <1>1, <1>4, <1>7, <2>1, <3>1 DEF CallFits, Final
  <2>2. CASE o # m
    BY <1>4, <2>2 DEF LeagueInv, VerdictIsTheirs, Human
  <2> QED
    BY <2>1, <2>2
<1> QED
  BY <1>5, <1>6, <1>8, <1>9 DEF LeagueInv

LEMMA ConfirmLeague ==
  ASSUME LeagueInv, NEW h \in open, ConfirmBotMatch(h)
  PROVE  LeagueInv'
<1> DEFINE m == h.match
           row == [matches[m] EXCEPT !.status = "confirmed", !.score = h.score]
<1>1. m \in Match /\ h.score \in Score /\ matches[m] # None /\ ~Human(m)
  BY DEF LeagueInv, TypeOK, Call, CallFits, ConfirmBotMatch
<1>2. matches[m] \in MatchRow
  BY <1>1 DEF LeagueInv, TypeOK
<1>3. row \in MatchRow /\ row # None /\ row.home = matches[m].home /\ row.away = matches[m].away
  BY <1>1, <1>2, RowAssumption DEF MatchRow, Final
<1>4. matches' = matches \/ matches' = [matches EXCEPT ![m] = row]
  BY <1>2 DEF ConfirmBotMatch, MatchRow
<1>5. matches \in [Match -> MatchRow \cup {None}] /\ reports' = reports /\ open' \subseteq open
  BY DEF LeagueInv, TypeOK, ConfirmBotMatch
<1>6. TypeOK'
  BY <1>3, <1>4 DEF LeagueInv, TypeOK, ConfirmBotMatch
<1> HIDE DEF m, row
<1>7. \A o \in Match : o # m => matches'[o] = matches[o]
  BY <1>4, <1>5
<1>8. /\ matches'[m] # None
      /\ matches'[m].home = matches[m].home /\ matches'[m].away = matches[m].away
  BY <1>1, <1>3, <1>4, <1>5
<1>9. \A g \in open' : CallFits(g)'
  BY <1>5, <1>7, <1>8, CallFitsKept
<1>10. ~Human(m)'
  BY <1>1, <1>8 DEF Human
<1>11. SidesReport'
  BY <1>1, <1>5, <1>7, <1>8, <1>10 DEF LeagueInv, SidesReport, Human
<1>12. VerdictIsTheirs'
  BY <1>5, <1>7, <1>10 DEF LeagueInv, VerdictIsTheirs, Human
<1> QED
  BY <1>6, <1>9, <1>11, <1>12 DEF LeagueInv

LEMMA SubmitLeague ==
  ASSUME LeagueInv, NEW h \in open, SubmitAndResolve(h)
  PROVE  LeagueInv'
<1> DEFINE m == h.match
           given == Reported(h)[m]
           home == matches[m].home
           away == matches[m].away
           reporters == {c \in Client : given[c] # None}
           scores == {given[c] : c \in reporters}
           verdict == IF Agree(scores)
                      THEN [matches[m] EXCEPT !.status = "confirmed",
                                              !.score = CHOOSE x \in scores : TRUE]
                      ELSE [matches[m] EXCEPT !.status = "disputed"]
           decided == matches[m].status = "pending" /\ Cardinality(reporters) = 2
<1>1. /\ m \in Match /\ h.client \in Client /\ h.score \in Score
      /\ Human(m) /\ h.client \in {home, away}
  BY DEF LeagueInv, TypeOK, Call, CallFits, SubmitAndResolve
<1>2. /\ matches \in [Match -> MatchRow \cup {None}] /\ open' \subseteq open
      /\ reports \in [Match -> [Client -> Score \cup {None}]]
  BY DEF LeagueInv, TypeOK, SubmitAndResolve
<1>3. matches[m] \in MatchRow /\ home \in Client /\ away \in Client /\ home # away
  BY <1>1, <1>2 DEF Human, MatchRow, Side, LeagueInv, SidesReport
<1>4. /\ reports' = Reported(h)
      /\ matches' = IF decided THEN [matches EXCEPT ![m] = verdict] ELSE matches
  BY DEF SubmitAndResolve
<1>5. /\ Reported(h) \in [Match -> [Client -> Score \cup {None}]]
      /\ \A o \in Match : o # m => Reported(h)[o] = reports[o]
      /\ \A c \in Client : c # h.client => given[c] = reports[m][c]
      /\ \A c \in Client : reports[m][c] # None => given[c] = reports[m][c]
      /\ given[h.client] # None
  BY <1>1, <1>2, CityLeagueAssumption DEF Reported
<1>6. \A c \in Client : given[c] # None => c \in {home, away}
  BY <1>1, <1>5 DEF LeagueInv, SidesReport
<1>7. Cardinality(reporters) = 2 <=> given[home] # None /\ given[away] # None
  <2>1. reporters \in SUBSET {home, away}
    BY <1>6
  <2>2. /\ home \in reporters <=> given[home] # None
        /\ away \in reporters <=> given[away] # None
    BY <1>3
  <2> HIDE DEF reporters, given, home, away
  <2> QED
    BY <1>3, <2>1, <2>2, BothOfTwo
<1>8. ASSUME decided
      PROVE  /\ given[home] # None /\ given[away] # None
             /\ verdict = IF given[home] = given[away]
                          THEN [matches[m] EXCEPT !.status = "confirmed", !.score = given[home]]
                          ELSE [matches[m] EXCEPT !.status = "disputed"]
  <2>1. given[home] # None /\ given[away] # None
    BY <1>7, <1>8
  <2>2. scores = {given[home], given[away]}
    BY <1>3, <1>6, <2>1
  <2>3. Agree(scores) <=> given[home] = given[away]
    <3>1. Agree({given[home], given[away]}) <=> given[home] = given[away]
      BY AgreeOnTwo
    <3> HIDE DEF scores, given, home, away
    <3> QED
      BY <2>2, <3>1
  <2>4. given[home] = given[away] => (CHOOSE x \in scores : TRUE) = given[home]
    BY <2>2
  <2> QED
    BY <2>1, <2>3, <2>4
<1>9. given[home] \in Score \cup {None} /\ given[away] \in Score \cup {None}
  BY <1>1, <1>3, <1>5
<1>10. ASSUME decided
       PROVE  /\ verdict \in MatchRow /\ verdict # None
              /\ verdict.home = home /\ verdict.away = away
              /\ verdict.status = IF given[home] = given[away] THEN "confirmed" ELSE "disputed"
              /\ verdict.score = IF given[home] = given[away] THEN given[home]
                                 ELSE matches[m].score
  <2> DEFINE sure == [matches[m] EXCEPT !.status = "confirmed", !.score = given[home]]
             unsure == [matches[m] EXCEPT !.status = "disputed"]
  <2>1. verdict = IF given[home] = given[away] THEN sure ELSE unsure
    BY <1>8, <1>10
  <2> HIDE DEF verdict, given
  <2>2. /\ sure \in MatchRow /\ sure.home = home /\ sure.away = away
        /\ sure.status = "confirmed" /\ sure.score = given[home]
    BY <1>3, <1>9 DEF MatchRow, Final
  <2>3. /\ unsure \in MatchRow /\ unsure.home = home /\ unsure.away = away
        /\ unsure.status = "disputed" /\ unsure.score = matches[m].score
    BY <1>3 DEF MatchRow, Final
  <2> HIDE DEF sure, unsure
  <2> QED
    BY <2>1, <2>2, <2>3, RowAssumption
<1> HIDE DEF given, reporters, scores, verdict, decided
<1>11. TypeOK'
  BY <1>1, <1>4, <1>5, <1>10 DEF LeagueInv, TypeOK, SubmitAndResolve
<1>12. /\ \A o \in Match : o # m => matches'[o] = matches[o]
       /\ matches'[m] = IF decided THEN verdict ELSE matches[m]
  BY <1>1, <1>2, <1>4
<1>13. matches'[m] # None /\ matches'[m].home = home /\ matches'[m].away = away
  BY <1>1, <1>10, <1>12 DEF Human
<1>14. \A g \in open' : CallFits(g)'
  BY <1>2, <1>12, <1>13, CallFitsKept
<1>15. Human(m)' /\ reports'[m] = given
  BY <1>1, <1>4, <1>13 DEF Human, given
<1>16. SidesReport'
  BY <1>3, <1>4, <1>5, <1>6, <1>12, <1>13, <1>15 DEF LeagueInv, SidesReport, Human
<1>17. /\ matches'[m].status \in Final <=> given[home] # None /\ given[away] # None
       /\ matches'[m].status = "confirmed" <=> given[home] # None /\ given[home] = given[away]
       /\ matches'[m].score = IF matches'[m].status = "confirmed" THEN given[home] ELSE None
  <2>1. /\ matches[m].status \in Final <=> reports[m][home] # None /\ reports[m][away] # None
        /\ matches[m].status = "confirmed" <=>
              reports[m][home] # None /\ reports[m][home] = reports[m][away]
        /\ matches[m].score = IF matches[m].status = "confirmed"
                              THEN reports[m][home] ELSE None
    BY <1>1 DEF LeagueInv, VerdictIsTheirs
  <2>2. matches[m].status \in {"pending"} \cup Final /\ "confirmed" \in Final
    BY <1>3 DEF MatchRow, Final
  <2>3. CASE decided
    BY <1>8, <1>10, <1>12, <2>1, <2>3 DEF decided, Final
  <2>4. CASE ~decided /\ matches[m].status = "pending"
    BY <1>7, <1>12, <2>1, <2>2, <2>4 DEF decided, Final
  <2>5. CASE matches[m].status # "pending"
    BY <1>3, <1>5, <1>12, <2>1, <2>2, <2>5 DEF decided, Final
  <2> QED
    BY <2>3, <2>4, <2>5
<1>18. VerdictIsTheirs'
  BY <1>4, <1>5, <1>12, <1>13, <1>15, <1>17 DEF LeagueInv, VerdictIsTheirs, Human
<1> QED
  BY <1>11, <1>14, <1>16, <1>18 DEF LeagueInv

LEMMA NextLeague == LeagueInv /\ [Next]_vars => LeagueInv'
<1> SUFFICES ASSUME LeagueInv, [Next]_vars PROVE LeagueInv'
  OBVIOUS
<1>1. ASSUME NEW h \in open, Fail(h) PROVE LeagueInv'
  <2>1. TypeOK'
    BY <1>1 DEF LeagueInv, TypeOK, Fail
  <2> QED
    BY <1>1, <2>1, QuietLeague DEF Fail
<1>2. CASE NextSeason
  <2>1. TypeOK'
    BY <1>2, CityLeagueAssumption DEF LeagueInv, TypeOK, NextSeason
  <2> QED
    BY <1>2, <2>1, QuietLeague DEF NextSeason
<1>3. CASE UNCHANGED vars
  BY <1>3, QuietLeague DEF vars, LeagueInv, TypeOK
<1> QED
  BY <1>1, <1>2, <1>3, ReadLeague, UpsertPlayerLeague, InsertLeague, SubmitLeague,
     ConfirmLeague DEF Next

LEMMA LeagueHolds == Spec => []LeagueInv
<1> QED
  BY InitLeague, NextLeague, PTL DEF Spec

-----------------------------------------------------------------------------
(***************************************************************************)
(* The theorems.                                                           *)
(***************************************************************************)
\* Every row, report and pending handler of the league is well typed, whatever
\* handlers overlap and fail (service.ts, d1-store.ts, bots.ts).
THEOREM TypeCorrect == Spec => []TypeOK
<1>1. LeagueInv => TypeOK
  BY DEF LeagueInv
<1> QED
  BY <1>1, LeagueHolds, PTL

\* However many reports of a match overlap, are sent again or get lost, it is
\* decided exactly when both sides have reported, confirmed exactly when they
\* reported one score, and that score is the one that counts
\* (d1-store.ts, submitAndResolve).
THEOREM VerdictCorrect == Spec => []VerdictIsTheirs
<1>1. LeagueInv => VerdictIsTheirs
  BY DEF LeagueInv
<1> QED
  BY <1>1, LeagueHolds, PTL

\* No report and no verdict is replaced in a step.
Stands ==
  \A m \in Match :
    /\ \A c \in Client : reports[m][c] # None => reports'[m][c] = reports[m][c]
    /\ matches[m] # None /\ matches[m].status \in Final => matches'[m] = matches[m]

LEMMA StepStands ==
  ASSUME LeagueInv, Next
  PROVE  Stands
<1>1. /\ matches \in [Match -> MatchRow \cup {None}] /\ open \subseteq Call
      /\ reports \in [Match -> [Client -> Score \cup {None}]]
  BY DEF LeagueInv, TypeOK
<1>2. CASE UNCHANGED <<matches, reports>>
  BY <1>2 DEF Stands
<1>3. ASSUME NEW h \in open, InsertMatch(h) PROVE Stands
  BY <1>1, <1>3 DEF InsertMatch, Stands
<1>4. ASSUME NEW h \in open, SubmitAndResolve(h) PROVE Stands
  <2>1. h.match \in Match /\ h.client \in Client
    BY <1>1, <1>4 DEF SubmitAndResolve, Call
  <2>2. \A m \in Match, c \in Client : reports[m][c] # None => reports'[m][c] = reports[m][c]
    BY <1>1, <1>4, <2>1 DEF SubmitAndResolve, Reported
  <2>3. \A m \in Match : matches[m].status \in Final => matches'[m] = matches[m]
    BY <1>1, <1>4, <2>1 DEF SubmitAndResolve, Final
  <2> QED
    BY <2>2, <2>3 DEF Stands
<1>5. ASSUME NEW h \in open, ConfirmBotMatch(h) PROVE Stands
  <2>1. h.match \in Match
    BY <1>1, <1>5 DEF ConfirmBotMatch, Call
  <2> QED
    BY <1>1, <1>5, <2>1 DEF ConfirmBotMatch, StillPending, Final, Stands
<1> QED
  BY <1>2, <1>3, <1>4, <1>5 DEF Next, UpsertProfile, CreateBotMatch, CreateMatch,
     FinishBotMatch, SubmitResult, Decide, UpsertPlayer, Fail, NextSeason

\* No report and no verdict is ever replaced, by a retry, a late handler or a
\* second replay (d1-store.ts: ON CONFLICT DO NOTHING; bots.ts: status='pending').
THEOREM ReportsFinal == Spec => ReportsStand
<1>1. LeagueInv /\ [Next]_vars => [Stands]_vars
  BY StepStands
<1> QED
  BY <1>1, LeagueHolds, PTL DEF Spec, ReportsStand, Stands

-----------------------------------------------------------------------------
(***************************************************************************)
(* The table.  What a match adds to it is counted one by one, so a sum     *)
(* over more matches, each of which adds what it added, is the number of   *)
(* elements of a larger set.                                               *)
(***************************************************************************)
\* What is counted of finitely many matches is finite.
LEMMA TotalFinite ==
  ASSUME NEW D, IsFiniteSet(D), NEW n \in [D -> Nat]
  PROVE  IsFiniteSet(UNION {{m} \X (1 .. n[m]) : m \in DOMAIN n})
<1> DEFINE Of == {{m} \X (1 .. n[m]) : m \in D}
           f == [m \in D |-> {m} \X (1 .. n[m])]
<1>1. f \in Surjection(D, Of)
  BY DEF Surjection
<1>2. IsFiniteSet(Of)
  <2> HIDE DEF f, Of
  <2> QED
    BY <1>1, FS_Surjection
<1>3. ASSUME NEW m \in D PROVE IsFiniteSet({m} \X (1 .. n[m]))
  <2>1. IsFiniteSet({m})
    BY FS_Singleton
  <2>2. n[m] \in Int
    OBVIOUS
  <2>3. IsFiniteSet(1 .. n[m])
    BY <2>2, FS_Interval
  <2> QED
    BY <2>1, <2>3, FS_Product
<1>4. \A T \in Of : IsFiniteSet(T)
  BY <1>3
<1>5. IsFiniteSet(UNION Of)
  <2> HIDE DEF Of
  <2> QED
    BY <1>2, <1>4, FS_UNION
<1> QED
  BY <1>5

\* A sum over more is no less.
LEMMA TotalGrows ==
  ASSUME NEW D, NEW E, IsFiniteSet(E), D \subseteq E,
         NEW n \in [D -> Nat], NEW o \in [E -> Nat], \A m \in D : o[m] = n[m]
  PROVE  Total(o) >= Total(n)
<1> DEFINE N == UNION {{m} \X (1 .. n[m]) : m \in DOMAIN n}
           O == UNION {{m} \X (1 .. o[m]) : m \in DOMAIN o}
<1>1. IsFiniteSet(O)
  BY TotalFinite
<1>2. N \subseteq O
  OBVIOUS
<1>3. /\ Total(n) = Cardinality(N) /\ Total(o) = Cardinality(O)
  BY DEF Total
<1> HIDE DEF N, O
<1>4. Cardinality(N) <= Cardinality(O) /\ IsFiniteSet(N)
  BY <1>1, <1>2, FS_Subset
<1>5. Cardinality(N) \in Nat /\ Cardinality(O) \in Nat
  BY <1>1, <1>4, FS_CardinalityType
<1> QED
  BY <1>3, <1>4, <1>5

\* A confirmed match against the computer has a score.
BotScored ==
  \A m \in Match :
    matches[m] # None /\ ~Human(m) /\ matches[m].status = "confirmed" => matches[m].score # None

LEMMA BotScoredKept ==
  ASSUME LeagueInv, BotScored, Next
  PROVE  BotScored'
<1>1. /\ matches \in [Match -> MatchRow \cup {None}] /\ open \subseteq Call
      /\ \A h \in open : CallFits(h)
  BY DEF LeagueInv, TypeOK
<1>2. CASE UNCHANGED matches
  BY <1>2 DEF BotScored, Human
<1>3. ASSUME NEW h \in open, InsertMatch(h) PROVE BotScored'
  <2>1. h \in Call /\ h.op = "create" /\ h.row.status = "pending"
    BY <1>1, <1>3 DEF InsertMatch, CallFits
  <2> QED
    BY <1>1, <1>3, <2>1 DEF InsertMatch, BotScored, Human
<1>4. ASSUME NEW h \in open, SubmitAndResolve(h) PROVE BotScored'
  <2>1. h.match \in Match /\ Human(h.match)
    BY <1>1, <1>4 DEF SubmitAndResolve, Call, CallFits
  <2>2. \A m \in Match : m # h.match => matches'[m] = matches[m]
    BY <1>1, <1>4, <2>1 DEF SubmitAndResolve
  <2>3. matches'[h.match].away = matches[h.match].away
    <3> DEFINE row == matches[h.match]
               confirmed(x) == [row EXCEPT !.status = "confirmed", !.score = x]
               disputed == [row EXCEPT !.status = "disputed"]
    <3>1. row \in MatchRow
      BY <1>1, <2>1 DEF Human
    <3>2. \E x : matches'[h.match] \in {row, confirmed(x), disputed}
      BY <1>1, <1>4, <2>1 DEF SubmitAndResolve
    <3>3. disputed.away = row.away /\ \A x : confirmed(x).away = row.away
      BY <3>1 DEF MatchRow
    <3> QED
      BY <3>2, <3>3
  <2> QED
    BY <1>1, <2>1, <2>2, <2>3 DEF BotScored, Human
<1>5. ASSUME NEW h \in open, ConfirmBotMatch(h) PROVE BotScored'
  <2>1. h.match \in Match /\ h.score \in Score /\ h.score # None
    BY <1>1, <1>5, CityLeagueAssumption DEF ConfirmBotMatch, Call
  <2>2. matches[h.match] \in MatchRow
    BY <1>1, <1>5, <2>1 DEF ConfirmBotMatch, CallFits
  <2> QED
    BY <1>1, <1>5, <2>1, <2>2 DEF ConfirmBotMatch, BotScored, Human, MatchRow
<1> QED
  BY <1>2, <1>3, <1>4, <1>5 DEF Next, UpsertProfile, CreateBotMatch, CreateMatch,
     FinishBotMatch, SubmitResult, Decide, UpsertPlayer, Fail, NextSeason

\* A match that counts has a score.
LEMMA CountedScored ==
  ASSUME LeagueInv, BotScored, NEW s \in 1 .. MaxSeason, NEW m \in Counted(s)
  PROVE  matches[m] \in MatchRow /\ matches[m].score \in Score
<1>1. m \in Match /\ matches[m] # None /\ matches[m].status = "confirmed"
  BY DEF Counted
<1>2. matches[m] \in MatchRow
  BY <1>1 DEF LeagueInv, TypeOK
<1>3. matches[m].score # None
  <2>1. CASE Human(m)
    BY <1>1, <2>1 DEF LeagueInv, VerdictIsTheirs
  <2>2. CASE ~Human(m)
    BY <1>1, <2>2 DEF BotScored
  <2> QED
    BY <2>1, <2>2
<1> QED
  BY <1>2, <1>3 DEF MatchRow

\* What one match adds to a country's goals and points.
LEMMA MatchAdds ==
  ASSUME LeagueInv, BotScored, NEW s \in 1 .. MaxSeason, NEW k \in Country,
         NEW m \in Counted(s)
  PROVE  Goals(m, k) \in Nat /\ Conceded(m, k) \in Nat /\ MatchPoints(m, k) \in Nat
<1>1. matches[m].score[1] \in Nat /\ matches[m].score[2] \in Nat
  BY CountedScored, CityLeagueAssumption
<1> QED
  BY <1>1 DEF Goals, Conceded, MatchPoints

AllAdd ==
  \A s \in 1 .. MaxSeason, k \in Country : \A m \in PlayedBy(s, k) :
    Goals(m, k) \in Nat /\ Conceded(m, k) \in Nat /\ MatchPoints(m, k) \in Nat

LEMMA AllMatchesAdd == LeagueInv /\ BotScored => AllAdd
<1> SUFFICES ASSUME LeagueInv, BotScored, NEW s \in 1 .. MaxSeason, NEW k \in Country,
                    NEW m \in PlayedBy(s, k)
             PROVE  Goals(m, k) \in Nat /\ Conceded(m, k) \in Nat /\ MatchPoints(m, k) \in Nat
  BY DEF AllAdd
<1>1. m \in Counted(s)
  BY DEF PlayedBy
<1> QED
  BY <1>1, MatchAdds

\* A match that counts goes on counting for what it counted.
LEMMA CountedKept ==
  ASSUME LeagueInv, BotScored, Next, NEW s \in 1 .. MaxSeason, NEW k \in Country
  PROVE  /\ PlayedBy(s, k) \subseteq PlayedBy(s, k)'
         /\ \A m \in PlayedBy(s, k) : /\ Goals(m, k)' = Goals(m, k)
                                      /\ Conceded(m, k)' = Conceded(m, k)
                                      /\ MatchPoints(m, k)' = MatchPoints(m, k)
<1>1. \A m \in Counted(s) : matches'[m] = matches[m]
  BY StepStands DEF Stands, Counted, Final
<1>2. Counted(s) \subseteq Counted(s)'
  BY <1>1 DEF Counted
<1>3. \A m \in PlayedBy(s, k) : m \in Counted(s) /\ matches'[m] = matches[m]
  BY <1>1 DEF PlayedBy
<1>4. PlayedBy(s, k) \subseteq PlayedBy(s, k)'
  BY <1>2, <1>3 DEF PlayedBy
<1>5. \A m \in PlayedBy(s, k) : Goals(m, k)' = Goals(m, k) /\ Conceded(m, k)' = Conceded(m, k)
  BY <1>3 DEF Goals, Conceded
<1>6. \A m \in PlayedBy(s, k) : MatchPoints(m, k)' = MatchPoints(m, k)
  BY <1>5 DEF MatchPoints
<1> QED
  BY <1>4, <1>5, <1>6

\* No country loses anything of a week's table in a step.
TableStands ==
  \A s \in 1 .. MaxSeason, k \in Country :
    LET old == Standing(s, k)
        new == Standing(s, k)'
    IN \A f \in DOMAIN old : new[f] >= old[f]

LEMMA StepTable ==
  ASSUME LeagueInv, BotScored, LeagueInv', BotScored', Next
  PROVE  TableStands
<1> SUFFICES ASSUME NEW s \in 1 .. MaxSeason, NEW k \in Country
             PROVE  \A f \in DOMAIN Standing(s, k) : Standing(s, k)'[f] >= Standing(s, k)[f]
  BY DEF TableStands
<1> DEFINE D == PlayedBy(s, k)
           E == PlayedBy(s, k)'
           goals == [m \in D |-> Goals(m, k)]
           conceded == [m \in D |-> Conceded(m, k)]
           points == [m \in D |-> MatchPoints(m, k)]
           goalsNow == [m \in E |-> Goals(m, k)']
           concededNow == [m \in E |-> Conceded(m, k)']
           pointsNow == [m \in E |-> MatchPoints(m, k)']
<1>1. D \subseteq E /\ \A m \in D : /\ goalsNow[m] = goals[m]
                                    /\ concededNow[m] = conceded[m]
                                    /\ pointsNow[m] = points[m]
  BY CountedKept
<1>2. /\ goals \in [D -> Nat] /\ conceded \in [D -> Nat] /\ points \in [D -> Nat]
  BY MatchAdds DEF PlayedBy
<1>3. \A m \in E : Goals(m, k)' \in Nat /\ Conceded(m, k)' \in Nat /\ MatchPoints(m, k)' \in Nat
  <2>1. (LeagueInv /\ BotScored => AllAdd)'
    BY AllMatchesAdd, PTL
  <2> QED
    BY <2>1 DEF AllAdd
<1>4. goalsNow \in [E -> Nat] /\ concededNow \in [E -> Nat] /\ pointsNow \in [E -> Nat]
  BY <1>3
<1>5. IsFiniteSet(E)
  <2>1. IsFiniteSet(Match)
    BY FS_Interval, CityLeagueAssumption DEF Match
  <2>2. E \subseteq Match
    BY DEF PlayedBy, Counted
  <2> QED
    BY <2>1, <2>2, FS_Subset
<1>6. /\ Standing(s, k) = [played |-> Cardinality(D), goalsFor |-> Total(goals),
                            goalsAgainst |-> Total(conceded), points |-> Total(points)]
      /\ Standing(s, k)' = [played |-> Cardinality(E), goalsFor |-> Total(goalsNow),
                             goalsAgainst |-> Total(concededNow), points |-> Total(pointsNow)]
  BY DEF Standing
<1> HIDE DEF D, E, goals, conceded, points, goalsNow, concededNow, pointsNow
<1>7. /\ Total(goalsNow) >= Total(goals) /\ Total(concededNow) >= Total(conceded)
      /\ Total(pointsNow) >= Total(points)
  BY <1>1, <1>2, <1>4, <1>5, TotalGrows
<1>8. Cardinality(E) >= Cardinality(D)
  <2>1. IsFiniteSet(D) /\ Cardinality(D) <= Cardinality(E)
    BY <1>1, <1>5, FS_Subset
  <2>2. Cardinality(D) \in Nat /\ Cardinality(E) \in Nat
    BY <1>5, <2>1, FS_CardinalityType
  <2> QED
    BY <2>1, <2>2
<1> QED
  BY <1>6, <1>7, <1>8

\* No country ever loses a point, a goal or a match of any week's table, whatever
\* the clients, the scores and the number of matches, and however replays, reports
\* and retries overlap (standings.ts, computeCityStandings).
THEOREM TableGrows == Spec => TableOnlyGrows
<1>1. Init => BotScored
  BY DEF Init, BotScored, Human
<1>2. LeagueInv /\ BotScored /\ [Next]_vars => BotScored'
  <2>1. CASE Next
    BY <2>1, BotScoredKept
  <2>2. CASE UNCHANGED vars
    BY <2>2 DEF vars, BotScored, Human
  <2> QED
    BY <2>1, <2>2
<1>3. Spec => []BotScored
  BY <1>1, <1>2, LeagueHolds, PTL DEF Spec
<1>4. LeagueInv /\ BotScored /\ LeagueInv' /\ BotScored' /\ [Next]_vars
        => [UNCHANGED matches \/ TableStands]_vars
  BY StepTable
<1> QED
  BY <1>3, <1>4, LeagueHolds, PTL DEF Spec, TableOnlyGrows, TableStands

-----------------------------------------------------------------------------
(***************************************************************************)
(* II. The matchmaker.  A handler decides on the table as it is before an  *)
(* await, or after one, and writes it back.  The conditions on a table are *)
(* therefore stated of any table r, and shown of each table that a handler *)
(* goes through.                                                           *)
(***************************************************************************)
\* Tickets are told apart by their owner and number.
LEMMA Tickets ==
  /\ \A t \in Ticket : /\ Owner(t) \in Searcher /\ t[2] \in Nat /\ t[2] >= 1
                       /\ t = <<Owner(t), t[2]>> /\ t # Null
  /\ \A c \in Searcher, n \in Nat : n \in 1 .. MaxSearches[c] => <<c, n>> \in Ticket
<1>1. MaxSearches \in [Searcher -> Nat]
  BY MatchmakingAssumption
<1>2. \A c \in Searcher : \A t \in {c} \X (1 .. MaxSearches[c]) :
        t[1] = c /\ t[2] \in Nat /\ t[2] >= 1 /\ t = <<t[1], t[2]>>
  BY <1>1
<1> QED
  BY <1>1, <1>2, NoneAssumption DEF Ticket, Owner

-----------------------------------------------------------------------------
(***************************************************************************)
(* The inductive invariant.                                                *)
(***************************************************************************)
\* Everything but the order of the queue has its type.
Typed ==
  /\ rows \in [Ticket -> Row \cup {Null}]
  /\ awaiting \subseteq [kind : {"room", "bot"}, ticket : Ticket, opponent : Ticket \cup {Null}]
  /\ requests \subseteq [path : {"join", "poll", "cancel"}, ticket : Ticket]
  /\ calls \subseteq [path : {"join", "poll"}, ticket : Ticket]
  /\ searches \in [Searcher -> Nat]
  /\ \A c \in Searcher : searches[c] <= MaxSearches[c]
  /\ phase \in [Searcher -> {"idle", "joining", "waiting", "polling", "playing"}]
  /\ seat \in [Searcher -> Assignment \cup {Null}]

\* A ticket that waits has nothing yet, and nobody has it.
Waiting(r) ==
  \A t \in Ticket : (r[t] # Null /\ r[t].state = "queued") =>
    /\ r[t].opponent = Null /\ r[t].assignment = Null
    /\ \A u \in Ticket : r[u] # Null => r[u].opponent # t

\* Tickets are paired two by two, across countries.
Paired(r) ==
  \A t \in Ticket : (r[t] # Null /\ r[t].opponent # Null) =>
    /\ CountryOf[Owner(t)] # CountryOf[Owner(r[t].opponent)]
    /\ r[r[t].opponent] # Null => r[r[t].opponent].opponent = t
    /\ \A u \in Ticket : (r[u] # Null /\ r[u].opponent = r[t].opponent) => u = t

\* Who has been assigned a match has been matched, with the computer or with the
\* opponent of the row, in the room that is named after the guest.
Assigned(r) ==
  \A t \in Ticket : (r[t] # Null /\ r[t].assignment # Null) =>
    /\ r[t].state = "matched"
    /\ r[t].assignment.kind = "bot" => r[t].opponent = Null
    /\ r[t].assignment.kind = "room" =>
         /\ r[t].opponent # Null
         /\ \/ r[t].assignment.role = "guest" /\ r[t].assignment.room = t
            \/ r[t].assignment.role = "host" /\ r[t].assignment.room = r[t].opponent

\* PairAgrees, of any table.
Agrees(r) ==
  \A t \in Ticket :
    (r[t] # Null /\ r[t].assignment # Null /\ r[t].assignment.kind = "room") =>
      LET o == r[t].opponent
      IN  r[o] # Null =>
            /\ r[o].state = "matched" /\ r[o].opponent = t
            /\ r[o].assignment # Null /\ r[o].assignment.kind = "room"
            /\ r[o].assignment.room = r[t].assignment.room
            /\ r[o].assignment.role # r[t].assignment.role

TableOK(r) ==
  /\ r \in [Ticket -> Row \cup {Null}]
  /\ Waiting(r) /\ Paired(r) /\ Assigned(r) /\ Agrees(r)

\* A handler that awaits owns its tickets: their rows are reserved for it, or have
\* been cancelled, or are gone; no other handler has them.
Handled(r, A) ==
  /\ \A h \in A :
       /\ h.kind = "room" => h.opponent \in Ticket /\ h.opponent # h.ticket
       /\ h.kind = "bot" => h.opponent = Null
       /\ r[h.ticket] # Null => /\ r[h.ticket].state \in {"reserving", "cancelled"}
                                /\ r[h.ticket].opponent = h.opponent
       /\ (h.kind = "room" /\ r[h.opponent] # Null) =>
            /\ r[h.opponent].state \in {"reserving", "cancelled"}
            /\ r[h.opponent].opponent = h.ticket
  /\ \A g, h \in A : \A t \in Ticket :
       (t \in {g.ticket, g.opponent} /\ t \in {h.ticket, h.opponent}) => g = h

\* The tickets of searches that have not begun, or whose join has not been handled,
\* are nowhere in the table and in no handler.
Fresh == {t \in Ticket : t[2] > searches[Owner(t)] \/ Request("join", t) \in requests}
Unused(r, A, F) ==
  \A t \in F :
    /\ r[t] = Null
    /\ \A u \in Ticket : r[u] # Null => r[u].opponent # t
    /\ \A h \in A : t \notin {h.ticket, h.opponent}
Unasked == \A q \in requests : q.ticket[2] <= searches[Owner(q.ticket)]

\* A client in a room is the guest the room is named after, or its only host, who
\* has been paired with that guest and nobody else since.
HostOf(c, t) == seat[c] # Null /\ seat[c].kind = "room" /\ seat[c].role = "host" /\ seat[c].room = t
Seated(r) ==
  \A c \in Searcher : seat[c] # Null =>
    /\ phase[c] = "playing" /\ Current(c) \in Ticket
    /\ seat[c].kind = "room" =>
         /\ seat[c].role = "guest" => seat[c].room = Current(c)
         /\ r[seat[c].room] # Null => r[seat[c].room].state # "queued"
         /\ seat[c].room \notin Fresh
         /\ seat[c].role = "host" =>
              /\ CountryOf[c] # CountryOf[Owner(seat[c].room)]
              /\ \A u \in Ticket : (r[u] # Null /\ r[u].opponent = seat[c].room) => u = Current(c)
              /\ \A d \in Searcher : HostOf(d, seat[c].room) => d = c

MatchInv ==
  /\ Typed
  /\ TableOK(rows)
  /\ Handled(rows, awaiting)
  /\ Unused(rows, awaiting, Fresh) /\ Unasked
  /\ Seated(rows)
  /\ \A c \in Searcher : phase[c] # "idle" => Current(c) \in Ticket

-----------------------------------------------------------------------------
(***************************************************************************)
(* Steps of a table that only end tickets.                                 *)
(***************************************************************************)
\* The tables that rows can be.
Tables == [Ticket -> Row \cup {Null}]

\* From table r to table s tickets are removed or cancelled; nothing else changes.
Ends(r, s) ==
  \A t \in Ticket : s[t] # Null =>
    /\ r[t] # Null
    /\ s[t].opponent = r[t].opponent
    /\ s[t] = r[t] \/ (s[t].state = "cancelled" /\ s[t].assignment = Null)

\* The opponent of a ticket that stays in its room stays there, or goes.
EndsBoth(r, s) ==
  \A t \in Ticket : (s[t] # Null /\ s[t] = r[t] /\ s[t].assignment # Null
                       /\ s[t].assignment.kind = "room") =>
    (s[t].opponent \in Ticket => s[s[t].opponent] \in {Null, r[s[t].opponent]})

\* A row is not NULL, and its opponent is a ticket or NULL.
LEMMA RowFields ==
  \A r \in Tables, t \in Ticket : r[t] # Null =>
    /\ r[t] \in Row
    /\ r[t].state \in {"queued", "reserving", "matched", "cancelled"}
    /\ r[t].opponent \in Ticket \cup {Null}
    /\ r[t].assignment \in Assignment \cup {Null}
BY DEF Tables, Row

\* Ending tickets leaves a table in order, if it ends those of a room together.
LEMMA EndsKeepsTable ==
  ASSUME NEW r \in Tables, NEW s \in Tables, TableOK(r), Ends(r, s), EndsBoth(r, s)
  PROVE  TableOK(s)
<1>1. Waiting(s)
  BY RowFields DEF TableOK, Waiting, Ends
<1>2. Paired(s)
  BY RowFields DEF TableOK, Paired, Ends
<1>3. Assigned(s)
  BY RowFields DEF TableOK, Assigned, Ends
<1>4. Agrees(s)
  <2> SUFFICES ASSUME NEW t \in Ticket, s[t] # Null, s[t].assignment # Null,
                      s[t].assignment.kind = "room", s[s[t].opponent] # Null
               PROVE  LET o == s[t].opponent IN
                        /\ s[o].state = "matched" /\ s[o].opponent = t
                        /\ s[o].assignment # Null /\ s[o].assignment.kind = "room"
                        /\ s[o].assignment.room = s[t].assignment.room
                        /\ s[o].assignment.role # s[t].assignment.role
    BY DEF Agrees
  <2>1. s[t] = r[t]
    BY DEF Ends
  <2>2. s[t].opponent \in Ticket
    BY <2>1, RowFields DEF TableOK, Assigned
  <2>3. s[s[t].opponent] = r[s[t].opponent]
    BY <2>1, <2>2 DEF EndsBoth
  <2> QED
    BY <2>1, <2>2, <2>3 DEF TableOK, Agrees
<1> QED
  BY <1>1, <1>2, <1>3, <1>4 DEF TableOK, Tables

\* Nor does it disturb handlers, tickets that are not in use, and clients in a room.
LEMMA EndsKeepsOthers ==
  ASSUME Typed, NEW r \in Tables, NEW s \in Tables, Ends(r, s),
         NEW A \in SUBSET [kind : {"room", "bot"}, ticket : Ticket, opponent : Ticket \cup {Null}]
  PROVE  /\ Handled(r, A) => Handled(s, A)
         /\ \A F \in SUBSET Ticket : Unused(r, A, F) => Unused(s, A, F)
         /\ Seated(r) => Seated(s)
<1>1. Handled(r, A) => Handled(s, A)
  BY RowFields DEF Handled, Ends
<1>2. \A F \in SUBSET Ticket : Unused(r, A, F) => Unused(s, A, F)
  BY DEF Unused, Ends
<1>3. Seated(r) => Seated(s)
  <2>1. \A c \in Searcher : seat[c] # Null /\ seat[c].kind = "room" => seat[c].room \in Ticket
    BY NoneAssumption DEF Typed, Assignment
  <2> QED
    BY <2>1, RowFields DEF Seated, Ends
<1> QED
  BY <1>1, <1>2, <1>3

\* One such step after another is one.
LEMMA EndsTransitive ==
  ASSUME NEW r, NEW s, NEW u, Ends(r, s), Ends(s, u)
  PROVE  Ends(r, u)
BY DEF Ends

\* expire(): nobody whose match has been made loses it because the time of his
\* opponent is up.
LEMMA ExpiredEnds ==
  ASSUME rows \in Tables, TableOK(rows), NEW gone \in Expiring
  PROVE  /\ Expired(gone) \in Tables
         /\ Ends(rows, Expired(gone)) /\ TableOK(Expired(gone))
<1> DEFINE s == Expired(gone)
<1>0. gone \subseteq Existing
  BY DEF Expiring
<1>1. s \in Tables
  BY RowFields DEF Expired, Tables, Row, Existing
<1>2. \A t \in Ticket : s[t] # Null =>
        /\ t \notin gone /\ rows[t] # Null
        /\ \/ s[t] = rows[t]
           \/ /\ s[t] = [rows[t] EXCEPT !.state = "cancelled"]
              /\ \E o \in gone : rows[t].opponent = o /\ rows[o].state \in {"queued", "reserving"}
  BY DEF Expired, Existing
<1>3. \A t \in Ticket : (s[t] # Null /\ s[t] # rows[t]) =>
        rows[t].assignment = Null
  <2> SUFFICES ASSUME NEW t \in Ticket, s[t] # Null, s[t] # rows[t], rows[t].assignment # Null
               PROVE  FALSE
    OBVIOUS
  <2>1. PICK o \in gone : rows[t].opponent = o /\ rows[o].state \in {"queued", "reserving"}
    BY <1>2
  <2>2. rows[t] # Null /\ o \in Ticket /\ rows[o] # Null /\ o # Null
    BY <1>0, <1>2, Tickets DEF Existing
  <2>3. rows[t].assignment.kind = "room"
    BY <2>1, <2>2, RowFields DEF TableOK, Assigned, Assignment
  <2> QED
    BY <2>1, <2>2, <2>3 DEF TableOK, Agrees
<1>4. Ends(rows, s)
  <2> SUFFICES ASSUME NEW t \in Ticket, s[t] # Null
               PROVE  /\ rows[t] # Null /\ s[t].opponent = rows[t].opponent
                      /\ s[t] = rows[t] \/ (s[t].state = "cancelled" /\ s[t].assignment = Null)
    BY DEF Ends
  <2>1. CASE s[t] = rows[t]
    BY <2>1, <1>2
  <2>2. CASE s[t] # rows[t]
    <3>1. /\ rows[t].assignment = Null /\ rows[t] # Null
          /\ s[t] = [rows[t] EXCEPT !.state = "cancelled"]
      BY <2>2, <1>2, <1>3
    <3>2. rows[t] \in Row
      BY <3>1, RowFields
    <3> QED
      BY <3>1, <3>2 DEF Row
  <2> QED
    BY <2>1, <2>2
<1>5. EndsBoth(rows, s)
  <2> SUFFICES ASSUME NEW t \in Ticket, s[t] # Null, s[t] = rows[t], s[t].assignment # Null,
                      s[t].assignment.kind = "room", s[t].opponent \in Ticket,
                      s[s[t].opponent] # Null, s[s[t].opponent] # rows[s[t].opponent]
               PROVE  FALSE
    BY DEF EndsBoth
  <2> DEFINE o == s[t].opponent
  <2>1. rows[o] # Null /\ rows[o].assignment = Null
    BY <1>2, <1>3
  <2> QED
    BY <2>1, <1>2 DEF TableOK, Agrees
<1> QED
  BY <1>1, <1>4, <1>5, EndsKeepsTable

-----------------------------------------------------------------------------
(***************************************************************************)
(* Steps of a table that bring tickets on.                                 *)
(***************************************************************************)
\* A ticket joins the queue.
Joined(r, t) ==
  [r EXCEPT ![t] = [state |-> "queued", opponent |-> Null, assignment |-> Null]]

\* A new ticket in the queue leaves the table in order.
LEMMA JoinedKeepsTable ==
  ASSUME NEW r \in Tables, TableOK(r), NEW t \in Ticket, r[t] = Null,
         \A u \in Ticket : r[u] # Null => r[u].opponent # t
  PROVE  Joined(r, t) \in Tables /\ TableOK(Joined(r, t))
<1> DEFINE s == Joined(r, t)
<1>1. /\ s \in Tables /\ s[t].state = "queued" /\ s[t].opponent = Null
      /\ s[t].assignment = Null /\ s[t] # Null
      /\ \A u \in Ticket : u # t => s[u] = r[u]
  BY NoneAssumption DEF Joined, Tables, Row
<1> HIDE DEF s
<1>2. Waiting(s)
  BY <1>1, RowFields, Tickets DEF TableOK, Waiting
<1>3. Paired(s)
  BY <1>1, RowFields, Tickets DEF TableOK, Paired
<1>4. Assigned(s)
  BY <1>1, RowFields DEF TableOK, Assigned
<1>5. Agrees(s)
  <2> SUFFICES ASSUME NEW u \in Ticket, s[u] # Null, s[u].assignment # Null,
                      s[u].assignment.kind = "room", s[s[u].opponent] # Null
               PROVE  s[u] = r[u] /\ s[s[u].opponent] = r[s[u].opponent]
    BY DEF TableOK, Agrees
  <2>1. u # t /\ s[u] = r[u]
    BY <1>1
  <2>2. s[u].opponent \in Ticket \ {t}
    BY <1>1, <2>1, RowFields DEF TableOK, Assigned
  <2> QED
    BY <1>1, <2>1, <2>2
<1> QED
  BY <1>1, <1>2, <1>3, <1>4, <1>5 DEF s, TableOK, Tables

\* Two tickets that wait are reserved for each other.
LEMMA ReservedKeepsTable ==
  ASSUME NEW r \in Tables, TableOK(r), NEW t \in Ticket, NEW o \in Ticket,
         r[t] # Null, r[t].state = "queued", r[o] # Null, r[o].state = "queued",
         CountryOf[Owner(o)] # CountryOf[Owner(t)]
  PROVE  /\ Reserved(r, t, o) \in Tables /\ TableOK(Reserved(r, t, o))
         /\ \A u \in Ticket : u \notin {t, o} => Reserved(r, t, o)[u] = r[u]
         /\ Reserved(r, t, o)[t] # Null /\ Reserved(r, t, o)[o] # Null
         /\ Reserved(r, t, o)[t].state = "reserving" /\ Reserved(r, t, o)[t].opponent = o
         /\ Reserved(r, t, o)[o].state = "reserving" /\ Reserved(r, t, o)[o].opponent = t
<1> DEFINE s == Reserved(r, t, o)
<1>0. o # t
  OBVIOUS
<1>1. r[o] \in Row /\ r[o].assignment = Null /\ r[o].opponent = Null
  BY RowFields DEF TableOK, Waiting
<1>2. /\ s \in [Ticket -> Row \cup {Null}]
      /\ \A u \in Ticket : u \notin {t, o} => s[u] = r[u]
      /\ s[t] = [state |-> "reserving", opponent |-> o, assignment |-> Null]
      /\ s[o] = [state |-> "reserving", opponent |-> t, assignment |-> Null]
  BY <1>0, <1>1 DEF Reserved, Tables, Row
<1>3. s[t] # Null /\ s[o] # Null /\ s \in Tables
  BY <1>2, NoneAssumption DEF Tables, Row
<1>4. \A u \in Ticket : r[u] # Null => r[u].opponent \notin {t, o}
  BY DEF TableOK, Waiting
<1> HIDE DEF s
<1>5. Waiting(s)
  BY <1>2, <1>3, RowFields DEF TableOK, Waiting
<1>6. Paired(s)
  BY <1>0, <1>2, <1>3, <1>4, RowFields, Tickets DEF TableOK, Paired
<1>7. Assigned(s)
  BY <1>2, <1>3, RowFields DEF TableOK, Assigned
<1>8. Agrees(s)
  <2> SUFFICES ASSUME NEW u \in Ticket, s[u] # Null, s[u].assignment # Null,
                      s[u].assignment.kind = "room", s[s[u].opponent] # Null
               PROVE  s[u] = r[u] /\ s[s[u].opponent] = r[s[u].opponent]
    BY DEF TableOK, Agrees
  <2>1. u \notin {t, o} /\ s[u] = r[u]
    BY <1>2
  <2>2. s[u].opponent \in Ticket \ {t, o}
    BY <1>4, <2>1, RowFields DEF TableOK, Assigned
  <2> QED
    BY <1>2, <2>1, <2>2
<1> QED
  BY <1>2, <1>3, <1>5, <1>6, <1>7, <1>8 DEF s, TableOK

\* The rows of tickets that no handler has are no business of the handlers.
LEMMA HandledElsewhere ==
  ASSUME NEW A \in SUBSET [kind : {"room", "bot"}, ticket : Ticket, opponent : Ticket \cup {Null}],
         NEW r, NEW s, Handled(r, A),
         \A h \in A : s[h.ticket] = r[h.ticket]
                      /\ (h.opponent \in Ticket => s[h.opponent] = r[h.opponent])
  PROVE  Handled(s, A)
BY DEF Handled

-----------------------------------------------------------------------------
(***************************************************************************)
(* What a reply does.                                                      *)
(***************************************************************************)
LEMMA AnswerEffect ==
  ASSUME Typed, NEW q \in [path : {"join", "poll"}, ticket : Ticket], NEW status, NEW a,
         (status = "matched" /\ a # Null) => a \in Assignment, Answer(q, status, a)
  PROVE  /\ calls' \subseteq calls /\ searches' = searches
         /\ requests' \subseteq (requests \ {q}) \cup {Request("cancel", q.ticket)}
         /\ phase' \in [Searcher -> {"idle", "joining", "waiting", "polling", "playing"}]
         /\ seat' \in [Searcher -> Assignment \cup {Null}]
         /\ \A c \in Searcher : phase'[c] # "idle" => phase[c] # "idle"
         /\ \A c \in Searcher : seat'[c] # Null =>
              \/ seat'[c] = seat[c] /\ phase'[c] = phase[c]
              \/ /\ q.ticket = Current(c) /\ phase'[c] = "playing"
                 /\ status = "matched" /\ seat'[c] = a
<1> DEFINE d == Owner(q.ticket)
<1>0. d \in Searcher
  BY Tickets
<1>1. CASE q \notin calls
  BY <1>1 DEF Answer, Typed
<1>2. CASE q \in calls /\ Searching(d) /\ q.ticket = Current(d)
  BY <1>0, <1>2 DEF Answer, Accept, Typed, Searching, Request
<1>3. CASE q \in calls /\ ~(Searching(d) /\ q.ticket = Current(d))
  BY <1>0, <1>3 DEF Answer, Ignore, Typed, Request
<1> QED
  BY <1>1, <1>2, <1>3

\* A search that begins makes nothing fresh that was not, and an answer nothing at all.
LEMMA FreshShrinks ==
  ASSUME Typed, searches' = searches,
         \A q \in requests' : q \in requests \/ q.path = "cancel"
  PROVE  Fresh' \subseteq Fresh
BY DEF Fresh, Request

\* The client that is told of its match takes the seat that its row names.
LEMMA AnswerKeepsInv ==
  ASSUME MatchInv, NEW q \in [path : {"join", "poll"}, ticket : Ticket], NEW status, NEW a,
         Answer(q, status, a), q.ticket[2] <= searches[Owner(q.ticket)],
         NEW s \in Tables, rows' = s, TableOK(s), Seated(s),
         awaiting' \subseteq
           [kind : {"room", "bot"}, ticket : Ticket, opponent : Ticket \cup {Null}],
         Handled(s, awaiting'), Unused(s, awaiting', Fresh'),
         (status = "matched" /\ a # Null) => s[q.ticket] # Null /\ a = s[q.ticket].assignment
  PROVE  MatchInv'
<1>0. Typed
  BY DEF MatchInv
<1>1. (status = "matched" /\ a # Null) => a \in Assignment
  BY RowFields
<1>2. /\ calls' \subseteq calls /\ searches' = searches
      /\ requests' \subseteq (requests \ {q}) \cup {Request("cancel", q.ticket)}
      /\ phase' \in [Searcher -> {"idle", "joining", "waiting", "polling", "playing"}]
      /\ seat' \in [Searcher -> Assignment \cup {Null}]
      /\ \A c \in Searcher : phase'[c] # "idle" => phase[c] # "idle"
      /\ \A c \in Searcher : seat'[c] # Null =>
           \/ seat'[c] = seat[c] /\ phase'[c] = phase[c]
           \/ /\ q.ticket = Current(c) /\ phase'[c] = "playing"
              /\ status = "matched" /\ seat'[c] = a
  BY <1>0, <1>1, AnswerEffect
<1>3. Typed'
  BY <1>0, <1>2 DEF Typed, Tables, Request
<1>4. Unasked'
  BY <1>2 DEF MatchInv, Unasked, Request
<1>5. Fresh' \subseteq Fresh
  BY <1>0, <1>2, FreshShrinks DEF Request
<1>6. \A c \in Searcher : (seat'[c] # Null /\ seat'[c].kind = "room") => seat'[c].room \in Ticket
  BY <1>2, NoneAssumption DEF Assignment
<1>7. \A c \in Searcher : Current(c)' = Current(c) /\ Owner(Current(c)) = c
  BY <1>2 DEF Current, Owner
<1>8. ASSUME NEW c \in Searcher, q.ticket = Current(c), status = "matched", a # Null,
             a.kind = "room"
      PROVE  /\ a.role = "guest" => a.room = Current(c)
             /\ s[a.room] # Null => s[a.room].state # "queued"
             /\ a.room \notin Fresh'
             /\ a.role = "host" =>
                  /\ s[Current(c)] # Null /\ s[Current(c)].opponent = a.room
                  /\ CountryOf[c] # CountryOf[Owner(a.room)]
                  /\ \A u \in Ticket : (s[u] # Null /\ s[u].opponent = a.room) => u = Current(c)
  <2> DEFINE t == Current(c)
  <2>1. t \in Ticket /\ s[t] # Null /\ a = s[t].assignment
    BY <1>8
  <2>2. /\ s[t].state = "matched" /\ s[t].opponent # Null /\ s[t].opponent \in Ticket
        /\ \/ a.role = "guest" /\ a.room = t
           \/ a.role = "host" /\ a.room = s[t].opponent
    BY <1>8, <2>1, RowFields DEF TableOK, Assigned
  <2>3. CASE a.role = "guest"
    <3>1. a.room = t
      BY <2>2, <2>3
    <3> QED
      BY <2>1, <2>2, <2>3, <3>1 DEF Unused
  <2>4. CASE a.role = "host"
    <3>1. a.room = s[t].opponent
      BY <2>2, <2>4
    <3>2. s[a.room] # Null => s[a.room].state = "matched"
      BY <1>8, <2>1, <3>1 DEF TableOK, Agrees
    <3>3. a.room \notin Fresh'
      BY <2>1, <3>1 DEF Unused
    <3>4. CountryOf[c] # CountryOf[Owner(a.room)]
      BY <1>7, <2>1, <2>2, <3>1 DEF TableOK, Paired
    <3>5. \A u \in Ticket : (s[u] # Null /\ s[u].opponent = a.room) => u = t
      BY <2>1, <2>2, <3>1 DEF TableOK, Paired
    <3> QED
      BY <2>1, <2>4, <3>1, <3>2, <3>3, <3>4, <3>5
  <2> QED
    BY <2>2, <2>3, <2>4
<1> DEFINE HostsNow(d, r) == /\ seat'[d] # Null /\ seat'[d].kind = "room"
                             /\ seat'[d].role = "host" /\ seat'[d].room = r
<1>9. Seated(rows)'
  <2> SUFFICES ASSUME NEW c \in Searcher, seat'[c] # Null
               PROVE  /\ phase'[c] = "playing" /\ Current(c) \in Ticket
                      /\ seat'[c].kind = "room" =>
                           /\ seat'[c].role = "guest" => seat'[c].room = Current(c)
                           /\ s[seat'[c].room] # Null => s[seat'[c].room].state # "queued"
                           /\ seat'[c].room \notin Fresh'
                           /\ seat'[c].role = "host" =>
                                /\ CountryOf[c] # CountryOf[Owner(seat'[c].room)]
                                /\ \A u \in Ticket :
                                     (s[u] # Null /\ s[u].opponent = seat'[c].room)
                                       => u = Current(c)
                                /\ \A d \in Searcher : HostsNow(d, seat'[c].room) => d = c
    BY <1>7 DEF Seated, HostOf
  <2>1. CASE seat'[c] = seat[c] /\ phase'[c] = phase[c]
    <3>1. ASSUME NEW d \in Searcher, HostsNow(d, seat'[c].room), seat[c].kind = "room",
                 seat[c].role = "host"
          PROVE  d = c
      <4>1. seat[c].room = seat'[d].room /\ seat'[d].role = "host"
        BY <2>1, <3>1
      <4>2. CASE seat'[d] = seat[d]
        BY <2>1, <3>1, <4>1, <4>2 DEF Seated, HostOf
      <4>3. CASE q.ticket = Current(d) /\ status = "matched" /\ seat'[d] = a
        <5>1. s[Current(d)] # Null /\ s[Current(d)].opponent = seat[c].room
          BY <1>8, <3>1, <4>1, <4>3
        <5>2. Current(d) = Current(c)
          BY <2>1, <3>1, <4>3, <5>1 DEF Seated
        <5> QED
          BY <1>7, <5>2
      <4> QED
        BY <1>2, <3>1, <4>2, <4>3
    <3> QED
      BY <1>5, <2>1, <3>1 DEF Seated
  <2>2. CASE q.ticket = Current(c) /\ phase'[c] = "playing" /\ status = "matched" /\ seat'[c] = a
    <3>1. ASSUME NEW d \in Searcher, HostsNow(d, seat'[c].room), a.kind = "room", a.role = "host"
          PROVE  d = c
      <4>1. s[Current(c)] # Null /\ s[Current(c)].opponent = a.room
        BY <1>8, <2>2, <3>1
      <4>2. CASE seat'[d] = seat[d]
        <5>1. Current(c) = Current(d)
          BY <2>2, <3>1, <4>1, <4>2 DEF Seated, HostOf
        <5> QED
          BY <1>7, <5>1
      <4>3. CASE q.ticket = Current(d)
        BY <1>7, <2>2, <4>3
      <4> QED
        BY <1>2, <3>1, <4>2, <4>3
    <3> QED
      BY <1>8, <2>2, <3>1
  <2> QED
    BY <1>2, <2>1, <2>2
<1>10. \A c \in Searcher : phase'[c] # "idle" => Current(c)' \in Ticket
  BY <1>2, <1>7 DEF MatchInv
<1> QED
  BY <1>3, <1>4, <1>9, <1>10 DEF MatchInv

\* A step that tells the clients nothing.
LEMMA SilenceKeepsInv ==
  ASSUME MatchInv, UNCHANGED clients, calls' \subseteq calls, requests' \subseteq requests,
         NEW s \in Tables, rows' = s, TableOK(s), Seated(s),
         awaiting' \subseteq
           [kind : {"room", "bot"}, ticket : Ticket, opponent : Ticket \cup {Null}],
         Handled(s, awaiting'), Unused(s, awaiting', Fresh')
  PROVE  MatchInv'
<1>0. /\ UNCHANGED <<searches, phase, seat>>
      /\ \A c \in Searcher : Current(c)' = Current(c)
  BY DEF clients, Current
<1>1. Typed'
  BY <1>0 DEF MatchInv, Typed, Tables
<1>2. Fresh' \subseteq Fresh
  BY <1>0, FreshShrinks DEF MatchInv
<1>3. Seated(rows)'
  BY <1>0, <1>2 DEF Seated, HostOf
<1>4. Unasked'
  BY <1>0 DEF MatchInv, Unasked
<1> QED
  BY <1>0, <1>1, <1>3, <1>4 DEF MatchInv

-----------------------------------------------------------------------------
(***************************************************************************)
(* The handlers.                                                           *)
(***************************************************************************)
\* What a table and those who hold on to it have to fit.
Fits(r, A, F) == r \in Tables /\ TableOK(r) /\ Handled(r, A) /\ Unused(r, A, F) /\ Seated(r)

\* Every handler begins by ending the tickets whose time is up.
LEMMA ExpiredFits ==
  ASSUME MatchInv, NEW gone \in Expiring
  PROVE  Fits(Expired(gone), awaiting, Fresh) /\ Ends(rows, Expired(gone))
<1>1. rows \in Tables /\ TableOK(rows) /\ Typed
  BY DEF MatchInv, Typed, Tables
<1>2. Expired(gone) \in Tables /\ Ends(rows, Expired(gone)) /\ TableOK(Expired(gone))
  BY <1>1, ExpiredEnds
<1>3. Fresh \subseteq Ticket
  BY DEF Fresh
<1> QED
  BY <1>1, <1>2, <1>3, EndsKeepsOthers DEF MatchInv, Typed, Fits

\* Fewer fresh tickets, or handlers, are no obstacle.
LEMMA FewerFit ==
  ASSUME NEW r, NEW A, NEW B \in SUBSET A, NEW F, NEW G \in SUBSET F, Fits(r, A, F)
  PROVE  Fits(r, B, G)
BY DEF Fits, Handled, Unused

\* The same, with the conditions on the table as one.
LEMMA AnswerFits ==
  ASSUME MatchInv, NEW q \in [path : {"join", "poll"}, ticket : Ticket], NEW status, NEW a,
         Answer(q, status, a), q.ticket[2] <= searches[Owner(q.ticket)],
         NEW s, rows' = s, Fits(s, awaiting', Fresh'),
         awaiting' \subseteq
           [kind : {"room", "bot"}, ticket : Ticket, opponent : Ticket \cup {Null}],
         (status = "matched" /\ a # Null) => s[q.ticket] # Null /\ a = s[q.ticket].assignment
  PROVE  MatchInv'
BY AnswerKeepsInv DEF Fits

\* The same, with the conditions on the table as one.
LEMMA SilenceFits ==
  ASSUME MatchInv, UNCHANGED clients, calls' \subseteq calls, requests' \subseteq requests,
         NEW s, rows' = s, Fits(s, awaiting', Fresh'),
         awaiting' \subseteq
           [kind : {"room", "bot"}, ticket : Ticket, opponent : Ticket \cup {Null}]
  PROVE  MatchInv'
BY SilenceKeepsInv DEF Fits

\* After an answer the ticket of a join is not fresh any more.
LEMMA AnsweredFresh ==
  ASSUME MatchInv, NEW q \in [path : {"join", "poll"}, ticket : Ticket], NEW status, NEW a,
         Answer(q, status, a), (status = "matched" /\ a # Null) => a \in Assignment,
         q.ticket[2] <= searches[Owner(q.ticket)]
  PROVE  Fresh' \subseteq Fresh /\ (q.path = "join" => q.ticket \notin Fresh')
<1>0. Typed
  BY DEF MatchInv
<1>1. /\ searches' = searches
      /\ requests' \subseteq (requests \ {q}) \cup {Request("cancel", q.ticket)}
  BY <1>0, AnswerEffect
<1>2. Fresh' \subseteq Fresh
  BY <1>0, <1>1, FreshShrinks DEF Request
<1>3. q.path = "join" => q = Request("join", q.ticket)
  BY DEF Request
<1>4. searches[Owner(q.ticket)] \in Nat /\ q.ticket[2] \in Nat
  BY <1>0, Tickets DEF Typed
<1>5. q.path = "join" => Request("join", q.ticket) \notin requests'
  BY <1>1, <1>3 DEF Request
<1>6. ~(q.ticket[2] > searches'[Owner(q.ticket)])
  BY <1>1, <1>4
<1> QED
  BY <1>2, <1>5, <1>6 DEF Fresh

\* The rows of the client's earlier tickets, which have been cancelled.
Cleared(r, t) ==
  [o \in Ticket |-> IF o \in {p \in Ticket : Owner(p) = Owner(t) /\ r[p] # Null}
                    THEN Null ELSE r[o]]

\* A join takes the rows of the client's cancelled searches away and queues its ticket.
LEMMA JoinedFits ==
  ASSUME MatchInv, NEW r, Fits(r, awaiting, Fresh), NEW t \in Fresh
  PROVE  Fits(Joined(Cleared(r, t), t), awaiting, Fresh \ {t})
<1> DEFINE c == Cleared(r, t)
           j == Joined(c, t)
<1>0. Typed /\ Fresh \subseteq Ticket /\ t \in Ticket /\ r \in Tables
  BY DEF MatchInv, Fresh, Fits
<1>1. c \in Tables /\ Ends(r, c) /\ EndsBoth(r, c)
  BY <1>0, RowFields DEF Cleared, Tables, Ends, EndsBoth
<1> HIDE DEF c
<1>2. TableOK(c) /\ Handled(c, awaiting) /\ Unused(c, awaiting, Fresh) /\ Seated(c)
  BY <1>0, <1>1, EndsKeepsTable, EndsKeepsOthers DEF Fits, Typed
<1>3. j \in Tables /\ TableOK(j)
  BY <1>0, <1>1, <1>2, JoinedKeepsTable DEF Unused
<1>4. /\ \A u \in Ticket : u # t => j[u] = c[u]
      /\ j[t].opponent = Null
  BY <1>0, <1>1 DEF Joined, Tables
<1> HIDE DEF j
<1>5. Handled(j, awaiting)
  <2>1. \A h \in awaiting : h.ticket \in Ticket /\ t \notin {h.ticket, h.opponent}
    BY <1>0, <1>2 DEF Unused, Typed
  <2> QED
    BY <1>0, <1>2, <1>4, <2>1, HandledElsewhere DEF Typed
<1>6. Unused(j, awaiting, Fresh \ {t})
  BY <1>0, <1>2, <1>4, Tickets DEF Unused
<1>7. Seated(j)
  <2>1. \A d \in Searcher : (seat[d] # Null /\ seat[d].kind = "room") =>
          seat[d].room \in Ticket /\ seat[d].room # t
    BY <1>0, <1>2, NoneAssumption DEF Typed, Assignment, Seated
  <2> QED
    BY <1>0, <1>2, <1>4, <2>1, Tickets DEF Seated
<1> QED
  BY <1>3, <1>5, <1>6, <1>7 DEF Fits, j, c

\* Whether a join is refused, waits, or reserves an opponent and awaits the room.
LEMMA HandleJoinKeepsInv ==
  ASSUME MatchInv, NEW t \in Ticket, NEW gone \in Expiring, HandleJoin(t, gone)
  PROVE  MatchInv'
<1> DEFINE q == Request("join", t)
           now == Expired(gone)
           joined == Joined(Cleared(now, t), t)
           found == Opponents(t, joined)
<1>0. Typed /\ q \in requests /\ t \in Fresh
  BY DEF HandleJoin, MatchInv, Fresh
<1>1. /\ q \in [path : {"join", "poll"}, ticket : Ticket] /\ q.ticket = t /\ q.path = "join"
      /\ q.ticket[2] <= searches[Owner(q.ticket)]
  BY <1>0 DEF Request, MatchInv, Unasked
<1>2. Fits(now, awaiting, Fresh)
  BY ExpiredFits
<1>3. Fits(joined, awaiting, Fresh \ {t})
  BY <1>0, <1>2, JoinedFits
<1>4. CASE Write(now) /\ Answer(q, "error", Null) /\ UNCHANGED awaiting
  <2>1. Fresh' \subseteq Fresh /\ rows' = now
    BY <1>1, <1>4, AnsweredFresh DEF Write
  <2> QED
    BY <1>0, <1>1, <1>2, <1>4, <2>1, FewerFit, AnswerFits DEF Typed
<1>5. CASE Write(joined) /\ AnswerStatus(q, joined[t]) /\ UNCHANGED awaiting
  <2>1. rows' = joined /\ joined[t].state = "queued" /\ joined[t].assignment = Null
    BY <1>5, <1>2 DEF Write, Joined, Cleared
  <2>2. Answer(q, "queued", Null)
    BY <1>5, <2>1 DEF AnswerStatus
  <2>3. Fresh' \subseteq Fresh \ {t}
    BY <1>1, <2>2, AnsweredFresh
  <2>4. Fits(joined, awaiting', Fresh')
    BY <1>3, <1>5, <2>3, FewerFit
  <2> QED
    BY <1>0, <1>1, <1>5, <2>1, <2>2, <2>4, AnswerFits DEF Typed
<1>6. ASSUME NEW o \in found, Write(Reserved(joined, t, o)),
             Suspend(q, [kind |-> "room", ticket |-> t, opponent |-> o])
      PROVE  MatchInv'
  <2> DEFINE s == Reserved(joined, t, o)
             h == [kind |-> "room", ticket |-> t, opponent |-> o]
  <2>1. /\ o \in Ticket /\ joined[o] # Null /\ joined[o].state = "queued"
        /\ CountryOf[Owner(o)] # CountryOf[Owner(t)]
        /\ joined[t] # Null /\ joined[t].state = "queued"
        /\ o # t /\ joined \in Tables /\ TableOK(joined)
    BY <1>3, NoneAssumption DEF Opponents, Joined, Cleared, Fits, Row
  <2>2. /\ s \in Tables /\ TableOK(s)
        /\ \A u \in Ticket : u \notin {t, o} => s[u] = joined[u]
        /\ s[t] # Null /\ s[o] # Null
        /\ s[t].state = "reserving" /\ s[t].opponent = o
        /\ s[o].state = "reserving" /\ s[o].opponent = t
    BY <2>1, ReservedKeepsTable
  <2>3. \A g \in awaiting : t \notin {g.ticket, g.opponent} /\ o \notin {g.ticket, g.opponent}
    <3>1. \A g \in awaiting : t \notin {g.ticket, g.opponent}
      BY <1>0, <1>2 DEF Fits, Unused
    <3> QED
      BY <1>0, <1>3, <2>1, <3>1, Tickets DEF Fits, Handled, Typed
  <2> HIDE DEF s, joined
  <2>4. Handled(s, awaiting)
    BY <1>0, <1>3, <2>2, <2>3, HandledElsewhere DEF Fits, Typed
  <2>5. Handled(s, awaiting \cup {h})
    BY <2>1, <2>2, <2>3, <2>4 DEF Handled
  <2>6. o \notin Fresh
    <3>1. o \in Fresh \ {t} => joined[o] = Null
      BY <1>3 DEF Fits, Unused
    <3> QED
      BY <2>1, <3>1
  <2>7. Unused(s, awaiting \cup {h}, Fresh \ {t})
    BY <1>0, <1>3, <2>2, <2>6 DEF Fits, Unused, Fresh
  <2>8. Seated(s)
    <3>1. \A d \in Searcher : (seat[d] # Null /\ seat[d].kind = "room") =>
            seat[d].room \in Ticket /\ seat[d].room \notin {t, o}
      BY <1>0, <1>3, <2>1, NoneAssumption DEF Typed, Assignment, Fits, Seated
    <3> QED
      BY <1>3, <2>2, <3>1 DEF Fits, Seated
  <2>9. /\ UNCHANGED <<calls, clients>> /\ rows' = s /\ awaiting' = awaiting \cup {h}
        /\ requests' = requests \ {q}
    BY <1>6 DEF Suspend, Write, s
  <2>10. Fresh' \subseteq Fresh \ {t}
    BY <1>0, <1>1, <2>9, Tickets DEF Fresh, Typed, clients, Request
  <2>11. Fits(s, awaiting', Fresh')
    BY <2>2, <2>5, <2>7, <2>8, <2>9, <2>10 DEF Fits, Unused
  <2>12. /\ awaiting' \subseteq
           [kind : {"room", "bot"}, ticket : Ticket,
                                 opponent : Ticket \cup {Null}]
         /\ calls' \subseteq calls /\ requests' \subseteq requests /\ UNCHANGED clients
    BY <1>0, <2>1, <2>9 DEF Typed
  <2> QED
    BY <2>9, <2>11, <2>12, SilenceFits
<1> HIDE DEF joined, found
<1>7. \/ Write(now) /\ Answer(q, "error", Null) /\ UNCHANGED awaiting
      \/ Write(joined) /\ AnswerStatus(q, joined[t]) /\ UNCHANGED awaiting
      \/ \E o \in found : /\ Write(Reserved(joined, t, o))
                          /\ Suspend(q, [kind |-> "room", ticket |-> t, opponent |-> o])
  BY DEF HandleJoin, joined, found, Joined, Cleared
<1> QED
  BY <1>4, <1>5, <1>6, <1>7

\* The tickets ts of a handler are cancelled, and the handler is done.
LEMMA CancelledFits ==
  ASSUME MatchInv, NEW h \in awaiting, NEW ts \in {{h.ticket}, {h.ticket, h.opponent}},
         h.kind = "room" => ts = {h.ticket, h.opponent}
  PROVE  Fits(Cancelled(rows, ts), awaiting \ {h}, Fresh)
<1> DEFINE s == Cancelled(rows, ts)
<1>0. /\ Typed /\ rows \in Tables /\ TableOK(rows) /\ Fresh \subseteq Ticket
      /\ Handled(rows, awaiting) /\ Unused(rows, awaiting, Fresh) /\ Seated(rows)
  BY DEF MatchInv, Typed, Tables, Fresh
<1>1. \A t \in Ticket : (t \in ts /\ rows[t] # Null) =>
        rows[t].state \in {"reserving", "cancelled"} /\ rows[t].assignment = Null
  <2>1. \A t \in Ticket : (t \in ts /\ rows[t] # Null) =>
          rows[t].state \in {"reserving", "cancelled"}
    BY <1>0, Tickets DEF Handled, Typed
  <2> QED
    BY <1>0, <2>1 DEF TableOK, Assigned
<1>2. \A t \in Ticket : s[t] # Null =>
        /\ rows[t] # Null /\ rows[t] \in Row
        /\ s[t] = IF t \in ts THEN [rows[t] EXCEPT !.state = "cancelled"] ELSE rows[t]
  BY <1>0, RowFields DEF Cancelled
<1>3. s \in Tables
  BY <1>0, RowFields DEF Cancelled, Tables, Row
<1>4. Ends(rows, s)
  <2> SUFFICES ASSUME NEW t \in Ticket, s[t] # Null
               PROVE  /\ rows[t] # Null /\ s[t].opponent = rows[t].opponent
                      /\ s[t] = rows[t] \/ (s[t].state = "cancelled" /\ s[t].assignment = Null)
    BY DEF Ends
  <2>1. CASE t \in ts
    BY <1>1, <1>2, <2>1 DEF Row
  <2>2. CASE t \notin ts
    BY <1>2, <2>2
  <2> QED
    BY <2>1, <2>2
<1>5. EndsBoth(rows, s)
  <2> SUFFICES ASSUME NEW t \in Ticket, s[t] # Null, s[t] = rows[t], s[t].assignment # Null,
                      s[t].assignment.kind = "room", s[t].opponent \in Ticket,
                      s[s[t].opponent] # Null
               PROVE  s[s[t].opponent] = rows[s[t].opponent]
    BY DEF EndsBoth
  <2>1. rows[rows[t].opponent] # Null /\ rows[t] # Null /\ Agrees(rows)
    BY <1>0, <1>2 DEF TableOK
  <2>2. rows[rows[t].opponent].state = "matched"
    BY <2>1 DEF Agrees
  <2> QED
    BY <1>1, <1>2, <2>1, <2>2
<1>6. TableOK(s)
  BY <1>0, <1>3, <1>4, <1>5, EndsKeepsTable
<1>7. Handled(s, awaiting) /\ Unused(s, awaiting, Fresh) /\ Seated(s)
  BY <1>0, <1>3, <1>4, EndsKeepsOthers DEF Typed
<1> QED
  BY <1>3, <1>6, <1>7, FewerFit DEF Fits

\* The ticket of a handler is in use.
LEMMA HandlerTickets ==
  ASSUME MatchInv, NEW h \in awaiting
  PROVE  /\ h.ticket \in Ticket /\ h.ticket \notin Fresh
         /\ h.ticket[2] <= searches[Owner(h.ticket)]
         /\ h.kind = "room" => h.opponent \in Ticket /\ h.opponent \notin Fresh
<1>1. Typed /\ h.ticket \in Ticket /\ (h.kind = "room" => h.opponent \in Ticket)
  BY DEF MatchInv, Typed, Handled
<1>2. h.ticket \notin Fresh /\ h.opponent \notin Fresh
  BY DEF MatchInv, Unused
<1>3. searches[Owner(h.ticket)] \in Nat /\ h.ticket[2] \in Nat
  BY <1>1, Tickets DEF Typed
<1> QED
  BY <1>1, <1>2, <1>3 DEF Fresh

\* A handler that cannot go on cancels its tickets and says so.
LEMMA FailureKeepsInv ==
  ASSUME MatchInv, NEW h \in awaiting, NEW ts \in {{h.ticket}, {h.ticket, h.opponent}},
         h.kind = "room" => ts = {h.ticket, h.opponent},
         NEW path \in {"join", "poll"}, Answer(Request(path, h.ticket), "error", Null),
         Write(Cancelled(rows, ts)), awaiting' = awaiting \ {h}
  PROVE  MatchInv'
<1> DEFINE q == Request(path, h.ticket)
<1>1. /\ q \in [path : {"join", "poll"}, ticket : Ticket]
      /\ q.ticket[2] <= searches[Owner(q.ticket)]
  BY HandlerTickets DEF Request
<1>2. Fresh' \subseteq Fresh
  BY <1>1, AnsweredFresh
<1>3. Fits(Cancelled(rows, ts), awaiting', Fresh')
  BY <1>2, CancelledFits, FewerFit
<1>4. rows' = Cancelled(rows, ts)
  BY DEF Write
<1>5. awaiting' \subseteq
           [kind : {"room", "bot"}, ticket : Ticket, opponent : Ticket \cup {Null}]
  BY DEF MatchInv, Typed
<1> QED
  BY <1>1, <1>3, <1>4, <1>5, AnswerFits

\* The two of a pair are given their room.
InRoom(h) ==
  LET Placed(o, role) ==
        [state |-> "matched", opponent |-> o,
         assignment |-> [kind |-> "room", room |-> h.ticket, role |-> role]]
  IN [u \in Ticket |-> IF u = h.ticket THEN Placed(h.opponent, "guest")
                       ELSE IF u = h.opponent THEN Placed(h.ticket, "host")
                       ELSE rows[u]]

\* A room that is ready is given to the two who are still reserved for each other.
LEMMA PairedFits ==
  ASSUME MatchInv, NEW h \in awaiting, h.kind = "room",
         StillReserved(h.ticket), StillReserved(h.opponent)
  PROVE  /\ Fits(InRoom(h), awaiting \ {h}, Fresh) /\ InRoom(h)[h.ticket] # Null
         /\ InRoom(h)[h.ticket].assignment = [kind |-> "room", room |-> h.ticket, role |-> "guest"]
<1> DEFINE t == h.ticket
           o == h.opponent
           s == InRoom(h)
           guest == [kind |-> "room", room |-> h.ticket, role |-> "guest"]
           host == [kind |-> "room", room |-> h.ticket, role |-> "host"]
<1>0. /\ Typed /\ rows \in Tables /\ TableOK(rows) /\ Fresh \subseteq Ticket
      /\ Handled(rows, awaiting) /\ Unused(rows, awaiting, Fresh) /\ Seated(rows)
  BY DEF MatchInv, Typed, Tables, Fresh
<1>1. /\ t \in Ticket /\ o \in Ticket /\ o # t
      /\ rows[t] \in Row /\ rows[o] \in Row /\ rows[t] # Null /\ rows[o] # Null
      /\ rows[t].opponent = o /\ rows[o].opponent = t
  BY <1>0, HandlerTickets, RowFields DEF Handled, StillReserved
<1>2. guest \in Assignment /\ host \in Assignment /\ guest # Null /\ host # Null
  BY <1>1, NoneAssumption DEF Assignment
<1>3. /\ s[t] = [state |-> "matched", opponent |-> o, assignment |-> guest]
      /\ s[o] = [state |-> "matched", opponent |-> t, assignment |-> host]
      /\ \A u \in Ticket : u \notin {t, o} => s[u] = rows[u]
      /\ s = [u \in Ticket |-> s[u]]
  BY <1>1 DEF InRoom
<1> HIDE DEF s
<1>4. /\ s[t] \in Row /\ s[t].state = "matched" /\ s[t].opponent = o /\ s[t].assignment = guest
      /\ s[o] \in Row /\ s[o].state = "matched" /\ s[o].opponent = t /\ s[o].assignment = host
      /\ s[t] # Null /\ s[o] # Null
  BY <1>1, <1>2, <1>3, NoneAssumption DEF Row
<1>5. s \in Tables
  BY <1>0, <1>1, <1>3, <1>4 DEF Tables
<1>6. \A u \in Ticket : (s[u] # Null <=> rows[u] # Null) /\ s[u].opponent = rows[u].opponent
  BY <1>1, <1>3, <1>4
<1>7. Waiting(s)
  BY <1>0, <1>3, <1>4, <1>6 DEF TableOK, Waiting
<1>8. Paired(s)
  BY <1>0, <1>6, RowFields DEF TableOK, Paired
<1>9. Assigned(s)
  <2> SUFFICES ASSUME NEW u \in Ticket, s[u] # Null, s[u].assignment # Null
               PROVE  /\ s[u].state = "matched"
                      /\ s[u].assignment.kind = "bot" => s[u].opponent = Null
                      /\ s[u].assignment.kind = "room" =>
                           /\ s[u].opponent # Null
                           /\ \/ s[u].assignment.role = "guest" /\ s[u].assignment.room = u
                              \/ s[u].assignment.role = "host" /\ s[u].assignment.room = s[u].opponent
    BY DEF Assigned
  <2>1. CASE u \in {t, o}
    BY <1>1, <1>4, <2>1, Tickets
  <2>2. CASE u \notin {t, o}
    BY <1>0, <1>3, <2>2 DEF TableOK, Assigned
  <2> QED
    BY <2>1, <2>2
<1>10. Agrees(s)
  <2> SUFFICES ASSUME NEW u \in Ticket, s[u] # Null, s[u].assignment # Null,
                      s[u].assignment.kind = "room", s[s[u].opponent] # Null
               PROVE  LET p == s[u].opponent IN
                        /\ s[p].state = "matched" /\ s[p].opponent = u
                        /\ s[p].assignment # Null /\ s[p].assignment.kind = "room"
                        /\ s[p].assignment.room = s[u].assignment.room
                        /\ s[p].assignment.role # s[u].assignment.role
    BY DEF Agrees
  <2>1. CASE u \in {t, o}
    BY <1>2, <1>4, <2>1
  <2>2. CASE u \notin {t, o}
    <3>1. s[u] = rows[u] /\ rows[u].opponent \in Ticket
      BY <1>0, <1>3, <2>2, RowFields DEF TableOK, Assigned
    <3>2. rows[u].opponent \notin {t, o}
      <4>1. rows[u] # Null /\ Paired(rows)
        BY <1>0, <1>6 DEF TableOK
      <4>2. rows[u].opponent = t => rows[t].opponent = u
        BY <1>1, <3>1, <4>1, Tickets DEF Paired
      <4>3. rows[u].opponent = o => rows[o].opponent = u
        BY <1>1, <3>1, <4>1, Tickets DEF Paired
      <4> QED
        BY <1>1, <2>2, <4>2, <4>3
    <3> QED
      BY <1>0, <1>3, <3>1, <3>2 DEF TableOK, Agrees
  <2> QED
    BY <2>1, <2>2
<1>11. Handled(s, awaiting \ {h})
  <2>1. \A g \in awaiting \ {h} : g.ticket \in Ticket \ {t, o} /\ g.opponent \notin {t, o}
    BY <1>0, <1>1 DEF Handled, Typed
  <2>2. Handled(rows, awaiting \ {h})
    BY <1>0 DEF Handled
  <2>3. awaiting \ {h} \in SUBSET [kind : {"room", "bot"}, ticket : Ticket,
                                    opponent : Ticket \cup {Null}]
    BY <1>0 DEF Typed
  <2> QED
    BY <1>3, <2>1, <2>2, <2>3, HandledElsewhere
<1>12. Unused(s, awaiting \ {h}, Fresh)
  BY <1>0, <1>1, <1>3, <1>6 DEF Unused
<1>13. Seated(s)
  <2>1. \A c \in Searcher : seat[c] # Null /\ seat[c].kind = "room" => seat[c].room \in Ticket
    BY <1>0, NoneAssumption DEF Typed, Assignment
  <2> QED
    BY <1>0, <1>3, <1>4, <1>6, <2>1 DEF Seated
<1> QED
  BY <1>4, <1>5, <1>7, <1>8, <1>9, <1>10, <1>11, <1>12, <1>13 DEF Fits, TableOK, Tables, s

\* A row that is matched, field by field.
LEMMA RowMatched ==
  ASSUME NEW x \in Row, NEW a
  PROVE  [[x EXCEPT !.state = "matched"] EXCEPT !.assignment = a]
           = [state |-> "matched", opponent |-> x.opponent, assignment |-> a]
<1>1. PICK y, z, w : x = [state |-> y, opponent |-> z, assignment |-> w]
  BY DEF Row
<1> DEFINE v == [x EXCEPT !.state = "matched"]
<1>2. v = [state |-> "matched", opponent |-> z, assignment |-> w] /\ x.opponent = z
  BY <1>1
<1> HIDE DEF v
<1>3. [v EXCEPT !.assignment = a] = [state |-> "matched", opponent |-> z, assignment |-> a]
  BY <1>2
<1> QED
  BY <1>2, <1>3 DEF v

\* That is what RoomReady() writes.
LEMMA InRoomIs ==
  ASSUME MatchInv, NEW h \in awaiting, h.kind = "room",
         StillReserved(h.ticket), StillReserved(h.opponent),
         NEW guest, guest = [kind |-> "room", room |-> h.ticket, role |-> "guest"],
         NEW host, host = [kind |-> "room", room |-> h.ticket, role |-> "host"]
  PROVE  [rows EXCEPT ![h.ticket].state = "matched", ![h.ticket].assignment = guest,
                      ![h.opponent].state = "matched", ![h.opponent].assignment = host]
           = InRoom(h)
<1> DEFINE t == h.ticket
           o == h.opponent
<1>1. /\ t \in Ticket /\ o \in Ticket /\ o # t
      /\ rows[t] \in Row /\ rows[o] \in Row
      /\ rows[t].opponent = o /\ rows[o].opponent = t
      /\ rows \in [Ticket -> Row \cup {Null}]
  BY HandlerTickets, RowFields DEF MatchInv, Typed, Tables, Handled, StillReserved
<1> DEFINE r1 == [rows EXCEPT ![t] = [rows[t] EXCEPT !.state = "matched"]]
           r2 == [r1 EXCEPT ![t] = [r1[t] EXCEPT !.assignment = guest]]
           r3 == [r2 EXCEPT ![o] = [r2[o] EXCEPT !.state = "matched"]]
           r4 == [r3 EXCEPT ![o] = [r3[o] EXCEPT !.assignment = host]]
<1>3. /\ r2[t] = [state |-> "matched", opponent |-> o, assignment |-> guest]
      /\ DOMAIN r2 = Ticket /\ r2 = [u \in Ticket |-> r2[u]]
      /\ \A u \in Ticket : u # t => r2[u] = rows[u]
  <2>1. /\ r2[t] = [[rows[t] EXCEPT !.state = "matched"] EXCEPT !.assignment = guest]
        /\ DOMAIN r2 = Ticket /\ r2 = [u \in Ticket |-> r2[u]]
        /\ \A u \in Ticket : u # t => r2[u] = rows[u]
    BY <1>1
  <2>2. r2[t] = [state |-> "matched", opponent |-> rows[t].opponent, assignment |-> guest]
    BY <1>1, <2>1, RowMatched
  <2> QED
    BY <1>1, <2>1, <2>2
<1> HIDE DEF r2
<1>4. /\ r4[o] = [state |-> "matched", opponent |-> t, assignment |-> host]
      /\ DOMAIN r4 = Ticket /\ r4 = [u \in Ticket |-> r4[u]]
      /\ \A u \in Ticket : u # o => r4[u] = r2[u]
  <2>1. r2[o] = rows[o]
    BY <1>1, <1>3
  <2>2. /\ r3[o] = [rows[o] EXCEPT !.state = "matched"]
        /\ r3 = [u \in Ticket |-> r3[u]]
        /\ \A u \in Ticket : u # o => r3[u] = r2[u]
    BY <1>1, <1>3, <2>1
  <2> HIDE DEF r3
  <2>3. /\ r4[o] = [r3[o] EXCEPT !.assignment = host]
        /\ r4 = [u \in Ticket |-> r4[u]] /\ DOMAIN r4 = Ticket
        /\ \A u \in Ticket : u # o => r4[u] = r3[u]
    BY <1>1, <2>2
  <2> HIDE DEF r4
  <2>4. r4[o] = [state |-> "matched", opponent |-> t, assignment |-> host]
    <3>1. r4[o] = [[rows[o] EXCEPT !.state = "matched"] EXCEPT !.assignment = host]
      BY <2>2, <2>3
    <3>2. r4[o] = [state |-> "matched", opponent |-> rows[o].opponent, assignment |-> host]
      BY <1>1, <3>1, RowMatched
    <3> QED
      BY <1>1, <3>2
  <2> QED
    BY <2>2, <2>3, <2>4
<1> HIDE DEF r4
<1>5. r4 = InRoom(h)
  BY <1>1, <1>3, <1>4 DEF InRoom
<1> QED
  BY <1>1, <1>5 DEF r2, r4

\* The room is there: both are told of it, or neither is.
LEMMA RoomReadyKeepsInv ==
  ASSUME MatchInv, NEW h \in awaiting, RoomReady(h)
  PROVE  MatchInv'
<1> DEFINE q == Request("join", h.ticket)
           guest == [kind |-> "room", room |-> h.ticket, role |-> "guest"]
           s == InRoom(h)
<1>1. /\ q \in [path : {"join", "poll"}, ticket : Ticket] /\ q.ticket = h.ticket
      /\ q.ticket[2] <= searches[Owner(q.ticket)]
  BY HandlerTickets DEF Request
<1>2. awaiting' = awaiting \ {h} /\ h.kind = "room"
  BY DEF RoomReady
<1>3. CASE StillReserved(h.ticket) /\ StillReserved(h.opponent)
  <2>1. Fits(s, awaiting \ {h}, Fresh) /\ s[h.ticket] # Null /\ s[h.ticket].assignment = guest
    BY <1>2, <1>3, PairedFits
  <2>2. Write(s) /\ AnswerStatus(q, s[h.ticket])
    BY <1>2, <1>3, InRoomIs DEF RoomReady
  <2>3. \E status : Answer(q, status, guest)
    BY <2>1, <2>2 DEF AnswerStatus
  <2>4. PICK status : Answer(q, status, guest)
    BY <2>3
  <2>5. guest \in Assignment /\ rows' = s
    BY <2>2, HandlerTickets DEF Assignment, Write
  <2> HIDE DEF s, guest
  <2>6. Fresh' \subseteq Fresh
    BY <1>1, <2>4, <2>5, AnsweredFresh
  <2>7. Fits(s, awaiting', Fresh')
    BY <1>2, <2>1, <2>6, FewerFit
  <2>8. awaiting' \subseteq
           [kind : {"room", "bot"}, ticket : Ticket, opponent : Ticket \cup {Null}]
    BY <1>2 DEF MatchInv, Typed
  <2> QED
    BY <1>1, <2>1, <2>4, <2>5, <2>7, <2>8, AnswerFits
<1>4. CASE ~(StillReserved(h.ticket) /\ StillReserved(h.opponent))
  <2>1. Write(Cancelled(rows, {h.ticket, h.opponent})) /\ Answer(q, "error", Null)
    BY <1>4 DEF RoomReady
  <2> QED
    BY <1>2, <2>1, FailureKeepsInv
<1> QED
  BY <1>3, <1>4

\* The room could not be initialised.
LEMMA RoomFailsKeepsInv ==
  ASSUME MatchInv, NEW h \in awaiting, RoomFails(h)
  PROVE  MatchInv'
BY FailureKeepsInv DEF RoomFails

\* The computer's match could not be created.
LEMMA BotFailsKeepsInv ==
  ASSUME MatchInv, NEW h \in awaiting, BotFails(h)
  PROVE  MatchInv'
<1>1. /\ h.kind # "room" /\ awaiting' = awaiting \ {h}
      /\ Write(Cancelled(rows, {h.ticket})) /\ Answer(Request("poll", h.ticket), "error", Null)
  BY DEF BotFails
<1> QED
  BY <1>1, FailureKeepsInv

\* The computer is given to a ticket that is still reserved for it.
WithBot(h, bot) ==
  [rows EXCEPT ![h.ticket].state = "matched", ![h.ticket].assignment = bot]

\* The computer is nobody's opponent: the ticket's row is the only one that changes.
LEMMA WithBotFits ==
  ASSUME MatchInv, NEW h \in awaiting, h.kind = "bot", StillReserved(h.ticket),
         NEW bot, bot = [kind |-> "bot"]
  PROVE  /\ Fits(WithBot(h, bot), awaiting \ {h}, Fresh)
         /\ WithBot(h, bot)[h.ticket] # Null /\ WithBot(h, bot)[h.ticket].assignment = bot
<1> DEFINE t == h.ticket
           s == WithBot(h, bot)
<1>0. /\ Typed /\ rows \in Tables /\ TableOK(rows) /\ Fresh \subseteq Ticket
      /\ Handled(rows, awaiting) /\ Unused(rows, awaiting, Fresh) /\ Seated(rows)
  BY DEF MatchInv, Typed, Tables, Fresh
<1>1. /\ t \in Ticket /\ rows[t] \in Row /\ rows[t] # Null /\ rows[t].opponent = Null
      /\ h.opponent = Null
  BY <1>0, HandlerTickets, RowFields DEF Handled, StillReserved
<1>2. bot \in Assignment /\ bot # Null
  BY NoneAssumption DEF Assignment
<1>3. /\ s[t] = [state |-> "matched", opponent |-> Null, assignment |-> bot]
      /\ \A u \in Ticket : u # t => s[u] = rows[u]
      /\ s = [u \in Ticket |-> s[u]]
  <2> DEFINE r1 == [rows EXCEPT ![t] = [rows[t] EXCEPT !.state = "matched"]]
             r2 == [r1 EXCEPT ![t] = [r1[t] EXCEPT !.assignment = bot]]
  <2>1. /\ r2[t] = [[rows[t] EXCEPT !.state = "matched"] EXCEPT !.assignment = bot]
        /\ \A u \in Ticket : u # t => r2[u] = rows[u]
        /\ r2 = [u \in Ticket |-> r2[u]]
    BY <1>0, <1>1 DEF Tables
  <2>2. r2[t] = [state |-> "matched", opponent |-> rows[t].opponent, assignment |-> bot]
    BY <1>1, <2>1, RowMatched
  <2> QED
    BY <1>1, <2>1, <2>2 DEF WithBot
<1> HIDE DEF s
<1>4. /\ s[t] \in Row /\ s[t] # Null /\ s[t].state = "matched" /\ s[t].opponent = Null
      /\ s[t].assignment = bot
  BY <1>2, <1>3, NoneAssumption DEF Row
<1>5. s \in Tables
  BY <1>0, <1>1, <1>3, <1>4 DEF Tables
<1>6. \A u \in Ticket : (s[u] # Null <=> rows[u] # Null) /\ s[u].opponent = rows[u].opponent
  BY <1>1, <1>3, <1>4
<1>7. Waiting(s)
  BY <1>0, <1>3, <1>4, <1>6 DEF TableOK, Waiting
<1>8. Paired(s)
  BY <1>0, <1>6, RowFields DEF TableOK, Paired
<1>9. Assigned(s)
  <2> SUFFICES ASSUME NEW u \in Ticket, s[u] # Null, s[u].assignment # Null
               PROVE  /\ s[u].state = "matched"
                      /\ s[u].assignment.kind = "bot" => s[u].opponent = Null
                      /\ s[u].assignment.kind = "room" =>
                           /\ s[u].opponent # Null
                           /\ \/ s[u].assignment.role = "guest" /\ s[u].assignment.room = u
                              \/ s[u].assignment.role = "host" /\ s[u].assignment.room = s[u].opponent
    BY DEF Assigned
  <2>1. CASE u = t
    BY <1>4, <2>1
  <2>2. CASE u # t
    BY <1>0, <1>3, <2>2 DEF TableOK, Assigned
  <2> QED
    BY <2>1, <2>2
<1>10. Agrees(s)
  <2> SUFFICES ASSUME NEW u \in Ticket, s[u] # Null, s[u].assignment # Null,
                      s[u].assignment.kind = "room", s[s[u].opponent] # Null
               PROVE  s[u] = rows[u] /\ s[s[u].opponent] = rows[s[u].opponent]
    BY <1>0 DEF TableOK, Agrees
  <2>1. u # t /\ s[u] = rows[u]
    BY <1>3, <1>4
  <2>2. s[u].opponent \in Ticket
    BY <1>0, <2>1, RowFields DEF TableOK, Assigned
  <2>3. s[u].opponent # t
    BY <1>0, <1>1, <2>1, Tickets DEF TableOK, Paired
  <2> QED
    BY <1>3, <2>1, <2>2, <2>3
<1>11. Handled(s, awaiting \ {h})
  <2>1. \A g \in awaiting \ {h} : g.ticket \in Ticket \ {t} /\ g.opponent # t
    BY <1>0, <1>1 DEF Handled, Typed
  <2>2. Handled(rows, awaiting \ {h})
    BY <1>0 DEF Handled
  <2>3. awaiting \ {h} \in SUBSET [kind : {"room", "bot"}, ticket : Ticket,
                                    opponent : Ticket \cup {Null}]
    BY <1>0 DEF Typed
  <2> QED
    BY <1>3, <2>1, <2>2, <2>3, HandledElsewhere
<1>12. Unused(s, awaiting \ {h}, Fresh)
  BY <1>0, <1>1, <1>3, <1>6 DEF Unused
<1>13. Seated(s)
  <2>1. \A c \in Searcher : seat[c] # Null /\ seat[c].kind = "room" => seat[c].room \in Ticket
    BY <1>0, NoneAssumption DEF Typed, Assignment
  <2> QED
    BY <1>0, <1>3, <1>4, <1>6, <2>1 DEF Seated
<1> QED
  BY <1>4, <1>5, <1>7, <1>8, <1>9, <1>10, <1>11, <1>12, <1>13 DEF Fits, TableOK, Tables, s

\* The computer is there, for a ticket that may have been cancelled meanwhile.
LEMMA BotReadyKeepsInv ==
  ASSUME MatchInv, NEW h \in awaiting, BotReady(h)
  PROVE  MatchInv'
<1> DEFINE q == Request("poll", h.ticket)
           bot == [kind |-> "bot"]
           s == WithBot(h, bot)
<1>1. /\ q \in [path : {"join", "poll"}, ticket : Ticket] /\ q.ticket = h.ticket
      /\ q.ticket[2] <= searches[Owner(q.ticket)]
  BY HandlerTickets DEF Request
<1>2. awaiting' = awaiting \ {h} /\ h.kind = "bot" /\ bot \in Assignment
  BY DEF BotReady, Assignment
<1>3. awaiting' \subseteq
           [kind : {"room", "bot"}, ticket : Ticket, opponent : Ticket \cup {Null}]
  BY <1>2 DEF MatchInv, Typed
<1>4. CASE StillReserved(h.ticket)
  <2>1. Fits(s, awaiting \ {h}, Fresh) /\ s[h.ticket] # Null /\ s[h.ticket].assignment = bot
    BY <1>2, <1>4, WithBotFits
  <2>2. rows' = s /\ Answer(q, "matched", bot)
    BY <1>4 DEF BotReady, Write, WithBot
  <2> HIDE DEF s, bot
  <2>3. Fresh' \subseteq Fresh
    BY <1>1, <1>2, <2>2, AnsweredFresh
  <2>4. Fits(s, awaiting', Fresh')
    BY <1>2, <2>1, <2>3, FewerFit
  <2> QED
    BY <1>1, <1>3, <2>1, <2>2, <2>4, AnswerFits
<1>5. CASE ~StillReserved(h.ticket)
  <2>1. rows' = rows /\ Answer(q, "cancelled", Null)
    BY <1>5 DEF BotReady, table
  <2>2. Fresh' \subseteq Fresh
    BY <1>1, <2>1, AnsweredFresh
  <2>3. Fits(rows, awaiting, Fresh)
    BY DEF Fits, MatchInv, Typed, Tables
  <2>4. Fits(rows, awaiting', Fresh')
    BY <1>2, <2>2, <2>3, FewerFit
  <2> QED
    BY <1>1, <1>3, <2>1, <2>4, AnswerFits
<1> QED
  BY <1>4, <1>5

\* Whether a poll finds no row, reserves the ticket for the computer, or reports its row.
LEMMA HandlePollKeepsInv ==
  ASSUME MatchInv, NEW t \in Ticket, NEW gone \in Expiring, NEW late \in BOOLEAN,
         HandlePoll(t, gone, late)
  PROVE  MatchInv'
<1> DEFINE q == Request("poll", t)
           now == Expired(gone)
           s == BotReserved(now, t)
           h == [kind |-> "bot", ticket |-> t, opponent |-> Null]
<1>0. Typed /\ q \in requests
  BY DEF HandlePoll, MatchInv
<1>1. /\ q \in [path : {"join", "poll"}, ticket : Ticket] /\ q.ticket = t
      /\ q.ticket[2] <= searches[Owner(q.ticket)]
  BY <1>0 DEF Request, MatchInv, Unasked
<1>2. Fits(now, awaiting, Fresh) /\ now \in Tables
  BY ExpiredFits DEF Fits
<1>3. ASSUME NEW status, NEW a, Write(now), Answer(q, status, a), UNCHANGED awaiting,
             (status = "matched" /\ a # Null) => now[t] # Null /\ a = now[t].assignment
      PROVE  MatchInv'
  <2>1. (status = "matched" /\ a # Null) => a \in Assignment
    BY <1>2, <1>3, RowFields
  <2>2. Fresh' \subseteq Fresh /\ rows' = now
    BY <1>1, <1>3, <2>1, AnsweredFresh DEF Write
  <2>3. Fits(now, awaiting', Fresh')
    BY <1>2, <1>3, <2>2, FewerFit
  <2> QED
    BY <1>0, <1>1, <1>3, <2>2, <2>3, AnswerFits DEF Typed
<1>4. CASE now[t] # Null /\ Due(now[t], late) /\ Write(s) /\ Suspend(q, h)
  <2>0. /\ now[t] \in Row /\ now[t] # Null /\ now[t].state = "queued"
        /\ now[t].opponent = Null /\ now[t].assignment = Null
        /\ \A u \in Ticket : now[u] # Null => now[u].opponent # t
    BY <1>2, <1>4, RowFields DEF Due, Fits, TableOK, Waiting
  <2>1. /\ s[t] = [state |-> "reserving", opponent |-> Null, assignment |-> Null]
        /\ \A u \in Ticket : u # t => s[u] = now[u]
        /\ s = [u \in Ticket |-> s[u]]
    BY <1>2, <2>0 DEF BotReserved, Tables, Row
  <2> HIDE DEF s, now
  <2>2. s[t] \in Row /\ s[t] # Null /\ s \in Tables
    BY <1>2, <2>1, NoneAssumption DEF Tables, Row
  <2>3. TableOK(now) /\ Handled(now, awaiting) /\ Unused(now, awaiting, Fresh) /\ Seated(now)
    BY <1>2 DEF Fits
  <2>4. Waiting(s)
    BY <2>0, <2>1, <2>2, <2>3, Tickets DEF TableOK, Waiting
  <2>5. Paired(s)
    <3>1. \A u \in Ticket : (s[u] # Null /\ s[u].opponent # Null) =>
            u # t /\ s[u] = now[u] /\ now[u].opponent \in Ticket \ {t}
      BY <1>2, <2>0, <2>1, RowFields
    <3> QED
      BY <2>1, <2>3, <3>1 DEF TableOK, Paired
  <2>6. Assigned(s)
    BY <2>1, <2>2, <2>3 DEF TableOK, Assigned
  <2>7. Agrees(s)
    <3> SUFFICES ASSUME NEW u \in Ticket, s[u] # Null, s[u].assignment # Null,
                        s[u].assignment.kind = "room", s[s[u].opponent] # Null
                 PROVE  s[u] = now[u] /\ s[s[u].opponent] = now[s[u].opponent]
      BY <2>3 DEF TableOK, Agrees
    <3>1. u # t /\ s[u] = now[u]
      BY <2>1
    <3>2. s[u].opponent \in Ticket \ {t}
      BY <1>2, <2>0, <2>3, <3>1, RowFields DEF TableOK, Assigned
    <3> QED
      BY <2>1, <3>1, <3>2
  <2>8. \A g \in awaiting : g.ticket \in Ticket \ {t} /\ g.opponent # t
    BY <1>0, <2>0, <2>3, Tickets DEF Handled, Typed
  <2>9. Handled(s, awaiting)
    BY <1>0, <2>1, <2>3, <2>8, HandledElsewhere DEF Typed
  <2>10. Handled(s, awaiting \cup {h})
    BY <2>1, <2>2, <2>8, <2>9, Tickets DEF Handled
  <2>11. t \notin Fresh
    BY <2>0, <2>3 DEF Unused
  <2>12. Unused(s, awaiting \cup {h}, Fresh)
    BY <2>1, <2>2, <2>3, <2>11, Tickets DEF Unused, Fresh
  <2>13. Seated(s)
    <3>1. \A d \in Searcher : (seat[d] # Null /\ seat[d].kind = "room") => seat[d].room \in Ticket
      BY <1>0, NoneAssumption DEF Typed, Assignment
    <3> QED
      BY <2>1, <2>2, <2>3, <3>1, Tickets DEF Seated
  <2>14. /\ UNCHANGED <<calls, clients>> /\ rows' = s /\ awaiting' = awaiting \cup {h}
         /\ requests' = requests \ {q}
    BY <1>4 DEF Suspend, Write
  <2>15. Fresh' \subseteq Fresh
    BY <1>0, <2>14, FreshShrinks DEF clients
  <2>16. Fits(s, awaiting', Fresh')
    BY <2>2, <2>4, <2>5, <2>6, <2>7, <2>10, <2>12, <2>13, <2>14, <2>15
       DEF Fits, TableOK, Tables, Unused
  <2>17. /\ awaiting' \subseteq
           [kind : {"room", "bot"}, ticket : Ticket,
                                 opponent : Ticket \cup {Null}]
         /\ calls' \subseteq calls /\ requests' \subseteq requests /\ UNCHANGED clients
    BY <1>0, <2>14 DEF Typed
  <2> QED
    BY <2>14, <2>16, <2>17, SilenceFits
<1>5. \/ Write(now) /\ Answer(q, "expired", Null) /\ UNCHANGED awaiting
      \/ now[t] # Null /\ Due(now[t], late) /\ Write(s) /\ Suspend(q, h)
      \/ now[t] # Null /\ Write(now) /\ AnswerStatus(q, now[t]) /\ UNCHANGED awaiting
  BY DEF HandlePoll
<1>6. CASE now[t] # Null /\ Write(now) /\ AnswerStatus(q, now[t]) /\ UNCHANGED awaiting
  <2>1. \E status : Answer(q, status, now[t].assignment)
    BY <1>6 DEF AnswerStatus
  <2> QED
    BY <1>3, <1>6, <2>1
<1>7. CASE Write(now) /\ Answer(q, "expired", Null) /\ UNCHANGED awaiting
  BY <1>3, <1>7
<1> QED
  BY <1>4, <1>5, <1>6, <1>7

\* A row that is cancelled, field by field.
EndedRow(x) == [x EXCEPT !.state = "cancelled", !.assignment = Null]

\* It is a row still, of the same pair, without a match.
LEMMA RowEnded ==
  ASSUME NEW x \in Row
  PROVE  /\ EndedRow(x) \in Row /\ EndedRow(x) # Null
         /\ EndedRow(x).state = "cancelled" /\ EndedRow(x).opponent = x.opponent
         /\ EndedRow(x).assignment = Null
<1>1. PICK y, z, w : x = [state |-> y, opponent |-> z, assignment |-> w]
                     /\ z \in Ticket \cup {Null}
  BY DEF Row
<1> DEFINE v == [x EXCEPT !.state = "cancelled"]
<1>2. v = [state |-> "cancelled", opponent |-> z, assignment |-> w] /\ x.opponent = z
  BY <1>1
<1> HIDE DEF v
<1>3. [v EXCEPT !.assignment = Null]
        = [state |-> "cancelled", opponent |-> z, assignment |-> Null]
  BY <1>2
<1>4. EndedRow(x) = [v EXCEPT !.assignment = Null]
  BY DEF EndedRow, v
<1>5. EndedRow(x) = [state |-> "cancelled", opponent |-> z, assignment |-> Null]
  BY <1>3, <1>4
<1>6. EndedRow(x) \in Row
  BY <1>1, <1>5 DEF Row
<1> QED
  BY <1>2, <1>5, <1>6, NoneAssumption

\* cancel() ends the ticket and the one it is paired with.
LEMMA HandleCancelEnds ==
  ASSUME MatchInv, NEW t \in Ticket, NEW gone \in Expiring, HandleCancel(t, gone)
  PROVE  \E s \in Tables : /\ rows' = s /\ Ends(Expired(gone), s)
                           /\ EndsBoth(Expired(gone), s)
<1> DEFINE now == Expired(gone)
           ended == [o \in Ticket |-> IF o \in CancelledWith(now, t) /\ now[o] # Null
                       THEN [now[o] EXCEPT !.state = "cancelled", !.assignment = Null]
                       ELSE now[o]]
           s == IF now[t] = Null THEN now ELSE ended
<1>0. rows' = s
  BY Zenon DEF HandleCancel, Write
<1>1. Fits(now, awaiting, Fresh) /\ now \in Tables /\ TableOK(now)
  BY ExpiredFits DEF Fits
<1>4. CASE now[t] = Null
  BY <1>0, <1>1, <1>4 DEF Ends, EndsBoth
<1>5. CASE now[t] # Null
  <2> HIDE DEF now
  <2>1. \A u \in Ticket :
          /\ (u \notin {t, now[t].opponent} \/ now[u] = Null) => ended[u] = now[u]
          /\ (u \in {t, now[t].opponent} /\ now[u] # Null) =>
               /\ ended[u] \in Row /\ ended[u] # Null
               /\ ended[u].state = "cancelled" /\ ended[u].opponent = now[u].opponent
               /\ ended[u].assignment = Null
    <3>1. \A u \in Ticket :
            /\ (u \notin {t, now[t].opponent} \/ now[u] = Null) => ended[u] = now[u]
            /\ (u \in {t, now[t].opponent} /\ now[u] # Null) => ended[u] = EndedRow(now[u])
      BY Zenon DEF CancelledWith, EndedRow
    <3> HIDE DEF ended
    <3> SUFFICES ASSUME NEW u \in Ticket, u \in {t, now[t].opponent}, now[u] # Null
                 PROVE  /\ ended[u] \in Row /\ ended[u] # Null
                        /\ ended[u].state = "cancelled" /\ ended[u].opponent = now[u].opponent
                        /\ ended[u].assignment = Null
      BY <3>1
    <3>2. ended[u] = EndedRow(now[u]) /\ now[u] \in Row
      BY <1>1, <3>1, RowFields
    <3> QED
      BY <3>2, RowEnded
  <2>2. ended = [u \in Ticket |-> ended[u]]
    OBVIOUS
  <2> HIDE DEF ended
  <2>3. ended \in Tables
    BY <1>1, <2>1, <2>2 DEF Tables
  <2>4. Ends(now, ended)
    BY <2>1 DEF Ends
  <2>5. EndsBoth(now, ended)
    <3> SUFFICES ASSUME NEW u \in Ticket, ended[u] # Null, ended[u] = now[u],
                        ended[u].assignment # Null, ended[u].assignment.kind = "room",
                        ended[u].opponent \in Ticket
                 PROVE  ended[ended[u].opponent] \in {Null, now[ended[u].opponent]}
      BY DEF EndsBoth
    <3>1. u \notin {t, now[t].opponent}
      BY <2>1
    <3>2. now[u].opponent # t
      BY <1>1, <1>5, <3>1, Tickets DEF TableOK, Paired
    <3>3. now[t].opponent # Null => now[u].opponent # now[t].opponent
      BY <1>1, <1>5, <3>1 DEF TableOK, Paired
    <3> QED
      BY <2>1, <3>2, <3>3, Tickets
  <2> QED
    BY <1>0, <1>5, <2>3, <2>4, <2>5 DEF now
<1> QED
  BY <1>4, <1>5

\* A cancellation ends tickets and is not answered.
LEMMA HandleCancelKeepsInv ==
  ASSUME MatchInv, NEW t \in Ticket, NEW gone \in Expiring, HandleCancel(t, gone)
  PROVE  MatchInv'
<1> DEFINE now == Expired(gone)
<1> HIDE DEF Expired
<1>0. /\ Typed /\ Fresh \subseteq Ticket
      /\ UNCHANGED <<awaiting, calls, clients>> /\ requests' \subseteq requests
  <2>1. UNCHANGED <<awaiting, calls, clients>> /\ requests' = requests \ {Request("cancel", t)}
    BY Zenon DEF HandleCancel
  <2> QED
    BY <2>1 DEF MatchInv, Fresh
<1>1. Fits(now, awaiting, Fresh) /\ now \in Tables
  BY ExpiredFits DEF Fits
<1>2. PICK s \in Tables : rows' = s /\ Ends(now, s) /\ EndsBoth(now, s)
  BY HandleCancelEnds
<1> HIDE DEF now
<1>3. Fresh' \subseteq Fresh
  BY <1>0, FreshShrinks DEF clients
<1>4. Fits(s, awaiting, Fresh)
  BY <1>0, <1>1, <1>2, EndsKeepsTable, EndsKeepsOthers DEF Fits, Typed
<1>5. Fits(s, awaiting', Fresh')
  BY <1>0, <1>3, <1>4, FewerFit
<1>6. awaiting' \subseteq
           [kind : {"room", "bot"}, ticket : Ticket, opponent : Ticket \cup {Null}]
  BY <1>0 DEF Typed
<1> QED
  BY <1>0, <1>2, <1>5, <1>6, SilenceFits

\* A restart forgets the handlers; the rows they had reserved wait for their expiry.
LEMMA RestartKeepsInv ==
  ASSUME MatchInv, Restart
  PROVE  MatchInv'
<1>1. awaiting' = {} /\ rows' = rows /\ UNCHANGED <<requests, calls, clients>>
  BY DEF Restart, table, net
<1>2. Fits(rows, awaiting, Fresh) /\ Fresh' = Fresh
  BY <1>1 DEF MatchInv, Fits, Typed, Tables, Fresh, clients
<1>3. Fits(rows, awaiting', Fresh')
  BY <1>1, <1>2, FewerFit
<1> QED
  BY <1>1, <1>3, SilenceFits

-----------------------------------------------------------------------------
(***************************************************************************)
(* The clients.                                                            *)
(***************************************************************************)
\* A step of a client that leaves the table and the other clients alone.
LEMMA ClientKeepsInv ==
  ASSUME MatchInv, Typed', UNCHANGED <<table, awaiting>>, Unasked', Fresh' \subseteq Fresh,
         \A c \in Searcher : seat'[c] # Null =>
           seat'[c] = seat[c] /\ phase'[c] = phase[c] /\ searches'[c] = searches[c],
         \A c \in Searcher : phase'[c] # "idle" => Current(c)' \in Ticket
  PROVE  MatchInv'
<1>1. rows' = rows /\ awaiting' = awaiting
  BY DEF table
<1>2. Unused(rows, awaiting, Fresh)'
  BY <1>1 DEF MatchInv, Unused
<1>3. TableOK(rows)' /\ Handled(rows, awaiting)'
  BY <1>1 DEF MatchInv
<1>4. Seated(rows)'
  BY <1>1 DEF MatchInv, Seated, HostOf, Current
<1> QED
  BY <1>2, <1>3, <1>4 DEF MatchInv

\* The ticket of a new search has never been used.
LEMMA StartSearchKeepsInv ==
  ASSUME MatchInv, NEW c \in Searcher, StartSearch(c)
  PROVE  MatchInv'
<1> DEFINE t == <<c, searches[c] + 1>>
<1>0. /\ Typed /\ searches[c] \in Nat /\ MaxSearches[c] \in Nat
      /\ MaxSearches \in [Searcher -> Nat]
  BY MatchmakingAssumption DEF MatchInv, Typed
<1>1. /\ phase[c] = "idle" /\ searches[c] < MaxSearches[c]
      /\ requests' = requests \cup {Request("join", t)}
      /\ calls' = calls \cup {Request("join", t)}
      /\ searches' = [searches EXCEPT ![c] = @ + 1]
      /\ phase' = [phase EXCEPT ![c] = "joining"]
      /\ UNCHANGED <<table, awaiting, seat>>
  BY DEF StartSearch
<1>2. t \in Ticket /\ Owner(t) = c /\ t[2] = searches[c] + 1
  BY <1>0, <1>1, Tickets DEF Owner
<1>3. Typed'
  BY <1>0, <1>1, <1>2 DEF Typed, table, Request
<1>4. Unasked'
  <2> SUFFICES ASSUME NEW q \in requests' PROVE q.ticket[2] <= searches'[Owner(q.ticket)]
    BY DEF Unasked
  <2>1. CASE q \in requests
    <3>1. /\ q.ticket[2] <= searches[Owner(q.ticket)] /\ Owner(q.ticket) \in Searcher
          /\ q.ticket[2] \in Nat /\ searches[Owner(q.ticket)] \in Nat
      BY <1>0, <2>1, Tickets DEF MatchInv, Unasked, Typed
    <3> QED
      BY <1>0, <1>1, <3>1 DEF Typed
  <2>2. CASE q = Request("join", t)
    BY <1>0, <1>1, <1>2, <2>2 DEF Request, Typed
  <2> QED
    BY <1>1, <2>1, <2>2
<1>5. Fresh' \subseteq Fresh
  <2> SUFFICES ASSUME NEW u \in Fresh' PROVE u \in Fresh
    OBVIOUS
  <2>1. u \in Ticket /\ Owner(u) \in Searcher /\ u[2] \in Nat /\ searches[Owner(u)] \in Nat
    BY <1>0, Tickets DEF Fresh, Typed
  <2>2. CASE u[2] > searches'[Owner(u)]
    BY <1>0, <1>1, <2>1, <2>2 DEF Typed, Fresh
  <2>3. CASE Request("join", u) \in requests'
    <3>1. Request("join", u) \in requests \/ u = t
      BY <1>1, <2>3 DEF Request
    <3> QED
      BY <1>0, <1>2, <2>1, <3>1 DEF Fresh
  <2> QED
    BY <2>2, <2>3 DEF Fresh
<1>6. \A d \in Searcher : phase'[d] # "idle" => Current(d)' \in Ticket
  BY <1>0, <1>1, <1>2 DEF MatchInv, Typed, Current
<1>7. seat[c] = Null
  BY <1>1 DEF MatchInv, Seated
<1>8. \A d \in Searcher : seat'[d] # Null =>
        seat'[d] = seat[d] /\ phase'[d] = phase[d] /\ searches'[d] = searches[d]
  BY <1>0, <1>1, <1>7 DEF Typed
<1> QED
  BY <1>1, <1>3, <1>4, <1>5, <1>6, <1>8, ClientKeepsInv

\* A call that is made, given up or cancelled is one of the search in progress.
LEMMA AskingKeepsInv ==
  ASSUME MatchInv, NEW c \in Searcher, phase[c] # "idle",
         requests' \subseteq
           requests \cup {Request("poll", Current(c)), Request("cancel", Current(c))},
         calls' \subseteq calls \cup {Request("poll", Current(c))},
         UNCHANGED <<table, awaiting, searches>>,
         \/ phase' = [phase EXCEPT ![c] = "polling"] /\ seat' = seat /\ phase[c] = "waiting"
         \/ phase' = [phase EXCEPT ![c] = "idle"] /\ seat' = [seat EXCEPT ![c] = Null]
         \/ phase' = [phase EXCEPT ![c] = "idle"] /\ seat' = seat /\ phase[c] # "playing"
  PROVE  MatchInv'
<1>0. Typed /\ Current(c) \in Ticket
  BY DEF MatchInv
<1>1. /\ Owner(Current(c)) = c /\ Current(c)[2] = searches[c] /\ searches[c] \in Nat
      /\ \A d \in Searcher : Current(d)' = Current(d)
  BY <1>0 DEF Current, Owner, Typed
<1>2. Typed'
  BY <1>0 DEF Typed, table, Request
<1>3. Unasked'
  BY <1>1 DEF MatchInv, Unasked, Request
<1>4. Fresh' \subseteq Fresh
  BY DEF Fresh, Request
<1>5. \A d \in Searcher : phase'[d] # "idle" => Current(d)' \in Ticket
  BY <1>0, <1>1 DEF MatchInv, Typed
<1>6. \A d \in Searcher : seat'[d] # Null => seat'[d] = seat[d] /\ phase'[d] = phase[d]
  BY <1>0 DEF MatchInv, Typed, Seated
<1> QED
  BY <1>2, <1>3, <1>4, <1>5, <1>6, ClientKeepsInv

\* The timer between two polls.
LEMMA PollKeepsInv ==
  ASSUME MatchInv, NEW c \in Searcher, Poll(c)
  PROVE  MatchInv'
<1>1. /\ phase[c] = "waiting" /\ phase' = [phase EXCEPT ![c] = "polling"]
      /\ requests' = requests \cup {Request("poll", Current(c))}
      /\ calls' = calls \cup {Request("poll", Current(c))}
      /\ UNCHANGED <<table, awaiting, searches, seat>>
  BY DEF Poll
<1> QED
  BY <1>1, AskingKeepsInv

\* The user leaves the search, or the match.
LEMMA StopKeepsInv ==
  ASSUME MatchInv, NEW c \in Searcher, Stop(c)
  PROVE  MatchInv'
<1>1. /\ phase[c] # "idle" /\ phase' = [phase EXCEPT ![c] = "idle"]
      /\ seat' = [seat EXCEPT ![c] = Null]
      /\ requests' \subseteq requests \cup {Request("cancel", Current(c))}
      /\ UNCHANGED <<table, awaiting, calls, searches>>
  BY DEF Stop, CancelRequests
<1> QED
  BY <1>1, AskingKeepsInv

\* A call that is given up may still be handled.
LEMMA CallFailsKeepsInv ==
  ASSUME MatchInv, NEW q \in calls, CallFails(q)
  PROVE  MatchInv'
<1> DEFINE c == Owner(q.ticket)
<1>0. c \in Searcher /\ Typed
  BY Tickets DEF MatchInv, Typed
<1>1. CASE Searching(c) /\ q.ticket = Current(c)
  <2>1. /\ phase[c] # "idle" /\ phase[c] # "playing"
        /\ phase' = [phase EXCEPT ![c] = "idle"]
        /\ requests' \subseteq requests \cup {Request("cancel", Current(c))}
        /\ calls' \subseteq calls /\ UNCHANGED <<table, awaiting, searches, seat>>
    BY <1>1 DEF CallFails, CancelRequests, Searching
  <2> QED
    BY <1>0, <2>1, AskingKeepsInv
<1>2. CASE ~(Searching(c) /\ q.ticket = Current(c))
  <2>1. /\ UNCHANGED <<table, awaiting, searches, seat, phase, requests>>
        /\ calls' \subseteq calls
    BY <1>2 DEF CallFails
  <2>2. UNCHANGED clients /\ rows' = rows
    BY <2>1 DEF clients, table
  <2>3. Fits(rows, awaiting', Fresh')
    BY <2>1 DEF MatchInv, Fits, Typed, Tables, Fresh
  <2> QED
    BY <1>0, <2>1, <2>2, <2>3, SilenceFits DEF Typed
<1> QED
  BY <1>1, <1>2

-----------------------------------------------------------------------------
(***************************************************************************)
(* The theorems.                                                           *)
(***************************************************************************)
\* At the start nobody has asked for anything.
LEMMA InitMatchInv ==
  QueueInit => MatchInv
<1> SUFFICES ASSUME QueueInit PROVE MatchInv
  OBVIOUS
<1>1. MaxSearches \in [Searcher -> Nat]
  BY MatchmakingAssumption
<1>2. Typed
  BY <1>1 DEF QueueInit, Typed
<1>3. \A t \in Ticket : rows[t] = Null
  BY DEF QueueInit
<1>4. TableOK(rows)
  BY <1>2, <1>3 DEF TableOK, Waiting, Paired, Assigned, Agrees, Typed
<1>5. Handled(rows, awaiting) /\ Unused(rows, awaiting, Fresh) /\ Unasked
  BY <1>3 DEF QueueInit, Handled, Unused, Unasked, Fresh
<1>6. \A c \in Searcher : seat[c] = Null /\ phase[c] = "idle"
  BY DEF QueueInit
<1> QED
  BY <1>2, <1>4, <1>5, <1>6 DEF MatchInv, Seated

\* Every step keeps the invariant.
LEMMA NextMatchInv ==
  MatchInv /\ [QueueNext]_queueVars => MatchInv'
<1> SUFFICES ASSUME MatchInv, [QueueNext]_queueVars PROVE MatchInv'
  OBVIOUS
<1>1. ASSUME NEW t \in Ticket, Handle(t) PROVE MatchInv'
  <2>1. PICK gone \in Expiring : \/ HandleJoin(t, gone) \/ HandleCancel(t, gone)
                                \/ \E late \in BOOLEAN : HandlePoll(t, gone, late)
    BY <1>1 DEF Handle
  <2> QED
    BY <2>1, HandleJoinKeepsInv, HandleCancelKeepsInv, HandlePollKeepsInv
<1>2. ASSUME NEW h \in awaiting, Resume(h) PROVE MatchInv'
  BY <1>2, RoomReadyKeepsInv, RoomFailsKeepsInv, BotReadyKeepsInv, BotFailsKeepsInv DEF Resume
<1>3. CASE Restart
  BY <1>3, RestartKeepsInv
<1>4. ASSUME NEW c \in Searcher, StartSearch(c) \/ Poll(c) \/ Stop(c) PROVE MatchInv'
  BY <1>4, StartSearchKeepsInv, PollKeepsInv, StopKeepsInv
<1>5. ASSUME NEW q \in calls, CallFails(q) PROVE MatchInv'
  BY <1>5, CallFailsKeepsInv
<1>6. CASE UNCHANGED queueVars
  <2>1. UNCHANGED <<rows, awaiting, requests, calls, searches, phase, seat>>
    BY <1>6 DEF queueVars, table, net, clients
  <2> QED
    BY <2>1 DEF MatchInv, Typed, TableOK, Waiting, Paired, Assigned, Agrees, Handled, Unused,
                Unasked, Fresh, Seated, HostOf, Current
<1> QED
  BY <1>1, <1>2, <1>3, <1>4, <1>5, <1>6 DEF QueueNext

\* MatchInv holds throughout: of the types, of the table and of who holds on to it.
THEOREM MatchInvHolds == QueueSpec => []MatchInv
BY InitMatchInv, NextMatchInv, PTL DEF QueueSpec

\* PairAgrees: the two rows of a pair never disagree, whoever cancels, gives up
\* or is slow, and whichever handler comes back from an await first.
THEOREM PairAgreesHolds == QueueSpec => []PairAgrees
<1>1. MatchInv => PairAgrees
  BY Tickets DEF MatchInv, TableOK, Agrees, PairAgrees, Existing
<1> QED
  BY <1>1, MatchInvHolds, PTL

\* ReservedOnce: no two handlers prepare a match for one ticket, although each of
\* them reads the table before its await and writes it after.
THEOREM ReservedOnceHolds == QueueSpec => []ReservedOnce
<1>1. MatchInv => ReservedOnce
  <2> SUFFICES ASSUME MatchInv, NEW t \in Ticket
               PROVE  Cardinality({h \in awaiting : t \in {h.ticket, h.opponent}}) <= 1
    BY DEF ReservedOnce
  <2> DEFINE H == {h \in awaiting : t \in {h.ticket, h.opponent}}
  <2>1. \A g, h \in H : g = h
    BY DEF MatchInv, Handled
  <2>2. CASE H = {}
    BY <2>2, FS_EmptySet
  <2>3. CASE H # {}
    <3>1. PICK h : H = {h}
      BY <2>1, <2>3
    <3>2. Cardinality({h}) = 1
      BY FS_Singleton
    <3> QED
      BY <3>1, <3>2
  <2> QED
    BY <2>2, <2>3
<1> QED
  BY <1>1, MatchInvHolds, PTL

\* SeatedTogether: those who play in one room are its host and its guest, of two
\* countries, although a reply may come late or never.
THEOREM SeatedTogetherHolds == QueueSpec => []SeatedTogether
<1>1. MatchInv => SeatedTogether
  <2> SUFFICES ASSUME MatchInv, NEW c \in Searcher, NEW d \in Searcher, c # d,
                      seat[c] # Null, seat[d] # Null,
                      seat[c].kind = "room", seat[d].kind = "room", seat[c].room = seat[d].room
               PROVE  seat[c].role # seat[d].role /\ CountryOf[c] # CountryOf[d]
    BY DEF SeatedTogether
  <2>1. /\ seat[c].role \in {"host", "guest"} /\ seat[d].role \in {"host", "guest"}
        /\ Owner(Current(c)) = c /\ Owner(Current(d)) = d
    BY DEF MatchInv, Typed, Assignment, Current, Owner
  <2>2. ~(seat[c].role = "guest" /\ seat[d].role = "guest")
    BY <2>1 DEF MatchInv, Seated
  <2>3. ~(seat[c].role = "host" /\ seat[d].role = "host")
    BY DEF MatchInv, Seated, HostOf
  <2>4. CASE seat[c].role = "host" /\ seat[d].role = "guest"
    BY <2>1, <2>4 DEF MatchInv, Seated
  <2>5. CASE seat[c].role = "guest" /\ seat[d].role = "host"
    BY <2>1, <2>5 DEF MatchInv, Seated
  <2> QED
    BY <2>1, <2>2, <2>3, <2>4, <2>5
<1> QED
  BY <1>1, MatchInvHolds, PTL

-----------------------------------------------------------------------------
(***************************************************************************)
(* What is cancelled stays cancelled.                                      *)
(***************************************************************************)
\* From table r to table s no cancelled ticket comes to life again.
StayCancelled(r, s) ==
  \A t \in Ticket :
    (r[t] # Null /\ r[t].state = "cancelled" /\ s[t] # Null) => s[t].state = "cancelled"

\* Expiry revives nobody, and neither does what only touches tickets that were
\* waiting, or did not exist, after it.
LEMMA ExpiryRevivesNobody ==
  ASSUME MatchInv, NEW gone \in Expiring, NEW t \in Ticket, NEW x,
         \/ x = Expired(gone)[t] \/ x = Null \/ x.state = "cancelled" \/ rows[t] = Null
         \/ Expired(gone)[t] # Null /\ Expired(gone)[t].state = "queued",
         rows[t] # Null, rows[t].state = "cancelled", x # Null
  PROVE  x.state = "cancelled"
<1>1. Ends(rows, Expired(gone))
  BY ExpiredFits
<1> HIDE DEF Expired
<1> QED
  BY <1>1 DEF Ends

\* A join pairs its ticket, which is new, with one that waits.
LEMMA JoinRevivesNobody ==
  ASSUME MatchInv, NEW t \in Ticket, NEW gone \in Expiring, HandleJoin(t, gone)
  PROVE  StayCancelled(rows, rows')
<1> DEFINE now == Expired(gone)
           joined == Joined(Cleared(now, t), t)
<1>1. /\ t \in Fresh /\ rows[t] = Null /\ now \in Tables
  BY ExpiredFits DEF HandleJoin, Fresh, MatchInv, Unused, Fits
<1>2. \A u \in Ticket : u # t => joined[u] \in {now[u], Null}
  BY DEF Joined, Cleared
<1>3. Fits(joined, awaiting, Fresh \ {t})
  BY <1>1, ExpiredFits, JoinedFits
<1>4. joined[t] # Null /\ joined[t].state = "queued"
  BY NoneAssumption DEF Joined, Cleared, Row
<1> HIDE DEF joined, now
<1>5. ASSUME NEW o \in Opponents(t, joined), rows' = Reserved(joined, t, o)
      PROVE  StayCancelled(rows, rows')
  <2>1. /\ o \in Ticket /\ joined[o] # Null /\ joined[o].state = "queued"
        /\ CountryOf[Owner(o)] # CountryOf[Owner(t)]
    BY DEF Opponents
  <2>2. \A u \in Ticket : u \notin {t, o} => rows'[u] = joined[u]
    BY <1>3, <1>4, <1>5, <2>1, ReservedKeepsTable DEF Fits
  <2>3. o # t => now[o] # Null /\ now[o].state = "queued"
    BY <1>2, <2>1
  <2>4. \A u \in Ticket : \/ rows'[u] \in {now[u], Null} \/ rows[u] = Null
                          \/ now[u] # Null /\ now[u].state = "queued"
    BY <1>1, <1>2, <2>2, <2>3
  <2> QED
    BY <2>4, ExpiryRevivesNobody DEF now, StayCancelled
<1>6. \/ rows' = now \/ rows' = joined
      \/ \E o \in Opponents(t, joined) : rows' = Reserved(joined, t, o)
  BY DEF HandleJoin, Write, joined, now, Joined, Cleared
<1>7. CASE rows' = now \/ rows' = joined
  <2>1. \A u \in Ticket : rows'[u] \in {now[u], Null} \/ rows[u] = Null
    BY <1>1, <1>2, <1>7
  <2> QED
    BY <2>1, ExpiryRevivesNobody DEF now, StayCancelled
<1> QED
  BY <1>5, <1>6, <1>7

\* A poll reserves a ticket that waits.
LEMMA PollRevivesNobody ==
  ASSUME MatchInv, NEW t \in Ticket, NEW gone \in Expiring, NEW late \in BOOLEAN,
         HandlePoll(t, gone, late)
  PROVE  StayCancelled(rows, rows')
<1> DEFINE now == Expired(gone)
<1>1. now \in Tables
  BY ExpiredFits DEF Fits
<1>2. rows' = now \/ (rows' = BotReserved(now, t) /\ now[t] # Null /\ now[t].state = "queued")
  BY DEF HandlePoll, Write, Due
<1> HIDE DEF now
<1>3. \A u \in Ticket : u # t => BotReserved(now, t)[u] = now[u]
  BY <1>1 DEF BotReserved, Tables
<1>4. \A u \in Ticket : rows'[u] = now[u] \/ (now[u] # Null /\ now[u].state = "queued")
  BY <1>2, <1>3
<1> QED
  BY <1>4, ExpiryRevivesNobody DEF now, StayCancelled

\* A cancellation cancels.
LEMMA CancelRevivesNobody ==
  ASSUME MatchInv, NEW t \in Ticket, NEW gone \in Expiring, HandleCancel(t, gone)
  PROVE  StayCancelled(rows, rows')
<1>1. PICK s \in Tables : rows' = s /\ Ends(Expired(gone), s)
  BY HandleCancelEnds
<1>2. Ends(rows, Expired(gone))
  BY ExpiredFits
<1>3. Ends(rows, s)
  BY <1>1, <1>2, EndsTransitive
<1> QED
  BY <1>1, <1>3 DEF Ends, StayCancelled

\* A handler that comes back looks again: it brings on the tickets that are still
\* reserved, and cancels the others.
LEMMA ResumeRevivesNobody ==
  ASSUME MatchInv, NEW h \in awaiting, Resume(h)
  PROVE  StayCancelled(rows, rows')
<1>1. Typed /\ h.ticket \in Ticket /\ rows \in Tables
  BY HandlerTickets DEF MatchInv, Typed, Tables
<1>2. ASSUME NEW ts, rows' = Cancelled(rows, ts) PROVE StayCancelled(rows, rows')
  <2>1. \A u \in Ticket : \/ rows'[u] = rows[u]
                          \/ /\ rows[u] # Null
                             /\ rows'[u] = [rows[u] EXCEPT !.state = "cancelled"]
    BY <1>2 DEF Cancelled
  <2>2. \A x \in Row : [x EXCEPT !.state = "cancelled"].state = "cancelled"
    BY DEF Row
  <2> SUFFICES ASSUME NEW u \in Ticket, rows[u] # Null, rows[u].state = "cancelled"
               PROVE  rows'[u].state = "cancelled"
    BY DEF StayCancelled
  <2>3. rows[u] \in Row
    BY <1>1, RowFields
  <2> QED
    BY <2>1, <2>2, <2>3
<1>3. CASE /\ h.kind = "room" /\ rows' = InRoom(h)
           /\ StillReserved(h.ticket) /\ StillReserved(h.opponent)
  BY <1>1, <1>3 DEF InRoom, StillReserved, StayCancelled
<1>4. ASSUME NEW bot, rows' = WithBot(h, bot), StillReserved(h.ticket)
      PROVE  StayCancelled(rows, rows')
  <2>1. \A u \in Ticket : u # h.ticket => rows'[u] = rows[u]
    BY <1>1, <1>4 DEF WithBot, Tables
  <2> QED
    BY <1>1, <1>4, <2>1 DEF StillReserved, StayCancelled
<1>5. CASE rows' = rows
  BY <1>5 DEF StayCancelled
<1>6. CASE RoomReady(h)
  <2>1. CASE StillReserved(h.ticket) /\ StillReserved(h.opponent)
    <3>1. h.kind = "room" /\ rows' = InRoom(h)
      BY <1>6, <2>1, InRoomIs DEF RoomReady, Write
    <3> QED
      BY <1>3, <2>1, <3>1
  <2>2. CASE ~(StillReserved(h.ticket) /\ StillReserved(h.opponent))
    BY <1>2, <1>6, <2>2 DEF RoomReady, Write
  <2> QED
    BY <2>1, <2>2
<1>7. CASE RoomFails(h) \/ BotFails(h)
  BY <1>2, <1>7 DEF RoomFails, BotFails, Write
<1>8. CASE BotReady(h)
  BY <1>4, <1>5, <1>8 DEF BotReady, Write, WithBot, table
<1> QED
  BY <1>6, <1>7, <1>8 DEF Resume

\* CancelIsFinal: no handler that comes back from its await revives a search that
\* was cancelled, or has expired, meanwhile; nor does anything else.
THEOREM CancelIsFinalHolds == QueueSpec => CancelIsFinal
<1>1. MatchInv /\ [QueueNext]_queueVars => StayCancelled(rows, rows')
  <2> SUFFICES ASSUME MatchInv, [QueueNext]_queueVars PROVE StayCancelled(rows, rows')
    OBVIOUS
  <2>1. ASSUME NEW t \in Ticket, Handle(t) PROVE StayCancelled(rows, rows')
    <3>1. PICK gone \in Expiring : \/ HandleJoin(t, gone) \/ HandleCancel(t, gone)
                                  \/ \E late \in BOOLEAN : HandlePoll(t, gone, late)
      BY <2>1 DEF Handle
    <3> QED
      BY <3>1, JoinRevivesNobody, PollRevivesNobody, CancelRevivesNobody
  <2>2. ASSUME NEW h \in awaiting, Resume(h) PROVE StayCancelled(rows, rows')
    BY <2>2, ResumeRevivesNobody
  <2>3. CASE rows' = rows
    BY <2>3 DEF StayCancelled
  <2>4. rows' = rows \/ (\E t \in Ticket : Handle(t)) \/ (\E h \in awaiting : Resume(h))
    BY DEF QueueNext, queueVars, table, Restart, StartSearch, Poll, Stop, CallFails
  <2> QED
    BY <2>1, <2>2, <2>3, <2>4
<1>2. MatchInv /\ [QueueNext]_queueVars =>
        [\A t \in Ticket :
          (rows[t] # Null /\ rows[t].state = "cancelled" /\ rows'[t] # Null)
            => rows'[t].state = "cancelled"]_queueVars
  BY <1>1 DEF StayCancelled
<1> QED
  BY <1>2, MatchInvHolds, PTL DEF QueueSpec, CancelIsFinal
=============================================================================
