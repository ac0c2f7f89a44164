------------------------------- MODULE Shell -------------------------------
(***************************************************************************)
(* The page around the match (main.ts): its screens, the match on it, the  *)
(* league record the match is played under, and the answers the page still *)
(* waits for.                                                              *)
(*                                                                         *)
(* A handler runs to its end or to its next await, and is one action; what *)
(* comes after an await is a record of calls.  The guards of the code      *)
(* compare what they captured with what is there now.  A continuation      *)
(* whose generation (netGen, queueGeneration) has moved on does nothing    *)
(* but return: it is taken out of calls when the generation moves.         *)
(* Drivers and matches have numbers, which are compared.                   *)
(*                                                                         *)
(* What happens between the two pages of a match is in Lobby and Lockstep; *)
(* here the other side does what it pleases.                               *)
(* Operators whose comment starts with "Slip:" are not part of the model.  *)
(***************************************************************************)
EXTENDS Integers

CONSTANTS
  MaxPairings,  \* bound: how many opponents are met
  MaxLoads      \* bound: how often the page is loaded

Absent == 0
Solo == -1      \* the engine of a match without record (launch())

VARIABLES
  profile,      \* localStorage: there is a profile
  invite,       \* localStorage: the code of an invite is pending
  loads,        \* how often the page has been loaded
  pairings,     \* opponents so far: a computer's assignment, or a driver
  page,         \* what the page holds in memory
  calls         \* what it waits for

shellVars == <<profile, invite, loads, pairings, page, calls>>

\* A page that has just been loaded; "closed" before that.
Blank == [
  screen |-> "closed",
  net |-> Absent, stage |-> "none", role |-> "host",   \* NetDriver: which, how far, myTeam
  ranked |-> FALSE, busy |-> FALSE, ready |-> FALSE, code |-> FALSE,
  bot |-> Absent,                                      \* botMatch
  match |-> Absent, same |-> FALSE,                    \* cityMatch; of one country
  result |-> "idle", verdict |-> Absent,               \* cityResult, and whose verdict it is
  engine |-> Absent, phase |-> "first", paused |-> FALSE ]

ShellInit ==
  /\ profile \in BOOLEAN /\ invite = FALSE /\ loads = 0 /\ pairings = 0
  /\ page = Blank /\ calls = {}

To(p, screen) == [p EXCEPT !.screen = screen]

\* A match that is neither shown nor played on the net is not remembered: no
\* handler looks at it before the next launch.
Shown(p) ==
  IF p.screen \in {"match", "pause", "half", "full"} \/ p.stage = "playing" THEN p
  ELSE [p EXCEPT !.engine = Absent, !.phase = "first", !.paused = FALSE]
Show(p, C) == page' = Shown(p) /\ calls' = C
Device == <<profile, invite, loads>>

-----------------------------------------------------------------------------
(* Leaving *)

\* cancelSearch(): the search is stale and its timer cleared.
Unsearched(C) == {c \in C : c.kind # "search"}

\* Slip: the generation stays.
Kept(C) == C

\* netGen++: every step of a handshake that is awaited is stale.
Unjoined(C) == {c \in C : c.kind # "attempt"}
Dropped(C) == Unsearched(Unjoined(C))

\* closeNet(): on the full-time screen the record and its result stay.
Closed(p) ==
  LET q == [p EXCEPT !.net = Absent, !.stage = "none", !.role = "host", !.ranked = FALSE,
              !.busy = FALSE, !.ready = FALSE, !.code = FALSE, !.bot = Absent]
  IN IF p.screen = "full" THEN q
     ELSE [q EXCEPT !.match = Absent, !.same = FALSE, !.result = "idle", !.verdict = Absent]

Forgotten(p) == [p EXCEPT !.match = Absent, !.same = FALSE, !.result = "idle", !.verdict = Absent]

\* cancelNet(), deadNet().
Lobbyward(p) == To(Closed(p), IF p.ranked THEN "title" ELSE "online")

-----------------------------------------------------------------------------
(* Searching an opponent *)

\* findCountryMatch(), up to the request that saves the profile.  Whatever was
\* under way is dropped before the new search takes its generation.
NewSearch == [kind |-> "search", at |-> "profile"]

\* Slip: the other way round.
DroppedWithIt(C) == Dropped(C \cup {NewSearch})

SearchAfter(C) == Dropped(C) \cup {NewSearch}
Search(p) == Show(To(Closed(p), "search"), SearchAfter(calls))

\* alive(): this search, and still on its screen.
Alive(c) == page.screen = "search"

\* launchBot(): the computer's assignment is the match from here on.
BotLaunched(p, n) == [Closed(p) EXCEPT
  !.bot = n, !.match = n, !.same = FALSE, !.result = "idle", !.verdict = Absent,
  !.engine = n, !.phase = "first", !.paused = FALSE, !.screen = "match"]

\* update(): what the queue answers.
QueueAnswers(c, reply) ==
  LET rest == calls \ {c} IN
  \/ /\ reply = "bot" /\ pairings < MaxPairings
     /\ pairings' = pairings + 1
     /\ Show(BotLaunched(page, pairings + 1), Dropped(rest))
  \/ /\ reply = "pair"
     /\ \E role \in {"host", "join"} :
          Show([page EXCEPT !.ranked = TRUE, !.screen = role, !.code = TRUE, !.busy = TRUE],
               Unjoined(rest) \cup {[kind |-> "attempt", at |-> "room", role |-> role,
                                     ranked |-> TRUE]})
     /\ UNCHANGED pairings
  \/ /\ reply = "queued"
     /\ Show(page, rest \cup {[c EXCEPT !.at = "timer"]})
     /\ UNCHANGED pairings
  \/ /\ reply = "fails"
     /\ Show(To(page, "title"), Unsearched(rest))
     /\ UNCHANGED pairings

\* An answer to a search that is over is dropped.
SearchAnswered(c) ==
  /\ c.kind = "search" /\ c.at # "timer"
  /\ UNCHANGED Device
  /\ \/ ~Alive(c) /\ Show(page, calls \ {c}) /\ UNCHANGED pairings
     \/ /\ Alive(c) /\ c.at = "profile"
        /\ \/ Show(page, (calls \ {c}) \cup {[c EXCEPT !.at = "join"]}) /\ UNCHANGED pairings
           \/ QueueAnswers(c, "fails")
     \/ /\ Alive(c) /\ c.at \in {"join", "poll"}
        /\ \E reply \in {"bot", "pair", "queued", "fails"} : QueueAnswers(c, reply)

\* The timer of 2.5 s between two polls.
PollTimer(c) ==
  /\ c.kind = "search" /\ c.at = "timer"
  /\ Show(page, (calls \ {c}) \cup {[c EXCEPT !.at = "poll"]})
  /\ UNCHANGED <<Device, pairings>>

-----------------------------------------------------------------------------
(* Meeting an opponent *)

\* startHost(), cloudJoin(): nothing happens while one is busy.
Attempting(p, C, role) ==
  IF p.busy THEN Show(p, C)
  ELSE Show([p EXCEPT !.busy = TRUE],
            Unjoined(C) \cup {[kind |-> "attempt", at |-> "room", role |-> role,
                               ranked |-> FALSE]})

\* A ranked attempt looks at its generation only.
Wanted(c) == c.ranked \/ page.screen = c.role

\* The room is there: its code is shown.
RoomAnswered(c) ==
  /\ c.kind = "attempt" /\ c.at = "room"
  /\ IF Wanted(c)
     THEN Show([page EXCEPT !.code = TRUE], (calls \ {c}) \cup {[c EXCEPT !.at = "peer"]})
     ELSE Show(page, calls \ {c})
  /\ UNCHANGED <<Device, pairings>>

\* hookDriver(): the friend's signals, or the relay, have made a transport.
PeerAnswered(c) ==
  /\ c.kind = "attempt" /\ c.at = "peer"
  /\ UNCHANGED Device
  /\ \/ ~Wanted(c) /\ Show(page, calls \ {c}) /\ UNCHANGED pairings
     \/ /\ Wanted(c) /\ pairings < MaxPairings
        /\ pairings' = pairings + 1
        /\ Show([page EXCEPT !.net = pairings + 1, !.stage = "handshake", !.role = c.role],
                (calls \ {c}) \cup IF c.ranked THEN {} ELSE {[c EXCEPT !.at = "hooked"]})

\* The room, the socket or the negotiation fails.
AttemptFails(c) ==
  /\ c.kind = "attempt" /\ c.at \in {"room", "peer"}
  /\ IF Wanted(c) THEN Show(Lobbyward(page), Dropped(calls \ {c})) ELSE Show(page, calls \ {c})
  /\ UNCHANGED <<Device, pairings>>

\* onPeerLeft: the friend leaves the room, here or on the ready screen.
FriendLeft(c) ==
  /\ c.kind = "attempt" /\ c.at \in {"peer", "hooked"} /\ ~c.ranked
  /\ page.screen \in {c.role, "netready"}
  /\ Show(Lobbyward(page), Dropped(calls))
  /\ UNCHANGED <<Device, pairings>>

-----------------------------------------------------------------------------
(* The league's record of the match *)

RecordBusy == \E c \in calls : c.kind = "record"

\* ensureCityMatch(): a host who knows his opponent asks for a record, once.
Ensured(p, C) ==
  IF p.net # Absent /\ p.role = "host" /\ p.match = Absent /\ ~RecordBusy
  THEN C \cup {[kind |-> "record", net |-> p.net]} ELSE C

\* autoReadyRanked(): a timer of 0.7 s.
Readying(p, C) ==
  IF p.ranked /\ p.match # Absent /\ p.screen = "netready" /\ ~p.ready
  THEN C \cup {[kind |-> "ready"]} ELSE C

Recorded(p, same) == [p EXCEPT !.match = p.net, !.same = same,
  !.result = IF same THEN "friendly" ELSE "idle", !.verdict = Absent]

\* The record belongs to the driver it was asked for.
RecordAnswered(c) ==
  /\ c.kind = "record"
  /\ LET rest == calls \ {c} IN
     \/ page.net # c.net /\ Show(page, rest)
     \/ /\ page.net = c.net
        /\ \E same \in BOOLEAN : LET p == Recorded(page, same) IN Show(p, Readying(p, rest))
     \/ /\ page.net = c.net
        /\ IF page.ranked THEN Show(Lobbyward(page), Dropped(rest))
           ELSE Show([page EXCEPT !.result = "friendly", !.verdict = Absent], rest)
  /\ UNCHANGED <<Device, pairings>>

\* doReady()
MadeReady(p) ==
  IF (p.ranked /\ p.match = Absent) \/ p.net = Absent \/ p.ready
  THEN p ELSE [p EXCEPT !.ready = TRUE]

AutoReady(c) ==
  /\ c.kind = "ready"
  /\ Show(IF page.ranked /\ page.match # Absent /\ page.screen = "netready" THEN MadeReady(page)
          ELSE page, calls \ {c})
  /\ UNCHANGED <<Device, pairings>>

-----------------------------------------------------------------------------
(* What the driver tells (attachDriver) *)

\* connected: the ready screen.  The opponent's profile may have come, or come later.
Connected ==
  /\ page.net # Absent /\ page.stage = "handshake"
  /\ LET p == [page EXCEPT !.stage = "lobby", !.screen = "netready", !.ready = FALSE] IN
       \E known \in BOOLEAN : Show(p, Readying(p, IF known THEN Ensured(p, calls) ELSE calls))
  /\ UNCHANGED <<Device, pairings>>

PeerProfile ==
  /\ page.net # Absent /\ page.stage # "none"
  /\ Show(page, Ensured(page, calls))
  /\ UNCHANGED <<Device, pairings>>

\* cityMatch: the host announces the record to a guest who has none.
RecordComes ==
  /\ page.net # Absent /\ page.role = "join" /\ page.match = Absent
  /\ \E same \in BOOLEAN : LET p == Recorded(page, same) IN Show(p, Readying(p, calls))
  /\ UNCHANGED <<Device, pairings>>

\* started: launchNet().
Started ==
  /\ page.stage = "lobby" /\ page.ready
  /\ LET p == [page EXCEPT !.stage = "playing", !.engine = page.net, !.phase = "first",
                           !.paused = FALSE, !.screen = "match"]
     IN Show(p, Ensured(p, calls))
  /\ UNCHANGED <<Device, pairings>>

\* openPause(): from the match only.
Paused(p) == IF p.screen = "match" THEN [p EXCEPT !.paused = TRUE, !.screen = "pause"] ELSE p

PeerPauses ==
  /\ page.stage = "playing"
  /\ \/ Show(Paused([page EXCEPT !.paused = TRUE]), calls)
     \/ LET p == [page EXCEPT !.paused = FALSE] IN
          Show(IF p.screen = "pause" THEN To(p, "match") ELSE p, calls)
  /\ UNCHANGED <<Device, pairings>>

\* peerQuit; peerDropped; and the error of a handshake that fails.
PeerGoes ==
  /\ page.net # Absent
  /\ \E e \in {"quit", "dropped", "error"} :
       /\ e = "error" => page.stage = "handshake"
       /\ e = "dropped" => page.stage # "handshake"
       /\ Show(IF e = "error" \/ (e = "dropped" /\ page.screen = "netready")
               THEN Lobbyward(page) ELSE To(Closed(page), "title"), Dropped(calls))
  /\ UNCHANGED <<Device, pairings>>

-----------------------------------------------------------------------------
(* The result *)

\* submitCityResult(), up to its first await.  Against the computer the replay
\* is sent under the computer's assignment.
Submitting(p, C) ==
  IF p.net = Absent /\ p.bot = Absent THEN Show(p, C)
  ELSE IF p.match = Absent THEN Show([p EXCEPT !.result = "friendly", !.verdict = Absent], C)
  ELSE IF p.same THEN Show([p EXCEPT !.result = "friendly", !.verdict = Absent], C)
  ELSE Show([p EXCEPT !.result = "confirming", !.verdict = Absent],
            C \cup {[kind |-> "result", match |-> p.match,
                     of |-> IF p.bot # Absent THEN p.bot ELSE p.match]})

\* Slip: whatever match the answer is for.
OfAnyMatch(c) == TRUE

\* cityMatch === resultMatch
OfThisMatch(c) == page.match = c.match

\* A pending result is asked for again, a second later and 20 times at most, as
\* long as its match is the page's; a failure is shown without asking which match
\* it was of.
ResultAnswered(c) ==
  /\ c.kind = "result"
  /\ LET rest == calls \ {c} IN
     \/ Show(page, IF OfThisMatch(c) THEN calls ELSE rest)
     \/ \E s \in {"confirmed", "disputed", "confirming"} :
          Show(IF OfThisMatch(c) THEN [page EXCEPT !.result = s,
                                         !.verdict = IF s = "confirming" THEN Absent ELSE c.of]
               ELSE page, rest)
     \/ Show([page EXCEPT !.result = "error", !.verdict = Absent], rest)
  /\ UNCHANGED <<Device, pairings>>

-----------------------------------------------------------------------------
(* The match on the screen *)

\* frame(): the match goes on; its end is noticed in the frame that reaches it.
\* A match that has ended for the page does not move.
MatchFrame ==
  /\ page.screen = "match" /\ ~page.paused
  /\ \/ /\ page.phase \in {"first", "halftime"}
        /\ Show([page EXCEPT !.phase = "halftime", !.screen = "half"], calls)
     \/ /\ page.phase \in {"second", "fulltime"}
        /\ Submitting([page EXCEPT !.phase = "fulltime", !.screen = "full"], calls)
  /\ UNCHANGED <<Device, pairings>>

\* continueFromHalf(): by the user or a timer; a guest waits for the host.
Continue ==
  /\ page.screen = "half"
  /\ IF page.net # Absent /\ page.role = "join"
     THEN Show(IF page.phase # "halftime" THEN To(page, "match") ELSE page, calls)
     ELSE Show([page EXCEPT !.phase = "second", !.screen = "match"], calls)
  /\ UNCHANGED <<Device, pairings>>

HostContinued ==
  /\ page.net # Absent /\ page.role = "join" /\ page.phase = "halftime"
  /\ Show([page EXCEPT !.phase = "second"], calls)
  /\ UNCHANGED <<Device, pairings>>

\* launch(): a match alone.
Alone(p) ==
  [Closed(p) EXCEPT !.engine = Solo, !.phase = "first", !.paused = FALSE, !.screen = "match"]

PauseMenu ==
  /\ page.screen = "pause"
  /\ \/ Show([page EXCEPT !.paused = FALSE, !.screen = "match"], calls)
     \/ IF page.bot # Absent THEN Search(To(Closed(page), "title"))
        ELSE Show(Alone(page), Dropped(calls))
     \/ Show(To(Closed(page), "title"), Dropped(calls))
  /\ UNCHANGED <<Device, pairings>>

\* Escape, the scoreboard, or the page losing the focus.
OpenPause ==
  /\ page.screen = "match"
  /\ Show(Paused(page), calls)
  /\ UNCHANGED <<Device, pairings>>

\* A match with a record has the world table on its menu, one without can be
\* played again alone.
FullMenu ==
  /\ page.screen = "full"
  /\ IF (page.net # Absent \/ page.bot # Absent) /\ page.match # Absent
     THEN \/ Search(To(Closed(page), "title"))
          \/ Show(To(Forgotten(Closed(page)), "online"), Dropped(calls))
          \/ Show(To(page, "city"), calls)
          \/ Show(To(Forgotten(Closed(page)), "title"), Dropped(calls))
          \/ page.result = "error" /\ Submitting(page, calls)
     ELSE \/ page.net = Absent /\ Show(Alone(page), Dropped(calls))
          \/ Show(To(Closed(page), "title"), Dropped(calls))
  /\ UNCHANGED <<Device, pairings>>

-----------------------------------------------------------------------------
(* The menus before it *)

TitleMenu ==
  /\ page.screen = "title"
  /\ \/ Search(page)
     \/ Attempting([page EXCEPT !.ranked = FALSE, !.screen = "host"], calls, "host")
     \/ Show(To(page, "city"), calls)
     \/ Show(To(Closed(page), "join"), Dropped(calls))      \* "join-friend"
  /\ UNCHANGED <<Device, pairings>>

CityMenu ==
  /\ page.screen = "city"
  /\ Search(page) \/ Show(To(page, "title"), calls)
  /\ UNCHANGED <<Device, pairings>>

SearchMenu ==
  /\ page.screen = "search"
  /\ \E screen \in {"online", "title"} : Show(To(page, screen), Unsearched(calls))
  /\ UNCHANGED <<Device, pairings>>

OnlineMenu ==
  /\ page.screen = "online"
  /\ \/ Attempting([page EXCEPT !.code = FALSE, !.screen = "host"], calls, "host")
     \/ Show([page EXCEPT !.code = FALSE, !.screen = "join"], calls)
     \/ Show(To(page, "title"), calls)
  /\ UNCHANGED <<Device, pairings>>

\* The form for the code is there until the page has one.
RoomMenu ==
  /\ page.screen \in {"host", "join", "netready"}
  /\ \/ Show(Lobbyward(page), Dropped(calls))
     \/ page.screen = "join" /\ ~page.code /\ Attempting(page, calls, "join")
     \/ page.screen = "netready" /\ Show(MadeReady(page), calls)
  /\ UNCHANGED <<Device, pairings>>

-----------------------------------------------------------------------------
(* The page *)

\* The page is loaded, by an invite link or without: without a profile the
\* player is asked for one, otherwise the invite is taken and followed 50 ms later.
Load ==
  /\ page.screen = "closed" /\ loads < MaxLoads
  /\ loads' = loads + 1
  /\ \E link \in BOOLEAN :
       LET pending == invite \/ link IN
       IF profile
       THEN /\ invite' = FALSE
            /\ Show(To(page, "title"), IF pending THEN {[kind |-> "boot"]} ELSE {})
       ELSE invite' = pending /\ Show(To(page, "onboard"), {})
  /\ UNCHANGED <<profile, pairings>>

BootJoin(c) ==
  /\ c.kind = "boot"
  /\ IF page.screen = "title" THEN Attempting(To(page, "join"), calls \ {c}, "join")
     ELSE Show(page, calls \ {c})
  /\ UNCHANGED <<Device, pairings>>

\* doOnboardContinue(): an invite that has survived is followed.
Onboard ==
  /\ page.screen = "onboard"
  /\ profile' = TRUE /\ invite' = FALSE
  /\ IF invite THEN Attempting(To(page, "join"), calls, "join") ELSE Show(To(page, "title"), calls)
  /\ UNCHANGED <<loads, pairings>>

\* The page is left, or reloaded; localStorage stays.
Unload ==
  /\ page.screen # "closed" /\ loads < MaxLoads
  /\ Show(Blank, {})
  /\ UNCHANGED <<Device, pairings>>

Answer(c) ==
  \/ SearchAnswered(c) \/ PollTimer(c) \/ RoomAnswered(c) \/ PeerAnswered(c) \/ AttemptFails(c)
  \/ RecordAnswered(c) \/ AutoReady(c) \/ ResultAnswered(c) \/ BootJoin(c)
Tells ==
  \/ Connected \/ PeerProfile \/ RecordComes \/ Started \/ PeerPauses \/ PeerGoes \/ HostContinued
  \/ \E c \in calls : FriendLeft(c)
Uses ==
  \/ PauseMenu \/ OpenPause \/ FullMenu \/ TitleMenu \/ CityMenu \/ SearchMenu \/ OnlineMenu
  \/ RoomMenu \/ Onboard \/ Load \/ Unload \/ Continue
ShellNext == (\E c \in calls : Answer(c)) \/ Tells \/ Uses \/ MatchFrame
ShellSpec == ShellInit /\ [][ShellNext]_shellVars

-----------------------------------------------------------------------------
(* Properties *)

\* A match against a friend on a page that has kept the record of a match before it
\* (RecordIsThisMatch below is about this; README.md).
KeptRecord == ~page.ranked /\ page.net = page.engine /\ page.match # page.engine

\* The verdict on the full-time screen is on the match that has been played there,
\* however late an answer is and whatever has been played since.  Under a kept
\* record, the one case in which it is not, it is the verdict on that record's match.
VerdictIsThisMatch ==
  page.screen = "full" /\ page.result \in {"confirmed", "disputed"}
    => page.verdict = IF KeptRecord THEN page.match ELSE page.engine

InMatch == page.screen \in {"match", "pause", "half"}

\* No answer that comes late, of a search, an attempt, the league or a timer,
\* takes a match that is being played off the screen.
MatchNotLeft ==
  [][(\E c \in calls : Answer(c)) \/ Connected \/ Started =>
       (InMatch => page'.screen = page.screen /\ page'.engine = page.engine)]_shellVars

\* Whoever is shown a screen to wait on is waiting for something that can still
\* come.  (The screen of a host who comes from the title is not among them: see
\* README.md.)
WaitIsServed ==
  /\ page.screen = "search" => \E c \in calls : c.kind = "search"
  /\ page.ranked /\ page.screen \in {"host", "join"} =>
       page.net # Absent \/ \E c \in calls : c.kind = "attempt"
  /\ page.screen = "netready" => page.net # Absent

\* A match against a friend is played under a record of its own, or under none
\* ("Host issues the league match record once both identities are known", main.ts).
RecordIsThisMatch == page.stage = "playing" /\ page.match # Absent => page.match = page.net
=============================================================================
