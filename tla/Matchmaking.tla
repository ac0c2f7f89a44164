---------------------------- MODULE Matchmaking ----------------------------
(***************************************************************************)
(* Country matchmaking: the Matchmaker durable object                      *)
(* (worker/matchmaker.ts) and the searching clients (findCountryMatch in   *)
(* main.ts).                                                               *)
(*                                                                         *)
(* The object runs one handler at a time, but a handler that awaits a room *)
(* or the bot service lets others in before it resumes, and a restart of   *)
(* the object loses the handlers and keeps the table.  Requests take any   *)
(* time to arrive and arrive in any order, and a client gives up on a call *)
(* after a while although the object may still handle it.  A reply reaches *)
(* its caller at once: a late reply is one to a request that arrived late, *)
(* since what the client does in between does not depend on the object.    *)
(*                                                                         *)
(* Operators whose comment starts with "Slip:" are not part of the model:  *)
(* they are definitions as a plausible mistake would have them.            *)
(***************************************************************************)
EXTENDS Integers, FiniteSets, SequencesExt

CONSTANTS
  Searcher,     \* client ids
  CountryOf,    \* CountryOf[c]: the country of c's profile
  Null,         \* SQL NULL, or no such row
  MaxSearches,  \* bound: MaxSearches[c] is how many searches c starts
  MaxRestarts   \* bound: restarts of the object

ASSUME MatchmakingAssumption ==
  /\ MaxSearches \in [Searcher -> Nat] /\ MaxRestarts \in Nat
  /\ DOMAIN CountryOf = Searcher

VARIABLES
  rows,       \* the table: each ticket's row, or Null
  line,       \* the queued tickets, longest waiting first
  awaiting,   \* handlers suspended in an await
  restarts,   \* restarts so far
  requests,   \* requests on their way to the object
  calls,      \* calls a client still waits for an answer to
  searches,   \* searches each client has started
  phase,      \* what each client is doing
  seat        \* the match each client plays

table == <<rows, line>>
net == <<requests, calls>>
clients == <<searches, phase, seat>>
queueVars == <<table, awaiting, restarts, net, clients>>

\* The ticket of a client's n-th search: tickets are never used again.
Ticket == UNION {{c} \X (1 .. MaxSearches[c]) : c \in Searcher}
Owner(t) == t[1]

\* A room is named after the ticket of the guest, for whom it was allocated.
Assignment == [kind : {"room"}, room : Ticket, role : {"host", "guest"}] \cup [kind : {"bot"}]
Row == [state : {"queued", "reserving", "matched", "cancelled"},
        opponent : Ticket \cup {Null}, assignment : Assignment \cup {Null}]

ASSUME NoneAssumption == Null \notin Ticket \cup Assignment \cup Row

Request(path, t) == [path |-> path, ticket |-> t]

QueueInit ==
  /\ rows = [t \in Ticket |-> Null]
  /\ line = <<>>
  /\ awaiting = {} /\ restarts = 0
  /\ requests = {} /\ calls = {}
  /\ searches = [c \in Searcher |-> 0]
  /\ phase = [c \in Searcher |-> "idle"]
  /\ seat = [c \in Searcher |-> Null]

-----------------------------------------------------------------------------
(***************************************************************************)
(* The table.                                                              *)
(***************************************************************************)
Existing == {t \in Ticket : rows[t] # Null}

\* The rows whose time may be up: both of a pair, which are written together.
Expiring == {gone \in SUBSET Existing :
               \A t \in gone : rows[t].opponent \in Existing => rows[t].opponent \in gone}

\* expire(), at the start of every request: the rows of gone have expires < now.
Expired(gone) ==
  LET bereft == {t \in Existing : \E o \in gone :
                   rows[t].opponent = o /\ rows[o].state \in {"queued", "reserving"}}
  IN [t \in Ticket |-> IF t \in gone THEN Null
                       ELSE IF t \in bereft THEN [rows[t] EXCEPT !.state = "cancelled"]
                       ELSE rows[t]]

\* The table becomes r, and the queue with it.
Write(r) ==
  LET Waits(t) == r[t] # Null /\ r[t].state = "queued"
      fresh == {t \in Ticket : Waits(t) /\ ~Contains(line, t)}
  IN /\ rows' = r
     /\ line' = SelectSeq(line, Waits) \o SetToSeq(fresh)

\* Both tickets are reserved before the handler awaits.
Reserved(r, t, o) ==
  [r EXCEPT ![t] = [state |-> "reserving", opponent |-> o, assignment |-> Null],
            ![o].state = "reserving", ![o].opponent = t]

Cancelled(r, ts) ==
  [t \in Ticket |-> IF t \in ts /\ r[t] # Null THEN [r[t] EXCEPT !.state = "cancelled"]
                    ELSE r[t]]

-----------------------------------------------------------------------------
(***************************************************************************)
(* What a reply does to the client that called.                            *)
(***************************************************************************)
Searching(c) == phase[c] \in {"joining", "waiting", "polling"}
Current(c) == <<c, searches[c]>>

\* queueTicket: the client knows its ticket once the join has been answered.
Holds(c) == phase[c] \in {"waiting", "polling", "playing"}

\* cancelSearch(): fire and forget.
CancelRequests(c) == IF Holds(c) THEN {Request("cancel", Current(c))} ELSE {}

\* A reply to the call of the search in progress: update() and fail().
Accept(c, q, status, a) ==
  LET matched == status = "matched" /\ a # Null
      ended == status \in {"expired", "cancelled", "error"}
      known == q.path = "poll" \/ status # "error"
  IN /\ phase' = [phase EXCEPT ![c] = IF matched THEN "playing"
                                      ELSE IF ended THEN "idle" ELSE "waiting"]
     /\ seat' = [seat EXCEPT ![c] = IF matched THEN a ELSE Null]
     /\ requests' = (requests \ {q}) \cup
          (IF ended /\ known THEN {Request("cancel", q.ticket)} ELSE {})

\* A reply to the call of a search the client has left: a ticket it did not
\* know of yet is cancelled.
Ignore(q, status) ==
  /\ requests' = (requests \ {q}) \cup
       (IF q.path = "join" /\ status # "error" THEN {Request("cancel", q.ticket)} ELSE {})
  /\ UNCHANGED <<phase, seat>>

\* The call q is answered; its caller may have given it up.
Answer(q, status, a) ==
  LET c == Owner(q.ticket)
      alive == Searching(c) /\ q.ticket = Current(c)
  IN /\ calls' = calls \ {q}
     /\ IF q \notin calls THEN requests' = requests \ {q} /\ UNCHANGED <<phase, seat>>
        ELSE IF alive THEN Accept(c, q, status, a) ELSE Ignore(q, status)
     /\ UNCHANGED searches

\* The answer is left for later.
Suspend(q, h) ==
  /\ requests' = requests \ {q}
  /\ awaiting' = awaiting \cup {h}
  /\ UNCHANGED <<calls, clients>>

-----------------------------------------------------------------------------
(***************************************************************************)
(* The handlers.                                                           *)
(***************************************************************************)
\* status(): a reserved ticket is reported as queued.
AnswerStatus(q, row) ==
  Answer(q, IF row.state = "reserving" THEN "queued" ELSE row.state, row.assignment)

\* Slip: two players of one country are paired too.
OpponentsAnyone(t, r) ==
  {o \in Ticket : r[o] # Null /\ r[o].state = "queued" /\ Owner(o) # Owner(t)}

\* Whom t can be paired with.
Opponents(t, r) ==
  {o \in Ticket : r[o] # Null /\ r[o].state = "queued"
                  /\ CountryOf[Owner(o)] # CountryOf[Owner(t)] /\ Owner(o) # Owner(t)}

\* Of those, the one who has waited longest.
WaitsLongest(o, found) ==
  \E i \in DOMAIN line : line[i] = o /\ \A j \in 1 .. i - 1 : line[j] \notin found

HandleJoin(t, gone) ==
  LET q == Request("join", t)
      now == Expired(gone)
      mine == {o \in Ticket : Owner(o) = Owner(t) /\ now[o] # Null}
      busy == \E o \in mine : now[o].state # "cancelled"
      cleared == [o \in Ticket |-> IF o \in mine THEN Null ELSE now[o]]
      joined == [cleared EXCEPT ![t] = [state |-> "queued", opponent |-> Null, assignment |-> Null]]
      found == Opponents(t, joined)
  IN /\ q \in requests
     /\ \/ /\ busy
           /\ Write(now)
           /\ Answer(q, "error", Null)
           /\ UNCHANGED awaiting
        \/ /\ ~busy /\ found = {}
           /\ Write(joined)
           /\ AnswerStatus(q, joined[t])
           /\ UNCHANGED awaiting
        \/ /\ ~busy
           /\ \E o \in found :
                /\ WaitsLongest(o, found)
                /\ Write(Reserved(joined, t, o))
                /\ Suspend(q, [kind |-> "room", ticket |-> t, opponent |-> o])
     /\ UNCHANGED restarts

\* Slip: what happened during the await is not looked at.
StillReservedAssumed(t) == rows[t] # Null

\* After the await: nobody has cancelled meanwhile.
StillReserved(t) == rows[t] # Null /\ rows[t].state = "reserving"

\* The room is initialised, or cannot be.
RoomReady(h) ==
  LET q == Request("join", h.ticket)
      Seated(role) == [kind |-> "room", room |-> h.ticket, role |-> role]
      paired == [rows EXCEPT ![h.ticket].state = "matched",
                             ![h.ticket].assignment = Seated("guest"),
                             ![h.opponent].state = "matched",
                             ![h.opponent].assignment = Seated("host")]
  IN /\ h \in awaiting /\ h.kind = "room"
     /\ awaiting' = awaiting \ {h}
     /\ IF StillReserved(h.ticket) /\ StillReserved(h.opponent)
        THEN Write(paired) /\ AnswerStatus(q, paired[h.ticket])
        ELSE Write(Cancelled(rows, {h.ticket, h.opponent})) /\ Answer(q, "error", Null)
     /\ UNCHANGED restarts

RoomFails(h) ==
  /\ h \in awaiting /\ h.kind = "room"
  /\ awaiting' = awaiting \ {h}
  /\ Write(Cancelled(rows, {h.ticket, h.opponent}))
  /\ Answer(Request("join", h.ticket), "error", Null)
  /\ UNCHANGED restarts

\* Slip: there is no bot.
DueNever(row, late) == FALSE

\* A queued ticket that has waited long enough is given a bot.
Due(row, late) == row.state = "queued" /\ late

\* Slip: the ticket stays in the queue while the bot is prepared.
BotUnreserved(r, t) == r

\* The ticket is reserved before the handler awaits D1.
BotReserved(r, t) == [r EXCEPT ![t].state = "reserving"]

\* late: the ticket joined BOT_WAIT_MS ago or longer.
HandlePoll(t, gone, late) ==
  LET q == Request("poll", t)
      now == Expired(gone)
      row == now[t]
  IN /\ q \in requests
     /\ \/ /\ row = Null
           /\ Write(now)
           /\ Answer(q, "expired", Null)
           /\ UNCHANGED awaiting
        \/ /\ row # Null /\ Due(row, late)
           /\ Write(BotReserved(now, t))
           /\ Suspend(q, [kind |-> "bot", ticket |-> t, opponent |-> Null])
        \/ /\ row # Null /\ ~Due(row, late)
           /\ Write(now)
           /\ AnswerStatus(q, row)
           /\ UNCHANGED awaiting
     /\ UNCHANGED restarts

BotReady(h) ==
  LET q == Request("poll", h.ticket)
      bot == [kind |-> "bot"]
  IN /\ h \in awaiting /\ h.kind = "bot"
     /\ awaiting' = awaiting \ {h}
     /\ IF StillReserved(h.ticket)
        THEN /\ Write([rows EXCEPT ![h.ticket].state = "matched", ![h.ticket].assignment = bot])
             /\ Answer(q, "matched", bot)
        ELSE /\ UNCHANGED table
             /\ Answer(q, "cancelled", Null)
     /\ UNCHANGED restarts

BotFails(h) ==
  /\ h \in awaiting /\ h.kind = "bot"
  /\ awaiting' = awaiting \ {h}
  /\ Write(Cancelled(rows, {h.ticket}))
  /\ Answer(Request("poll", h.ticket), "error", Null)
  /\ UNCHANGED restarts

\* Slip: the other ticket of the pair is left as it was.
CancelledWithOwn(r, t) == {t}

CancelledWith(r, t) == {t, r[t].opponent}

HandleCancel(t, gone) ==
  LET q == Request("cancel", t)
      now == Expired(gone)
      ended == [o \in Ticket |-> IF o \in CancelledWith(now, t) /\ now[o] # Null
                  THEN [now[o] EXCEPT !.state = "cancelled", !.assignment = Null]
                  ELSE now[o]]
  IN /\ q \in requests
     /\ requests' = requests \ {q}
     /\ Write(IF now[t] = Null THEN now ELSE ended)
     /\ UNCHANGED <<awaiting, restarts, calls, clients>>

\* The object restarts: the handlers that were waiting are gone.
Restart ==
  /\ restarts < MaxRestarts /\ awaiting # {}
  /\ restarts' = restarts + 1
  /\ awaiting' = {}
  /\ UNCHANGED <<table, net, clients>>

-----------------------------------------------------------------------------
(***************************************************************************)
(* The clients.                                                            *)
(***************************************************************************)
StartSearch(c) ==
  /\ phase[c] = "idle" /\ searches[c] < MaxSearches[c]
  /\ LET t == <<c, searches[c] + 1>>
     IN /\ requests' = requests \cup {Request("join", t)}
        /\ calls' = calls \cup {Request("join", t)}
  /\ searches' = [searches EXCEPT ![c] = @ + 1]
  /\ phase' = [phase EXCEPT ![c] = "joining"]
  /\ UNCHANGED <<table, awaiting, restarts, seat>>

\* The timer between two polls goes off.
Poll(c) ==
  /\ phase[c] = "waiting"
  /\ phase' = [phase EXCEPT ![c] = "polling"]
  /\ requests' = requests \cup {Request("poll", Current(c))}
  /\ calls' = calls \cup {Request("poll", Current(c))}
  /\ UNCHANGED <<table, awaiting, restarts, searches, seat>>

\* The user cancels the search, leaves the page, or ends the match.
Stop(c) ==
  /\ phase[c] # "idle"
  /\ phase' = [phase EXCEPT ![c] = "idle"]
  /\ seat' = [seat EXCEPT ![c] = Null]
  /\ requests' = requests \cup CancelRequests(c)
  /\ UNCHANGED <<table, awaiting, restarts, calls, searches>>

\* AbortSignal.timeout(), or the network: the call fails, answered or not.
CallFails(q) ==
  LET c == Owner(q.ticket)
      alive == Searching(c) /\ q.ticket = Current(c)
  IN /\ q \in calls
     /\ calls' = calls \ {q}
     /\ IF alive
        THEN /\ phase' = [phase EXCEPT ![c] = "idle"]
             /\ requests' = requests \cup CancelRequests(c)
        ELSE UNCHANGED <<phase, requests>>
     /\ UNCHANGED <<table, awaiting, restarts, searches, seat>>

-----------------------------------------------------------------------------
Handle(t) ==
  \E gone \in Expiring :
    \/ HandleJoin(t, gone) \/ HandleCancel(t, gone)
    \/ \E late \in BOOLEAN : HandlePoll(t, gone, late)

Resume(h) == RoomReady(h) \/ RoomFails(h) \/ BotReady(h) \/ BotFails(h)

QueueNext ==
  \/ \E t \in Ticket : Handle(t)
  \/ \E h \in awaiting : Resume(h)
  \/ Restart
  \/ \E c \in Searcher : StartSearch(c) \/ Poll(c) \/ Stop(c)
  \/ \E q \in calls : CallFails(q)

QueueSpec == QueueInit /\ [][QueueNext]_queueVars

\* The time comes when a poll finds its ticket old enough for a bot, or out of time.
PollLate(t) ==
  \E gone \in Expiring :
    /\ HandlePoll(t, gone, TRUE)
    /\ rows[t] # Null => rows[t].state # "reserving" \/ t \in gone

\* Requests arrive, awaits end and timers go off.  Nobody has to
\* search or to stop, no call has to fail, and the object need not restart.
QueueFairness ==
  /\ WF_queueVars(\E h \in awaiting : Resume(h))
  /\ \A t \in Ticket : WF_queueVars(Handle(t)) /\ SF_queueVars(PollLate(t))
  /\ \A c \in Searcher : /\ WF_queueVars(Poll(c))
                         /\ WF_queueVars(\E q \in calls : Owner(q.ticket) = c /\ CallFails(q))
FairSpec == QueueSpec /\ QueueFairness
-----------------------------------------------------------------------------
(***************************************************************************)
(* Properties.                                                             *)
(***************************************************************************)
QueueTypeOK ==
  /\ rows \in [Ticket -> Row \cup {Null}]
  /\ line \in Seq(Ticket)
  /\ awaiting \subseteq [kind : {"room", "bot"}, ticket : Ticket, opponent : Ticket \cup {Null}]
  /\ restarts \in 0 .. MaxRestarts
  /\ requests \subseteq [path : {"join", "poll", "cancel"}, ticket : Ticket]
  /\ calls \subseteq [path : {"join", "poll"}, ticket : Ticket]
  /\ \A c \in Searcher : searches[c] \in 0 .. MaxSearches[c]
  /\ phase \in [Searcher -> {"idle", "joining", "waiting", "polling", "playing"}]
  /\ seat \in [Searcher -> Assignment \cup {Null}]

\* The two rows of a pair never disagree: while both exist, they are matched
\* in one room or neither is, whoever cancels, gives up or is slow.
PairAgrees ==
  \A t \in Existing :
    (rows[t].assignment # Null /\ rows[t].assignment.kind = "room") =>
      LET o == rows[t].opponent
      IN o \in Existing =>
           /\ rows[o].state = "matched" /\ rows[o].opponent = t
           /\ rows[o].assignment.kind = "room"
           /\ rows[o].assignment.room = rows[t].assignment.room
           /\ rows[o].assignment.role # rows[t].assignment.role

\* No two handlers ever prepare a match for one ticket (matchmaker.ts: "Reserve
\* before awaiting D1: a late human cannot also claim this player").
ReservedOnce ==
  \A t \in Ticket : Cardinality({h \in awaiting : t \in {h.ticket, h.opponent}}) <= 1

\* A handler that comes back from an await never revives a search that was
\* cancelled, or has expired, meanwhile.
CancelIsFinal ==
  [][\A t \in Ticket :
       (rows[t] # Null /\ rows[t].state = "cancelled" /\ rows'[t] # Null)
         => rows'[t].state = "cancelled"]_queueVars

\* Two clients that play in one room are its host and its guest, and represent
\* different countries; a third is never sent there.
SeatedTogether ==
  \A c, d \in Searcher :
    (c # d /\ seat[c] # Null /\ seat[d] # Null
       /\ seat[c].kind = "room" /\ seat[d].kind = "room" /\ seat[c].room = seat[d].room)
      => seat[c].role # seat[d].role /\ CountryOf[c] # CountryOf[d]

\* Every search ends, in a match or back on the title, although the object may
\* restart in the middle of an await (README.md: an empty search is filled with
\* a computer-controlled opponent).
SearchEnds == \A c \in Searcher : Searching(c) ~> ~Searching(c)
=============================================================================
