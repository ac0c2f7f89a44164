# Floodlight Football: TLA+ models and proofs

Floodlight Football (HNC League) is a browser football game. Two browsers run
the same deterministic 60 Hz simulation and exchange only inputs; a Cloudflare
Worker finds opponents, relays packets and keeps a weekly table of countries; a
Node server offers rooms and friend leagues for self-hosting; a tool renders
videos of staged scenes. This directory models the parts of it in which several
parties act at once, or in which a long sequence of steps may go wrong, checks
them with TLC, and proves the most important results with TLAPS. Source paths
below are relative to the repository's `src/`.

## 1. The system

| Component | Source | State it keeps | Operations | Modelled in |
| --- | --- | --- | --- | --- |
| Lockstep match | `apps/game/src/net/session.ts`, `net/driver.ts`, screens of `main.ts` | staged and received inputs by tick, snapshots, engine, watermark of what was sent, screen | render frame, receive a packet, pause, continue after half time, quit, stall | `Lockstep`, `Agreement` |
| Matchmaker | `apps/game/worker/matchmaker.ts`, `net/matchmaking.ts`, `findCountryMatch` in `main.ts` | table of tickets in the durable object; current search in the browser | join, poll, cancel, expire, prepare room or bot; search, poll, stop | `Matchmaking` |
| Country league | `apps/game/worker/city-league/*`, `src/city-league/standings.ts`, `season.ts` | D1 tables players, matches, submissions, bot_matches | save profile, book a match, report a result, finish a replay, compute the table | `CityLeague` |
| Room object | `apps/game/worker/room.ts`, `room-logic.ts` | members, sockets, expiry | init, socket upgrade, signal, relay, leave, close, alarm | `Room`, `RoomClients` |
| Connection setup | `net/cloudflare-signal.ts`, `online-session.ts`, `transport.ts`, `room-transport.ts`, `driver.ts` (handshake), `main.ts` (lobby) | attempt, negotiation, candidate queue, handshake, record | host, join, offer, answer, candidates, hello, welcome, profile, ready, give up, try again | `Lobby` |
| Engine | `apps/game/src/engine.ts`, `game/tuning.ts` | phase, restart, owner, control, held and buffered presses | `update` and its parts | `MatchEngine` (the rules), `Lockstep` (as a history of inputs) |
| Clock and input | `game/clock.ts`, `input/*`, `ui/touch-controls.ts`, `main.ts` frame, `driver.ts` `stageInput` | debt, held keys and fingers, edges, staged inputs | press, release, blur, frame alone and online, resync | `InputStaging` |
| App shell | `main.ts`, `city-league/invite.ts` | screen, match, record, verdict, answers under way | every handler between the title and the table | `Shell` |
| Node rooms | `apps/server/src/server.ts`, `rooms.ts`, `store.ts`, `redis-store.ts` | record in memory or Redis, sockets | create, join, leave, close, expire | `NodeRooms` |
| Friend leagues | `apps/server/src/leagues/*`, `db/*` | leagues, members, fixtures, submissions | create, join, start, submit, resolve | `FriendLeague` |
| Social video tool | `packages/social-video` | processes, frames, MP4; scenes, contacts, cuts, sounds, texts | render, fail, SIGTERM; compile, evaluate a frame | `RenderRun`, `Scenes`, `Montage` |
| Rate limiters, TURN | `room-logic.ts`, `worker/turn.ts`, `worker/index.ts` | counters per window | admit a request, mint credentials | not modelled |
| Message schemas | `packages/protocol` | none | validation | not modelled |

How they interact. The browser searches through HTTP calls to the Worker, which
forwards them to one matchmaker object. A join that finds an opponent makes the
matchmaker create a room object and hand its code to both players; after eight
to ten seconds without an opponent a poll makes it book a match against the
computer in D1. Both players open a socket to the room; friends negotiate a
WebRTC channel through it, opponents found by search play through it. They shake
hands, agree on a seed and on the record under which the result will be reported,
and play in lockstep. At full time each browser reports the score to the league,
which decides when it has both reports; a match against the computer is decided
by replaying its inputs on the server. The page goes from one of these to the
next while answers to the last are still under way.

What is hard in it:

* two simulations that advance at different moments and may never differ
  (interleaving, catch-up jumps, pauses, half time);
* durable-object handlers that `await` in the middle and let other requests in,
  and isolates that are evicted there;
* a page that gives up and tries again while continuations of its first attempt
  are still awaited;
* requests that time out at the caller and are still handled, fire-and-forget
  cancels that overtake the next join, retried reports;
* stateless isolates, and handlers of a store, that check one row and write
  another later;
* presses that wait, in a buffer or held, while the ball changes hands;
* children of a process that fails or is stopped at any of a dozen awaits.

What makes each component correct:

* *Lockstep match*: the engines play the same inputs; a desync report means a
  desync; no tick is without input; the match runs on; whoever leaves or loses
  the link does not strand the other; every pause can be ended.
* *Matchmaker*: a ticket is claimed once; the two rows of a pair agree; a
  cancelled search stays cancelled; a room seats one host and one guest of two
  countries; every search ends.
* *Country league*: a verdict is what both sides reported, given once; reports
  stand; the table never takes anything back; the country is locked for a week.
* *Room object*: a peer has a seat exactly while it has a socket; each member
  knows who else is there.
* *Connection setup*: what an abandoned attempt still awaits never touches the
  next one; both sides have one seed and one record; no candidate is lost; nobody
  waits for a player who is gone; the two start together.
* *Engine*: somebody takes every restart, in time; a press is only ever used for
  the possession it was made in; one press is one action.
* *Clock and input*: every press and release is heard by exactly one tick.
* *Shell*: the verdict and the record on the page are of the match on the page; a
  late answer takes no match off the screen; who waits, waits for something.
* *Node server*: a room is never overfull; a fixture is decided by what both
  sides reported or the creator ruled; a schedule pairs everybody once.
* *Video tool*: a run leaves nothing behind and its exit code is true; sound, text
  and picture agree at every frame.

## 2. Modules

| Module | Contents |
| --- | --- |
| `Lockstep` | a running online match, its properties, its fairness |
| `Agreement` | what a match promises: one history, played through by two readers |
| `Matchmaking` | the matchmaker object and the clients that search |
| `CityLeague` | profiles, matches, reports, replays and the weekly table |
| `Room` | the Room durable object and its sockets |
| `RoomClients` | `Room` with clients that do whatever its protocol lets them |
| `Lobby` | `Room` with the game's own lobby: both sides of setting up a match |
| `MatchEngine` | the rules of a match, tick by tick |
| `InputStaging` | from a key, the mouse or a finger to the tick that hears it |
| `Shell` | the page around the matches |
| `FriendLeague`, `NodeRooms` | the Node server |
| `RenderRun` | the processes of a run of the video tool |
| `Scenes`, `Montage` | the staged scenes, and the videos made of them |
| `MCLockstep`, `MCMatchmaking`, `MCCityLeague` | scores, countries, numbers of searches and symmetry for the runs |
| `MCMatch`, `MCServers`, `MCDurable` | several components in one run (see section 3) |
| `LockstepProofs`, `WorkerProofs`, `RoomProofs`, `LobbyProofs`, `CandidateProofs`, `NodeServerProofs`, `MatchProofs`, `AwaitProofs` | the proofs (section 4) |

`LockstepProofs` is also about `Agreement`; `WorkerProofs` is about `CityLeague`
and `Matchmaking`, `RoomProofs` about `Room` and `RoomClients`, `LobbyProofs` and
`CandidateProofs` about `Lobby`, `NodeServerProofs` about `FriendLeague` and
`NodeRooms`, `MatchProofs` about `MatchEngine` and `InputStaging`, and
`AwaitProofs` about `Shell` and `RenderRun`.

Each module carries, beside its definitions, operators whose comment starts with
`Slip:`. They are not used by the specification. Each is a definition as a
plausible mistake would have it (a dropped guard, a wrong key, a missing step);
`PROJECT.json` lists which one must break which property, so that every
property is known to depend on the code it is about.

### Lockstep and Agreement

JavaScript runs a handler to completion, so a render frame, a received packet
and a key press are one action each.

| Code | Model |
| --- | --- |
| `LockstepSession.tick, local, remote, snaps, lastAgreeTick` | `tick, local, remote, snaps, lastAgree` |
| `NetDriver.flushed, lastHashTick, halfContinuePending`, `desyncs # lastDesyncs` | `flushed, lastHash, halfPending, desynced` |
| `screen` in `main.ts`; a closed driver | `screen`, with `"title"` |
| the data channel or room socket (ordered) | `inbox`, `link` |
| `NetDriver.frame` with `stageInput`, the steps, the hash and the resync request | `Frame` |
| `onData`, `onControl` | `ReceiveRemote` ... `ReceiveQuit` |
| `openPause`, `resumePlay`, `continueFromHalf`, `closeNet` | `Pause`, `Resume`, `HostContinues`, `GuestContinues`, `Quit` |
| `DROP_AFTER_STALL` | `StallOut` |

The engine is deterministic, so its state is the history of the inputs it was
given: `log`. A hash is that history, and two hashes are equal exactly when the
histories are; hash collisions are outside the model. A half lasts `HalfLen`
updates, and `continueHalf` is an entry of the history of its own, so the phase
is a function of `log`. The elapsed time of a frame is any number of due ticks
up to `MaxCatchUp`. The number of stalled frames is abstracted: `StallOut` is
enabled when nothing the peer still has to send or to handle can end the stall.
`peerHashes` is written and never read, so it is left out. The AI fallback of
`step()` is unreachable in the application, because a dropped peer closes the
driver (`main.ts:819`), although `driver.ts:461` and `main.ts:813` still speak of
it. WORLD TABLE on the full-time screen, unlike the other entries of that menu,
closes nothing and tells the peer nothing (`main.ts:1503-1505`): `WorldTable`, with
a screen `"city"` that stands for the table and the menus behind it, where the
driver is still open until something closes it. The rematch is left out.

`Agreement` forgets drivers, packets and screens: a history of pairs of inputs
that only grows, and two readers that play through it, never further apart than
the delay allows. `OneHistory` is the refinement: until half time `Lockstep`
implements `Agreement`, with the longer of the two logs as the history.

### Matchmaking

The object handles one request at a time, but `/join` awaits the room and a poll
awaits D1. A handler is therefore split at its await: `HandleJoin` and
`HandlePoll` may leave an entry in `awaiting`, which `RoomReady`, `RoomFails`,
`BotReady` or `BotFails` resumes. `Restart` drops the suspended handlers and
keeps the table. Requests are a set: they arrive in any order, at any time, also
after their caller has given up (`CallFails`: the ten-second abort, a network
failure, or one of the status codes 400 and 429, to which the client reacts
alike). Replies reach the caller at once; a late reply is the same as a late
request, because what the client does in between does not read the table.

`expire()` runs at the start of every request. Time is abstracted: it deletes
any set of rows closed under pairs (the two rows of a pair expire together,
since they are written together), and `late` says that `BOT_WAIT_MS` has passed.
Saving the profile before a search is folded into the join. A ticket is named by
its client and the number of its search (in the code a fresh random token), a
room by the ticket of its guest.

### CityLeague

Every request runs in an isolate of its own, so handlers overlap without any
mutual exclusion; a D1 statement or batch is atomic. A handler is split between
its last read and its write: `UpsertProfile`, `CreateMatch`, `CreateBotMatch`,
`SubmitResult` and `FinishBotMatch` decide and add to `open`; `UpsertPlayer`,
`InsertMatch`, `SubmitAndResolve` and `ConfirmBotMatch` write. Earlier reads of
the same handler are merged with the last one, which is sound because what they
read (a match row's sides and token) never changes. `Fail` is the loss of an
isolate or a failed statement. `SubmitAndResolve` is the batch of
`d1-store.ts:111-125`: the report, unless there is one, and the verdict, if it
is pending and both have reported. The score of a replay is any score. The
minimum duration and the 24-hour limit of a match against the computer, the
token checks and the status `abandoned`, which no code assigns, are left out.
The callers are those of the HTTP API, not only the shipped page, which asks for
another country only when it has lost its stored profile.

`createMatch()` compares the countries with the saved profiles but not the week
the profiles were saved in, so a profile of last week still books matches; no
document forbids it, and no property is stated about it.

### Room, RoomClients and Lobby

A handler of the Room object awaits nothing but its own storage, so it is one
step; a socket is a FIFO to the object and one back, and either end closes it
without waiting for the other. `Room` is the object and its sockets; who opens
sockets, and what is said on them, is left to the module that extends it.
`RoomClients` lets clients do what the protocol lets them: come back on a second
socket before the first is gone, leave, lose the connection, ask for a room that
is full or gone. `Lobby` is the game's own use of it.

In `Lobby` a player makes a bounded number of attempts; the attempt `<<p, n>>`
stands for the token `netGen` of its generation, a fresh peer id, and at most one
socket, and of a host it names the room. `app[p]` holds the lobby variables of
the page, `work` the continuations still awaited, `link` and `driver` the channel
and the handshake of each attempt, `cand` its ICE candidates. A continuation asks
first whether its attempt is still the current one, as the code does; what it
then does is one action. Friends negotiate WebRTC by a code read out; opponents
found by search send their packets through the room (`mode`).

`iAmReady` in `main.ts` and the driver's own flag are one variable. The profile,
sent twice, is one message that may come at either moment, and both players have
one. The outbox of a closing channel holds nothing but the quit. The screens
after the end of a match, a ping, a repeated `join-room` and messages the schema
refuses are left out. A socket whose close event the runtime has delivered is not
among those it lists (external). A room code is used once. The continuation of a
cancelled join stays in `work` until its answer comes. A link without a remote
description has no failure event.

### MatchEngine

One call of `update()` runs its parts in order, and `stage` says which is next:
clock, restart, AI and keepers, actions of either team, movement and contacts.
Whatever the code asks of the geometry (who is nearest, whether a foot reaches
the ball, whether the ball crosses a line) may be answered either way, so that
the model has every order of events a match can have. Times are small numbers of
ticks that keep the order of the real ones (`EngineAssumption`). At most one
button has an edge in a tick. A human may drop out between two ticks (`remote`).
Pauses stop the clock of both engines and are not modelled here.

### InputStaging

Events of the devices come between rendered frames. A press goes into `pressed`,
a release into `released`; alone, the first tick of a frame that runs any takes
them; online they are kept in `edgeAcc` until `stageInput()` finds a tick that
has not been sent. Edges are numbered, so that `inputs`, the ticks, say which
edge each tick hears. The clock drops debt beyond `MaxDebt`; a frame runs at most
`MaxCatchUp` ticks; a resync moves `tick` and may rewrite the frontier. The
button is that of the shot, whose release comes of `wasDown`, or that of the
pass. Directions, sprint and aim are held states without edges and are left out.

### Shell

A handler of the page runs to its end or to its next await, and is one action;
what comes after an await is a record of `calls`. The guards of the code compare
what they have captured (`netGen`, `queueGeneration`, the match) with what is
there now. A continuation whose generation has moved on would only return; it is
taken out of `calls` when the generation moves. What happens between the two
pages of a match is in `Lobby` and `Lockstep`: here the other side does as it
pleases. The screens of the daily challenge, the teams and the friend leagues
cannot be reached from the title and are left out.

### FriendLeague and NodeRooms

Every call of the store is awaited, so the requests of a league overlap between
any two of them; a request that is being handled is a record of `jobs`, whose
field `next` is the call it makes next, and it may die between two calls
(`Dies`). One fixture is watched through reports and rulings; the schedule is a
pure function, `RoundRobin`. `start()` tests the status before three awaits and
sets it after them, so that two requests to start would write two sets of
fixtures, and a join in between has none; the run has one start, and no property
claims otherwise.

`NodeRooms` is a room in Redis: `addMember()` is one script and one step,
`removeMember()` reads the record and writes it back in two, and the record may
expire at any time. The memory store's behaviours, in which no handler is
interrupted, are among these. A socket handles one message at a time.

### RenderRun, Scenes and Montage

`RenderRun` is `main()` of the two scripts, an action for what happens between
two awaits; every step may fail, and a SIGTERM may come once, anywhere. Taken
from outside: Playwright closes its browser on SIGTERM and at exit; a child that
nobody kills outlives the process; closing a browser takes less than the five
seconds of `onSignal()`'s timer. The frames of the directory and of the MP4 carry
the run they were rendered in.

`Scenes` gives the five scenes as functions of their own time: where the ball is
hit, when a frame is held, when it crosses the line, where the camera cuts, whom
the crowd cheers, which sounds start and which texts are shown. Times are in
thirds of a millisecond, so that a frame at 24, 30 or 60 frames a second is a
whole number. `Montage` compiles scenes, the template of three segments and the
trailer of fifty-four shots as the code does, and steps through a video frame by
frame: the picture is evaluated through the excerpts, the sounds are placed by
arithmetic on times, and the properties say that the two agree.

## 3. Runs

"States" is the number of distinct states of the whole state space. Parts that
share nothing are checked in one run: a variable `part` says which of them moves,
and a behaviour is of one part. The modules of the parts are extended, not
instantiated, where they have theorems, so that the property a run checks and
the one a theorem states are one definition.

| Run | Question | Bounds | States |
| --- | --- | --- | --- |
| `lockstep_first_half` | Do two peers play alike, without false alarms, gaps or standstill, as one history, and can every pause be ended? | two input values, three ticks, one pause, delay 1, hash every 2 ticks, catch-up 2 | 133,988 |
| `lockstep_half_time` | Does whoever closes the match, or loses the link, take the other with him, across half time, resync, full time and the world table? | halves of one update, five ticks, one pause, catch-up 3 | 47,075 |
| `lockstep_half_skew` | Does half time keep the engines alike? | | counterexample |
| `lockstep_half_stranded` | Does the guest follow the host into the second half? | | counterexample |
| `lockstep_dead_link` | Is a dead link noticed? | | counterexample |
| `durable_objects` | Matchmaker: do pairs agree, do cancels last, do searches end? Room: does it keep the seats of those who have sockets, and do its clients know who is there? | two players, one searching twice, one restart; a code, three sockets of two clients, one message under way | 189,621 |
| `servers` | Country league: are verdicts, reports and tables stable? Matchmaker: is every ticket claimed once, every room seated right? Node server: is a room never overfull, a fixture decided as reported, a schedule fair? | two players, countries and scores, one match, two weeks, two handlers; three players with one search each, one restart; four sockets of three clients, three messages; two friends, three requests at a time, schedules of up to eight | 881,293 |
| `lobby` | Do both sides come into one match, or learn that the other has left? Is no candidate lost? | two players, two attempts each, three faults or retries | 456,931 |
| `match_parts` | The rules: is every restart taken, every press used as it was meant? Input: is every edge heard once? The page: do verdict, waiting and match belong together? The tool: does it leave nothing behind and tell the truth? The videos: do sound, text and picture agree? | two outfielders a side, times of one or two ticks; two presses, two ticks; three opponents, two loads; two renders of two frames; three frame rates, three lengths | 866,165 |
| `keeper_edge` | Is one press one action? | | counterexample |
| `shell_record` | Is the record on the page that of the match on the page? | | counterexample |
| `league_lock` | Is a country locked for its week? | | counterexample |

Why the bounds are enough to be interesting:

* With delay 1 and catch-up 2 a frame can jump past its own frontier, step
  several ticks, send several inputs in one burst and lag behind the other peer
  by `Delay + 1`; three ticks and a hash interval of two contain a hash of both
  peers at different moments. Two input values tell a swapped or replaced input
  from the right one; runs about screens and links need only one. `MaxHistory`
  exceeds what a resync rewinds, as the 30 ticks and more of the code do.
* A half of one update puts the end of the half inside a frame of two or three
  steps, which is the interesting case; five ticks reach full time.
* Three matchmaking players, two of one country, are the smallest number in
  which a third can intrude on a pair or has to be passed over; a second search
  of one player is what makes cancels and joins of two tickets overlap. One
  restart of the object meets one suspended handler, and with one search each
  two handlers are suspended at once.
* Verdicts of different matches touch different rows, so one match is enough for
  them; two handlers are open at once in every combination. The two scores share
  their home goals and differ in the winner. The second week catches what is
  written in one week from what was read in the other. Players and countries are
  interchangeable, so their permutations are a symmetry of the run, which checks
  no liveness.
* Reports of two sides and a ruling of the creator are three requests. Schedules
  of two to eight members have every number of rounds with and without a bye that
  the parity of the round can tell apart.
* Four sockets in the Node server's room, two of one client: a leave that writes back
  meets a join of the same and of another client, and the close of an old socket a
  newer one. The Room object writes nothing back, and three sockets are enough for
  the latter.
* Two attempts of each player are what lets a continuation of the first meet the
  second; three faults (lost sockets and links, calls that time out, retries of
  the hello) can be of either side or follow each other.
* In the rules every time is one or two ticks, in the order of the real ones, so
  that each may run out before, with or after another: `BufferTicks < SetupTicks`
  is what lets a strike that waits die before play starts again, and is so in
  `tuning.ts`. In the run of `match_parts` presses come from the guest of an
  online match or from a host alone. Two outfielders a side are one who has the
  ball and one to pass to.
* Frames of half a tick, of one and of two and a half are the three ways a frame
  can meet the clock.
* Three opponents are a match, the next, and one whose answers are late for both.
* Pauses are checked, and proved to be ended, before half time. Beyond it the
  property does not hold: the echo of a pause can reach the guest on his half-time
  screen, which then is paused with nobody on the pause screen. In
  `lockstep_first_half` whoever pauses has pressed nothing before and nobody
  presses anything after (`PressOrPause`): a pause does not read the inputs.
* Frame rates are those of the tool; scenes of their default length, of two and
  of twelve seconds make every hold fall on, before and after a frame. The
  template and the trailer have one length.

`CHECK_DEADLOCK FALSE` stands where the system may stop: a finished match, no
search in progress, a league at its bounds, a page or a video at its end.

Fairness. `Lockstep!FairSpec` assumes that frames go on (requestAnimationFrame),
that a frame is due for a tick again and again, that a delivered packet is
handled, that the half-time screen continues by itself (2.5 s timer) and that a
stall is counted. Users owe nothing. `Matchmaking!FairSpec` assumes that
requests arrive, that awaits end, that the polling timer goes off, and that a
call is answered or fails (the ten-second abort). Strong fairness is assumed of
`PollLate` only: a search that keeps polling is sooner or later polled after the
eight-second limit, or after its expiry when its handler was lost; time passes
between polls whatever else happens. No one has to search, quit or restart.
`Lobby` states that nobody waits for ever without fairness: in no state in which
nothing can happen any more (`Settled`) does a player wait. The other modules
have safety properties only.

### What the failing runs show

* `lockstep_half_skew`: `step()` advances the session's tick even when
  `update()` did nothing because the half has ended, so a catch-up frame across
  half time leaves the peers with different ticks for the second half, which then
  is not played alike until a resync. For the same reason an input that was sent
  can be replaced across half time.
* `lockstep_half_stranded`: a `continue-half` that is early is remembered, but
  only `frame()` consumes it and the half-time screen pumps no frames.
* `lockstep_dead_link`: `missingRemote()` looks at the input of team 1, which on
  the guest is the guest's own; its stall counter never moves.
* `league_lock`: `upsertProfile()` checks the lock and writes later; two
  overlapping requests both pass.
* `keeper_edge`: while the own keeper holds the ball, one press makes him release
  it in `updateAI()` and is used again in the same tick by `humanActionsSide()`,
  which reads the owner anew.
* `shell_record`: the record of a match against the computer outlives its
  full-time screen by way of the world table, and the next friend is played, and
  reported, under it. What their full-time screen then shows is the verdict on the
  record's match. `VerdictIsThisMatch` asks for the verdict on the match that was
  played, of every page but one with such a record (`KeptRecord`).

### Seen while modelling

Not given a run: some are the code's own choice, with no line of the repository
against it; some need what the models abstract from. Where a line does say
otherwise it is cited, and a property that meets the case excepts it by name.

* Match. Both peers ask for and answer a resync although a comment calls recovery
  "Host-authoritative" (`session.ts:138`). A hash that arrives before its tick is
  dropped, so the last agreed tick of the slower peer can be too old for its peer
  to answer. A resync can rewind the guest to before half time. The `resume` of
  one user within a round trip of the other's pause is undone by the echo of that
  pause. After a resync the frontier's input is rewritten with the edges of pass,
  long pass, shot and switch, but not with `passReleased` (`driver.ts:337-347`):
  a release that waited is lost, and a pass that is held goes to feet, although the
  comment at `driver.ts:312-316` has every edge heard by exactly one tick;
  `EachEdgeOnce` excepts it.
* Page. After an online match the way by WORLD TABLE and the title to PLAY WITH A
  FRIEND ends on a host screen that shows the old code: `netBusy` is still set.
  The catch branch of `submitCityResult()` shows an error without asking whether
  the match is still the one it was about. An opponent who leaves the full-time
  screen takes the other off his. Booting clears the pending invitation before
  the join that is deferred by 50 ms. `cityMatchBusy` is one flag for all attempts.
* League. `createMatch()` checks the country but not its week. The memory store's
  fallback of `submitResult()` reads both reports and finalises later.
* Limiter. The Redis limiter counts refused attempts too.
* Video tool. A SIGTERM while Vite starts, or where `main()` goes on to start
  FFmpeg, leaves that child running when the five-second timer exits the process,
  although the comment at `render-video.ts:236-237` says otherwise;
  `NothingLeftRunning` excepts exactly these.
* Videos. Excepted by name in `SaidAsSeen`: the text "X SCORES!" of the cross comes
  at 6.15 s and the ball crosses at about 6.32; the crowd there cheers from the header
  at 5.8 s, although `cross-header-goal.ts:496-499` says when it hits the net; and the
  crossbar's net is set by hand at 7.4 s, so that its roar comes some 199 ms after the
  crossing, although `audio/compile.ts:12-16` says 50 to 130 and `88-92` that times are
  anchored to the beats (`crowd-assets.test.ts` measures to the hand-set impact, and
  passes). Excepted by name in `NothingTwice`: shots s07 and s08 of the trailer overlap,
  so that one kick, and the rise of the crowd with it, is heard twice, 150 ms apart.
  Within the tolerance of `InStep`: sounds follow the nominal beats while pictures after
  a hold come 50 to 60 ms later. Also: the ball of the cross jumps 0.7 m where the pass
  ends; the net sounds, and the crowd cheers, 14 ms before the ball that beats the keeper
  is in it; and the headline of the template's intro stays for 0.3 s over the first
  attack.

## 4. Proofs

The theorems hold for every value of the constants that satisfies the named
assumptions (`LockstepAssumption`, `MatchmakingAssumption`, `NoneAssumption`,
`CityLeagueAssumption`, `RowAssumption`, `RoomAssumption`, `LobbyAssumption`,
`EngineAssumption`, `NoneIsNothing`, `InputAssumption`), which TLC evaluates in the
runs, or the hypotheses given here. Of the properties of behaviours below hardly one is
inductive: nearly every proof needs a strengthening, which was checked with TLC
before it was proved.

**`LockstepProofs`**, for every input set, delay, hash interval, history, catch-up
limit and number of ticks:

* `TypeCorrect`: `Spec => []TypeOK`, with half time, resyncs, pauses and failures.
* `FirstHalfPlayedAlike`, `FirstHalfNoFalseAlarm`, `FirstHalfBoundedSkew`,
  `FirstHalfSentTicksFrozen`: the properties of those names, under the
  assumption `MaxTick < HalfLen`, that is, until the first session reaches half
  time. The assumption is needed: `lockstep_half_skew` shows that `PlayedAlike`
  fails beyond it.

`PlayedAlike` does not say why inputs still on their way will agree with those
already played. The inductive invariant `FirstHalfInv` says that there is a
*script*, the bytes that each peer has committed to for each tick, and that
everything agrees with it: what a peer has staged below its watermark, what its
peer has received, every input packet on its way, every snapshot and hash, and
both histories, which are the script played up to the session's tick. A frame may
extend the script above the watermark and never changes it below;
`FirstHalfWindow` shows that the staged window, the watermark and the frontier fit
together, `FirstHalfFrame` that the frame keeps the script. The rest of the proof
is one lemma per group of actions.

Its last part goes on from there, under the same assumption:

* `FirstHalfOneHistory`: `Lockstep` implements `Agreement`. The refinement mapping
  takes the longer log for the history; a frame of the peer in front writes it, a
  frame of the other reads it, every other action stutters.
* `FirstHalfOwnInputStaged`: no tick that is due lacks the peer's own input.
* `FirstHalfPauseHasResumer`: with nothing on its way, an engine that is paused has
  somebody on the pause screen. It needs no account of the pauses, resumes and echoes
  under way: whatever they cross, a page that shows the match has a running engine
  (`Awake`), and before half time a page shows the match or the pause.

**`WorkerProofs`**, the matchmaker, for every set of searchers, countries, number of
searches and of restarts: `PairAgreesHolds`, `ReservedOnceHolds`, `SeatedTogetherHolds`,
and the action property `CancelIsFinalHolds`, from `MatchInvHolds`. `MatchInv`
ties together the table, the handlers suspended in an await and the seats of the
clients: the rows of a pair name each other and carry the two roles of one room
(`TableOK`); a suspended handler's tickets are reserved or have been cancelled,
and are no other handler's (`Handled`); a room that is still being asked for, and
a ticket that has not been asked for, are in no row, request or seat (`Unused`,
`Unasked`); and a seat is the one its player's current ticket was given
(`Seated`). As handlers write back a table they have changed in several steps,
these conditions are stated of any table and followed through each step.

The country league, in the same module, for every set of clients (also an
infinite one), countries and scores and any number of matches, weeks and
overlapping handlers: `TypeCorrect`, `VerdictCorrect`
(`Spec => []VerdictIsTheirs`), `ReportsFinal` (`Spec => ReportsStand`) and
`TableGrows` (`Spec => TableOnlyGrows`). The invariant `LeagueInv` adds two facts:
only the two sides of a match between two different clients have reports on it
(`SidesReport`), and what an open handler decided from what it read is still
right when it writes (`Fits`). The second is why a handler may safely wait: sides
of a row never change and rows never disappear. It is also what fails for the
country lock, where what was read does not stay true, so no such fact exists for
`UpsertPlayer`. A line of the table adds up goals and points, and a sum is a
recursive function of which nothing can be proved for every table; the model
therefore states it as the size of a set, the goals numbered match by match
(`Total`). The set only grows, since rows that count are never changed or removed.

**`RoomProofs`**, for any codes, sockets and clients, any roster and any number of
messages under way: `SeatIffSocketHolds` and `PresenceAgreesHolds`. `RoomInv` has a
part of each socket and two of each room. A socket whose upgrade has come is among
the sessions for as long as the object still hears of it, unless the room is gone or
over (`SocketOf`); sessions and members are distinct, each session is a member's, and
each member but the creator has one (`Seated`); and what a client has read, followed by
what is under way to it, says exactly who else is a member (`Informed`). The last is
what a late reader needs: the queue is read to its end for each peer alone
(`WillSee`), from the latest message that names it. A socket belongs to one room, so
a step of it disturbs no other (`SocketGoesOn`, `SeatedStays`, `InformedStays`);
within a room there is one lemma for joining, one for closing and one for each other
kind of step.

**`LobbyProofs`**, for any number of attempts and of faults, of friends and of
ranked players: `OwnAttemptOnlyHolds` and `NoSocketForgottenHolds`, from
`LobbyInvariant`. What a page keeps is its current attempt's or nothing (`Own`), and
a driver that is not closed is the page's (`Driven`). Continuations do not ask for a
number but for an attempt, so the proof has to know that nothing is about an attempt
still to come (`Tried`), that an attempt which awaits the signalling service has
nothing else yet (`Calling`), and that a player who was paired is still in the menu
(`PairedInMenu`). A socket can then not be lost: without a fault, the page of a
friend's attempt has its signalling client or awaits it (`Signalling`), and an open
socket is one the page will hang up, or a join is awaited that will notice it
(`Watched`). `PageStays` and `PageLeft` say of the two kinds of step, those that keep
the attempt and those that go back to the menu, what they need to preserve all of
this; then one lemma per action.

`SameMatchHolds`, in the same module: two players that are each other's mate are,
once both play, on the same seed under the same token, and the record each keeps is
that of its match. `SamePairing` is far from inductive, because most steps only pass
on what was said earlier. `SameInv` therefore follows a match from its first word.
The mates: an attempt gets its mate once and its driver once (`OnceOf`), and has
nothing before (`Fresh`), so that a late answer or a second offer cannot change
either; the mate of a host has that host for its mate (`Mates`), also while the
answer is only on its way (`NegotiatedOf`). The match: a guest's seed and token are
those its host dealt it (`Seeds`). The words: each message in an inbox, at a room or
from a room is true (`Words`), where `Fair`, `TrueSaid` and `TrueHeard` say what each
kind of message may claim; a room that is reserved can only be joined by the two it
was reserved for (`InRoom`), which is what makes a relayed packet one of the mate.
What is true stays true since mates, seeds and tokens, once known, do not change
(`Kept`), so a step need only answer for the messages it sends. `TalkStep`,
`OneStep` and `OnceStep` say so of the kinds of step; then one lemma per action. The
rooms' members and sockets are sequences, of which the proof uses no more than which
values they may hold (`WiderSeq`, `RemoveFirstSeq`) and that a search finds what is
there (`SocketForPeer`, from the least position, `FirstPosition`). `LobbyAssumption`
asks that `None` is neither an attempt nor a pair of attempts.

**`CandidateProofs`**, for as many attempts and faults: `NoCandidateLostHolds`. An ICE
candidate is sent before or after the offer or the answer and may arrive before its
peer has a transport, or a remote description, to apply it to. `CandInv` says where
it can then be: queued only while the peer has no transport, pending only while it has
no description (`Held`), and dropped only by a peer past its lobby (`Dropped`). That
the queue is taken over at the right moments depends on how far an attempt has come
(`LocalFits`), on which peer it has and whether that one has it (`PeerFits`), on what
is under way (`LettersFit`: a signal of an attempt that is still current is for its
peer, and comes from one that has the hearer for its own), and on rooms in which
nobody is but the sockets opened for them (`RoomsFit`). The proof first says what any
step may do to a page and a socket (`Stable`) and what of all this then stays; a
`QuietStep` touches no candidate; one lemma per action does the rest.

**`NodeServerProofs`**:

* `ReportsDecideHolds`, for any number of friends, scores, starts and requests, if
  `Nothing` is no score, request or verdict (`NothingIsNull`): a score that counts
  is one both sides reported or the creator ruled, and while no request has died a
  fixture with both reports does not stay pending. The invariant (`LeagueInvHolds`)
  says of every request at each of its calls what it can rely on: a verdict that
  waits to be written is supported by reports that were there once (`Requests`),
  and a pending fixture with both reports has a request past its own report that
  will still read them (`PendingIsHandled`). Reports are never taken back but may
  be overwritten, so "were there once" is a history variable.
* `NeverOverfullHolds`, for any number of sockets, messages and seats
  (`MaxMembers \in Nat \ {0}`): the record is never too large, because neither it
  nor any copy a departing handler has read is (`RoomInv`).
* `CircleMethod`, `SchedulesAreFair`: the schedule of any number n >= 2 of
  members has every pair once, nobody twice in a round, and with more than two
  nobody at home throughout (the run evaluates n up to eight). `roundRobin()`
  turns a ring once a round; `WhoIs` and `PlaceOf` say in closed form who is
  where after any number of turns, and `RingRounds` proves that they do, from
  the least round in which they would not. That two of n members meet is then an
  equation between places with one solution.

**`MatchProofs`**, for any number of players, any times of `tuning.ts` that keep
the order `EngineAssumption` names, and any delay, clock and number of edges:

* `EachEdgeOnceHolds`: each press and release is heard by exactly one tick, waits in
  exactly one place, or was let go. `StagingInv` adds which edges there are (those
  numbered so far), that the places where they wait share none with each other or
  with what was let go, and which ticks have an input: a window without gaps from 0,
  which the watermark never exceeds (`Windowed`). After a resync the frontier's
  input may be made anew, and that loses the release of a pass (`Forgiven`), as
  the code does.
* `RestartTakenHolds`: `StopInv` adds what each part of a tick knows of the stop it
  finds: only during play a tick has further parts, and only a human has a turn.
* `PressStandsHolds`, an action property: a pass let go, a shot charged or a strike
  that waited is still the one it was pressed for. Nothing in the code clears a
  held press when the ball goes dead, so the proof has to say how it dies of its
  own. `PressInv`: a press that no longer stands is found to be lost before its side
  acts, because its player has lost the ball and cannot get it back before then
  (`BrokenOff`: a ball just kicked is locked for longer than one tick); a shot is
  not charged without its press, but for the rest of the tick in which the own
  keeper took it, when nobody has the ball (`Charging`); and a waiting strike is
  too old before any restart can be taken, since `BufferTicks < SetupTicks`
  (`Fades`).

**`AwaitProofs`**, the page, without any hypothesis: `VerdictIsThisMatchHolds`,
`WaitIsServedHolds` and the action property `MatchNotLeftHolds`, from
`ShellInvHolds`. `PageInv` is of a page and the answers it waits for: their parts
fit together (`Formed`), a verdict on the page is of the page's record
(`Verdicts`), which is the record of the match on the pitch unless it was kept from
an earlier one (`Pitch`, `Played`), a record that is asked for is the current
opponent's, and is missing (`Records`), at most one attempt is under way and a search
has the page to itself (`Waits`), and a ranked opponent is sought or here, and met
under a record (`Ranked`). The proofs go through the helpers of the page (`To`, `Closed`, `Alone`,
`Lobbyward`, ...), of each of which a lemma says which parts it keeps; then one
lemma per handler.

The video tool, in the same module, for videos of any length (`MaxFrames \in Nat`)
and any number of renders: `NothingLeftRunningHolds` and `ExitIsTrueHolds`. `RunInv` says
at each await which children run and which of them the handler of SIGTERM has been
told of, and which frames of the directory and of the MP4 are this run's own, also
while frames of an earlier and longer video are still there.

Only model-checked:

* liveness (`Progress`, `LeaveTogether`, `SearchEnds`) and what is stated with
  ENABLED (`LobbyEnds`, `StartTogether`), which are out of the prover's reach;
* `InStep`, `NothingTwice` and `SaidAsSeen`, which are about fifty-four given shots and
  their given times: TLC evaluates every frame of every video, and there is no
  parameter to prove them for but the length of a single scene.

The library's induction theorems take an operator as their parameter, which no
installed prover can instantiate. Where a proof needs an induction over numbers (the
first position in a sequence, the rounds of a ring) it takes the least
counterexample instead, which exists because `<` is well-founded on the naturals
(`WFMin`); where a model would need a recursive function over data (a line of the
table), it states a cardinality or a quantifier in its place.

## 5. Not modelled

* The engine's physics and AI: real-valued arithmetic, of which the protocol
  needs only that it is a function of its inputs, and the rules only that it may
  answer either way. Floating-point differences between browsers are therefore
  outside the models.
* Rendering, audio synthesis, sharing, analytics: no state that another component
  reads.
* WebRTC and the sockets themselves: an ordered pipe that may die, loudly or not.
* `autosignal.ts`, the signalling client of the Node server, which the page uses
  where no Worker answers; the log and the form of the invitation link.
* The rate limiters: they admit single requests by counters of a window, and a
  refusal is one of the failures the clients of the models meet anyway.
* TURN credentials: one outgoing request without state.
* Schemas: validation of single messages.
* The in-memory development store of the country league, where the last report
  of a side counts and the verdict is not atomic (`service.ts:191-209`); the
  tie-break order of the table; the bot's difficulty.
* Of the Node server the heartbeats and relayed messages; of friend leagues the
  table and names.
* Of the videos the players, cameras and looks, the mixing of the sound and the
  arguments of FFmpeg.

## 6. What is left

* Models: an abstract room (at most two members; a member is present while one of its
  sockets is) that both the durable object and the Node server implement, as
  `docs/adr/005` promises; a replay as a refinement of the match it replays; the
  end-of-match screens and the rematch.
* Proofs: of the lockstep match beyond half time only its types are proved, as the
  properties themselves fail there. If the half-time skew were repaired, the script of
  `FirstHalfInv`, with the two halves one after the other, is where to go on.
