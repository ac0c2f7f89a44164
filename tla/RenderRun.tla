------------------------------ MODULE RenderRun ------------------------------
(***************************************************************************)
(* A run of the tool that renders the social videos: social:render, which  *)
(* makes an MP4 (scripts/render-video.ts), and social:frames, which leaves *)
(* the PNG frames in a directory (scripts/render-frames.ts).               *)
(*                                                                         *)
(* main() starts a Vite server, then Chromium, opens the page, takes one   *)
(* picture per frame, closes both, and for an MP4 mixes the audio, starts  *)
(* FFmpeg and validates what it wrote.  An action is what happens between  *)
(* two awaits; every step may fail.  Once, anywhere, the process may get   *)
(* a SIGTERM.                                                              *)
(*                                                                         *)
(* External, as the code relies on it: Playwright closes its browser when  *)
(* the process gets a SIGTERM or exits; a child that nobody kills outlives *)
(* the process; closing a browser takes less than the five seconds of the  *)
(* timer of onSignal().                                                    *)
(* Operators whose comment starts with "Slip:" are not part of the model.  *)
(***************************************************************************)
EXTENDS Integers

CONSTANTS
  MaxFrames,   \* bound: frames of a video
  MaxRuns      \* bound: runs of the tool, one after the other

VARIABLES
  job,         \* the run: its number, command, options and number of frames
  at,          \* where main() is
  handed,      \* state.session: onSignal() knows the session
  alive,       \* the child processes that run
  signalled,   \* where the SIGTERM came, "no" before
  closing,     \* onSignal() awaits session.close()
  dir,         \* the frames in the directory of the run, with the run that made them
  shared,        \* the frames in the directory that runs share
  output,      \* the MP4: the run it is of, its frames, and whether it is playable
  exit         \* exit code

renderVars == <<job, at, handed, alive, signalled, closing, dir, shared, output, exit>>

NoOutput == [run |-> 0, frames |-> {}, good |-> FALSE]

RenderInit ==
  /\ job = [run |-> 0, command |-> "video", keep |-> FALSE, total |-> 0]
  /\ at = "ended" /\ handed = FALSE /\ alive = {} /\ signalled = "no"
  /\ closing = FALSE /\ dir = {} /\ shared = {} /\ output = NoOutput /\ exit = 0

OwnFrames == {[frame |-> i, run |-> job.run] : i \in 0 .. (job.total - 1)}

\* The next frame to take.
Taken == {f \in dir : f.run = job.run}
NextFrame == CHOOSE i \in 0 .. MaxFrames :
               /\ \A f \in Taken : f.frame # i
               /\ \A k \in 0 .. (i - 1) : \E f \in Taken : f.frame = k

\* The process is over: Chromium goes with it, other children do not.
End(code, children) ==
  /\ at' = "ended" /\ exit' = code /\ alive' = children \ {"browser"}
  /\ handed' = FALSE /\ closing' = FALSE

-----------------------------------------------------------------------------
(* The run *)

\* Slip: they stay.
Uncleared(frames) == frames

\* clearFramePngs(): pictures of an earlier, longer video go.
Cleared(frames) == {}

\* The next run, once what was left of the last is gone.
Begin(command, keep, total) ==
  /\ at = "ended" /\ job.run < MaxRuns /\ alive = {}
  /\ job' = [run |-> job.run + 1, command |-> command, keep |-> keep, total |-> total]
  /\ signalled' = "no"
  /\ UNCHANGED <<handed, closing, output>>

\* Vite is started for the frames of directory d.
Serve(keep, d) ==
  /\ at' = "server" /\ alive' = {"server"} /\ dir' = d
  /\ shared' = IF keep THEN d ELSE shared
  /\ UNCHANGED exit

\* social:render, main(), from the arguments to the start of Vite: an MP4 that exists is
\* replaced only with --force, and frames go to a new directory unless they are kept.
StartVideo ==
  \E keep \in BOOLEAN, force \in BOOLEAN, total \in 1 .. MaxFrames :
    /\ Begin("video", keep, total)
    /\ IF output # NoOutput /\ ~force
       THEN exit' = 1 /\ dir' = {} /\ UNCHANGED <<at, alive, shared>>
       ELSE Serve(keep, IF keep THEN Cleared(shared) ELSE {})

\* social:frames, main(): a video of which only the frames are wanted.
StartFrames ==
  \E total \in 1 .. MaxFrames :
    Begin("frames", TRUE, total) /\ Serve(TRUE, Cleared(shared))

\* startHarnessServer(): Vite answers, or is stopped.
ServerUp ==
  /\ at = "server"
  /\ \/ /\ at' = "browser" /\ alive' = alive \cup {"browser"}
        /\ UNCHANGED <<handed, closing, exit>>
     \/ End(1, alive \ {"server"})
  /\ UNCHANGED <<job, signalled, dir, shared, output>>

\* What openWithParams() stops when it fails.
Unopened(children) == children \ {"browser", "server"}

\* openWithParams(): Chromium is launched, the page loads and its harness is ready;
\* only then is the session handed to onSignal().
Opened ==
  /\ at \in {"browser", "page"}
  /\ \/ /\ "browser" \in alive
        /\ at' = IF at = "browser" THEN "page" ELSE "frames"
        /\ handed' = (at = "page" /\ job.command = "video")
        /\ UNCHANGED <<alive, closing, exit>>
     \/ End(1, Unopened(alive))
  /\ UNCHANGED <<job, signalled, dir, shared, output>>

\* screenshotFrame(): one picture, whose size is checked when it has been written; the
\* finally block follows the last one, and the first that fails.
TakeFrame ==
  /\ at = "frames"
  /\ \/ /\ "browser" \in alive
        /\ dir' = {f \in dir : f.frame # NextFrame} \cup {[frame |-> NextFrame, run |-> job.run]}
        /\ at' \in {"failing", IF NextFrame = job.total - 1 THEN "closing" ELSE at}
     \/ at' = "failing" /\ UNCHANGED dir
  /\ handed' = (handed /\ at' = "frames")
  /\ shared' = IF job.keep THEN dir' ELSE shared
  /\ UNCHANGED <<job, alive, signalled, closing, output, exit>>

\* Slip: only the browser is closed.
ClosedHalf(children) == children \ {"browser"}

\* session.close(), whose finally block stops Vite.
AfterClose(children) == children \ {"browser", "server"}

\* session.close() of main(); then, without an await, the audio is mixed and FFmpeg
\* started.
CloseSession ==
  /\ at \in {"closing", "failing"}
  /\ \/ /\ at = "closing" /\ job.command = "video"
        /\ at' = "encoding" /\ alive' = AfterClose(alive) \cup {"encoder"}
        /\ UNCHANGED <<handed, closing, exit>>
     \/ /\ at = "closing" /\ job.command = "frames"
        /\ End(0, AfterClose(alive))
     \/ End(1, AfterClose(alive))          \* the run has failed, or the audio fails
  /\ UNCHANGED <<job, signalled, dir, shared, output>>

\* The frames FFmpeg reads (%06d.png): up to the first that is missing, and no
\* longer than the sound, which has the length of the video (-shortest).
Read == {f \in dir : f.frame < job.total /\ \A i \in 0 .. f.frame : \E g \in dir : g.frame = i}

\* runFfmpeg() is done; it was killed if it does not run any more.
Encoded ==
  /\ at = "encoding"
  /\ \E good \in BOOLEAN : output' = [run |-> job.run, frames |-> Read, good |-> good]
  /\ \/ /\ "encoder" \in alive
        /\ at' = "probing" /\ alive' = alive \ {"encoder"}
        /\ UNCHANGED <<handed, closing, exit>>
     \/ /\ ~output'.good
        /\ End(1, alive \ {"encoder"})
  /\ UNCHANGED <<job, signalled, dir, shared>>

\* The temporary directory is removed when the MP4 has been found good.
Removed(good) == good /\ ~job.keep

\* probeMedia() or its fallback, validateMedia() and hasFaststart(): a file that is
\* not good does not pass, and a probe may fail with a good one.
Probed ==
  /\ at = "probing"
  /\ \E valid \in BOOLEAN :
       /\ valid => output.good
       /\ End(IF valid THEN 0 ELSE 1, alive)
       /\ dir' = IF Removed(valid) THEN {} ELSE dir
  /\ UNCHANGED <<job, signalled, shared, output>>

-----------------------------------------------------------------------------
(* The signal *)

\* onSignal(): FFmpeg is killed, and the session closed if it is known.  Without a
\* handler of its own (social:frames) the process dies, unless Playwright, which
\* has one, runs a browser.
Signal ==
  /\ at # "ended" /\ signalled = "no"
  /\ signalled' = at
  /\ IF job.command = "frames" /\ "browser" \notin alive
     THEN End(143, alive)
     ELSE /\ alive' = alive \ {"encoder"}
          /\ closing' = handed
          /\ UNCHANGED <<at, handed, exit>>
  /\ UNCHANGED <<job, dir, shared, output>>

\* Playwright closes the browser that ran when the signal came.
BrowserGone ==
  /\ signalled \notin {"no", "server"} /\ "browser" \in alive
  /\ alive' = alive \ {"browser"}
  /\ UNCHANGED <<job, at, handed, signalled, closing, dir, shared, output, exit>>

\* The end of onSignal(), if it awaits the session.
ClosedBySignal ==
  /\ closing
  /\ End(130, AfterClose(alive))
  /\ UNCHANGED <<job, signalled, dir, shared, output>>

\* Its timer of five seconds: by then a close that was under way is over, and main()
\* has found that the browser is gone, if there was one when the signal came.
TimeUp ==
  /\ job.command = "video" /\ at # "ended"
  /\ \/ signalled = "server"
     \/ signalled # "no" /\ at \in {"encoding", "probing"}
  /\ End(130, alive)
  /\ UNCHANGED <<job, signalled, dir, shared, output>>

RenderNext ==
  \/ StartVideo \/ StartFrames \/ ServerUp \/ Opened \/ TakeFrame \/ CloseSession
  \/ Encoded \/ Probed \/ Signal \/ BrowserGone \/ ClosedBySignal \/ TimeUp

RenderSpec == RenderInit /\ [][RenderNext]_renderVars

-----------------------------------------------------------------------------
(* Properties *)

\* A run that is over has left no browser, server or encoder behind, however it
\* failed and whenever it was told to stop, but for what onSignal() does not know when
\* the SIGTERM comes: Vite while it is starting, and an FFmpeg that main() starts
\* afterwards, before the timer ends the process.
NothingLeftRunning ==
  at = "ended" =>
    /\ "browser" \notin alive
    /\ "server" \in alive => signalled = "server"
    /\ "encoder" \in alive => signalled \notin {"no", "encoding", "probing"}

\* The exit code is true.  After a 0 the MP4 is playable and made of the frames of
\* this run, all of them and no others, or the directory holds exactly these; after
\* a failure every frame that was taken is still there.
ExitIsTrue ==
  at = "ended" /\ job.run > 0 =>
    IF exit = 0
    THEN IF job.command = "frames" THEN dir = OwnFrames
         ELSE /\ output = [run |-> job.run, frames |-> OwnFrames, good |-> TRUE]
              /\ dir \in {{}, OwnFrames}
    ELSE output.run = job.run => OwnFrames \subseteq dir
=============================================================================
