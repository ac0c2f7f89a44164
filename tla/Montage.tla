------------------------------ MODULE Montage ------------------------------
(***************************************************************************)
(* The videos made of the scenes: a scene alone, the template of three     *)
(* segments (templates/), and the trailer, a montage of fifty-four shots   *)
(* (trailers/).  Each is compiled once into excerpts of scenes, sounds and *)
(* texts, and then rendered frame by frame: a frame is evaluated in the    *)
(* excerpt that runs at its time, at the nearest frame of the scene's own  *)
(* clock, while the sounds are placed by arithmetic on their times.        *)
(* Whether the two agree is what this module is about.                     *)
(* Operators whose comment starts with "Slip:" are not part of the model.  *)
(***************************************************************************)
EXTENDS Scenes

CONSTANTS
  Rates,       \* frame rates, each a divisor of 3000
  Durations,   \* lengths asked for a scene video, besides its default
  Styles       \* styles of attack

VARIABLES
  video,       \* what is rendered, at which rate
  plan,        \* its excerpts, sounds and texts
  frame,       \* the frame shown
  picture      \* what it shows

montageVars == <<video, plan, frame, picture>>

\* Length of a frame.
FrameTime(fps) == 3000 \div fps

-----------------------------------------------------------------------------
(* Compilation *)

\* An excerpt: when it runs, and from which to which time of which scene, with the
\* countries of which match-up.
Excerpt(start, end, scene, from, to, matchup) ==
  [start |-> start, end |-> end, scene |-> scene, from |-> from, to |-> to,
   matchup |-> matchup]

SceneExcerpts(scene, duration) == << Excerpt(0, duration, scene, 0, duration, 0) >>

\* countryRivalrySegments(); the outro goes on where the attack ends.
TemplateExcerpts ==
  << Excerpt(0, 3000, "faceoff", 0, 3000, 0),
     Excerpt(3000, 12500, "attack", 0, 9500, 0),
     Excerpt(12500, 15500, "attack", 9500, 12500, 0) >>

\* worldLeagueHeroShots(): start, scene, match-up and source of each; it ends where the
\* next one starts.
TrailerEnd == 17600
TrailerShots ==
  << <<0, "faceoff", 0, 3000, 3400>>, <<400, "faceoff", 0, 3100, 3420>>,
     <<720, "faceoff", 0, 100, 430>>, <<1050, "faceoff", 0, 900, 1350>>,
     <<1500, "attack", 0, 1050, 1300>>, <<1750, "attack", 0, 1900, 2450>>,
     <<2300, "attack", 0, 3400, 3700>>, <<2600, "attack", 0, 3550, 4000>>,
     <<3050, "cross", 0, 2550, 2950>>, <<3450, "cross", 0, 3500, 3900>>,
     <<3850, "cross", 0, 5000, 5450>>, <<4300, "cross", 0, 5300, 5550>>,
     <<4650, "cross", 0, 5800, 5850>>, <<4800, "cross", 0, 5850, 6150>>,
     <<5100, "cross", 0, 6200, 6450>>, <<5350, "cross", 0, 6800, 7100>>,
     <<5650, "cross", 0, 7100, 7350>>, <<5900, "cross", 0, 6600, 6900>>,
     <<6200, "crossbar", 1, 200, 550>>, <<6550, "crossbar", 1, 2600, 3050>>,
     <<7050, "crossbar", 1, 3450, 3750>>, <<7350, "crossbar", 1, 4300, 4360>>,
     <<7550, "crossbar", 1, 4360, 4610>>, <<7800, "crossbar", 1, 4610, 4810>>,
     <<8000, "crossbar", 1, 5100, 5350>>, <<8250, "crossbar", 1, 6700, 6950>>,
     <<8500, "crossbar", 1, 7450, 7700>>, <<8750, "crossbar", 1, 8300, 8550>>,
     <<9000, "keeper", 2, 100, 380>>, <<9280, "keeper", 2, 2200, 2500>>,
     <<9600, "keeper", 2, 2500, 2850>>, <<9950, "keeper", 2, 3300, 3350>>,
     <<10100, "keeper", 2, 3850, 4130>>, <<10380, "keeper", 2, 5700, 5950>>,
     <<10630, "keeper", 2, 6300, 6500>>, <<10830, "keeper", 2, 7700, 7950>>,
     <<11080, "keeper", 2, 8300, 8520>>, <<11300, "keeper", 2, 9000, 9350>>,
     <<11650, "faceoff", 0, 3200, 3350>>, <<11800, "cross", 0, 950, 1100>>,
     <<11950, "crossbar", 1, 8300, 8430>>, <<12080, "keeper", 2, 2700, 2840>>,
     <<12220, "cross", 0, 4200, 4340>>, <<12360, "crossbar", 1, 4280, 4420>>,
     <<12500, "cross", 0, 5780, 5930>>, <<12650, "keeper", 2, 8400, 8550>>,
     <<12800, "crossbar", 1, 8750, 8930>>, <<12980, "crossbar", 1, 7400, 7620>>,
     <<13200, "faceoff", 0, 2800, 3450>>, <<13850, "attack", 0, 2400, 3050>>,
     <<14500, "crossbar", 1, 8200, 8900>>, <<15200, "cross", 0, 5750, 6200>>,
     <<15650, "crossbar", 1, 8300, 8800>>, <<16150, "attack", 0, 7300, 8600>> >>

TrailerExcerpts ==
  [i \in DOMAIN TrailerShots |->
     LET s == TrailerShots[i]
         end == IF i = Len(TrailerShots) THEN TrailerEnd ELSE TrailerShots[i + 1][1]
     IN  Excerpt(s[1], end, s[2], s[4], s[5], s[3])]

\* trailerEventTime(): when a sound of a scene starts in the video.
EventTime(x, at) ==
  Thirds(x.start) + (Thirds(at - x.from) * (x.end - x.start)) \div (x.to - x.from)

\* Slip: the end counts instead of the start.
WithinOpen(x, at) == x.from < at /\ at <= x.to

\* Slip: both count.
WithinClosed(x, at) == x.from <= at /\ at <= x.to

\* The sounds of an excerpt are those that start in it.
Within(x, at) == x.from <= at /\ at < x.to

\* A sound of the video, with the excerpt it comes from and its beat in that scene.
Sound(type, at, cut, beat) == [type |-> type, at |-> at, cut |-> cut, beat |-> beat]

\* A sound that the video has of its own, at time at.
OwnSound(type, at, cut) == Sound(type, Thirds(at), cut, at)

SceneAudio(scene, duration) ==
  {Sound(s[1], Thirds(s[2]), 1, s[2]) : s \in Sounds(scene, duration)}

\* compileTemplateAudio(): one bed, the scenes' sounds without theirs, and a tail of
\* the crowd over the outro.
TemplateAudio ==
  LET X == TemplateExcerpts
      shifted(i) ==
        {Sound(s[1], Thirds(s[2] + X[i].start), i, s[2]) :
           s \in {r \in Sounds(X[i].scene, X[i].to) : r[1] # "ambience"}}
  IN  shifted(1) \cup shifted(2)
      \cup {OwnSound("ambience", 0, 0), OwnSound("crowd", X[3].start, 3)}

\* compileTrailerAudio(): one bed and one sting, and what the excerpts contain.
TrailerAudio ==
  LET X == TrailerExcerpts
      taken(i) ==
        {Sound(s[1], EventTime(X[i], s[2]), i, s[2]) :
           s \in {r \in Sounds(X[i].scene, DefaultDuration[X[i].scene]) :
                    r[1] \notin {"ambience", "sting"} /\ Within(X[i], r[2])}}
  IN  UNION {taken(i) : i \in DOMAIN X}
      \cup {OwnSound("ambience", 0, 0), OwnSound("sting", TrailerEnd - 900, 0)}

\* A text of the video, about a match-up.
About(texts, matchup) == {[text |-> t, matchup |-> matchup] : t \in texts}

\* What the template takes of the texts of its attack.
Content(texts) == {t \in texts : t.kind \notin {"cta", "brand"}}

\* templateOverlayPlan(): the headline of the intro is moved before the cut, and the end
\* card belongs to the outro.
TemplateTexts ==
  LET cut == TemplateExcerpts[2].start
      outro == TemplateExcerpts[3].start
      intro == {IF t.kind = "headline"
                THEN Text("headline", Later(100, cut - 700), cut + 300)
                ELSE Text(t.kind, t.from, IF t.to < cut THEN t.to ELSE cut) :
                  t \in Texts["faceoff"]}
      attack == {Text(t.kind, t.from + cut, t.to + cut) : t \in Content(Texts["attack"])}
  IN  About(intro \cup attack \cup {Text("cta", outro + 200, Forever),
                                    Text("brand", outro + 400, Forever)}, 0)

\* trailerOverlayPlan(): three lines, two cards, three lines and the end card.
TrailerTexts ==
  About({Text("headline", 0, 550), Text("headline", 13200, 13850),
         Text("headline", 13850, 14500), Text("headline", 14500, 15200),
         Text("cta", 16150, Forever), Text("brand", 16150, Forever)}, 0)
  \cup About({Text("versus", 6200, 6900)}, 1)
  \cup About({Text("versus", 9000, 9600)}, 2)

Planned(excerpts, sounds, texts) ==
  [excerpts |-> excerpts, sounds |-> sounds, texts |-> texts]

NoPicture == [cut |-> 0, scene |-> "faceoff", at |-> 0]
NoVideo == [kind |-> "none", fps |-> 60, style |-> "central"]

MontageInit ==
  /\ video = NoVideo /\ plan = Planned(<<>>, {}, {}) /\ frame = 0 /\ picture = NoPicture

-----------------------------------------------------------------------------
(* Frames *)

Now == frame * FrameTime(video.fps)

\* Math.round(), of a quotient; the floating-point number may be just below a half.
Rounded(n, d) ==
  {(2 * n + d) \div (2 * d)}
  \cup IF (2 * n + d) % (2 * d) = 0 THEN {(2 * n + d) \div (2 * d) - 1} ELSE {}

TotalFrames(v, p) ==
  LET duration == Thirds(p.excerpts[Len(p.excerpts)].end)
  IN  (2 * duration + FrameTime(v.fps)) \div (2 * FrameTime(v.fps))

\* segmentAtTime(), trailerSegmentAtTime(): the last excerpt that has started.
ExcerptAt(p, t) == Max({i \in DOMAIN p.excerpts : Thirds(p.excerpts[i].start) <= t})

\* templateLocalFrame(), trailerLocalFrame(): the frame of the scene that is evaluated.
LocalFrames(x, t, fps) ==
  LET length == x.end - x.start IN
  IF x.start = 0 /\ x.from = 0 THEN {t \div FrameTime(fps)}
  ELSE Rounded(Thirds(x.from) * length + (t - Thirds(x.start)) * (x.to - x.from),
               length * FrameTime(fps))

\* What frame n of a video shows.
Pictures(v, p, n) ==
  LET t == n * FrameTime(v.fps)
      i == ExcerptAt(p, t)
  IN  {[cut |-> i, scene |-> p.excerpts[i].scene, at |-> k * FrameTime(v.fps)] :
         k \in LocalFrames(p.excerpts[i], t, v.fps)}

\* A video that has been compiled is rendered from any frame on: social:frame takes
\* one, and the frames of a video are evaluated one by one.
Compiled(v, p) ==
  /\ video = NoVideo
  /\ video' = v /\ plan' = p
  /\ frame' \in 0 .. TotalFrames(v, p) - 1
  /\ picture' \in Pictures(v, p, frame')

\* compileVideo() and compileAudioPlan()
CompileScene ==
  \E scene \in Scene, fps \in Rates, style \in Styles :
    \E duration \in Durations \cup {DefaultDuration[scene]} :
      Compiled([kind |-> "scene", fps |-> fps, style |-> style],
               Planned(SceneExcerpts(scene, duration), SceneAudio(scene, duration),
                       About(Texts[scene], 0)))

\* compileTemplate()
CompileTemplate ==
  \E fps \in Rates, style \in Styles :
    Compiled([kind |-> "template", fps |-> fps, style |-> style],
             Planned(TemplateExcerpts, TemplateAudio, TemplateTexts))

\* compileTrailer(): its sources attack through the centre.
CompileTrailer ==
  \E fps \in Rates :
    Compiled([kind |-> "trailer", fps |-> fps, style |-> "central"],
             Planned(TrailerExcerpts, TrailerAudio, TrailerTexts))

\* evaluateFrame(), evaluateTemplateFrame(), evaluateTrailerFrame()
NextPicture ==
  /\ video # NoVideo /\ frame + 1 < TotalFrames(video, plan)
  /\ frame' = frame + 1
  /\ picture' \in Pictures(video, plan, frame + 1)
  /\ UNCHANGED <<video, plan>>

MontageNext == CompileScene \/ CompileTemplate \/ CompileTrailer \/ NextPicture
MontageSpec == MontageInit /\ [][MontageNext]_montageVars

-----------------------------------------------------------------------------
(* Properties *)

\* The sounds that start while the frame is shown.
Starting == {s \in plan.sounds : Now <= s.at /\ s.at < Now + FrameTime(video.fps)}

Contacts == {"kick", "shot", "cross", "header", "crossbar", "save", "clearance"}

\* The time of the action in the picture.
ShownAt(p) == HeldAt(p.scene, p.at)

\* One frame and the rounding to a frame of the scene.
Tolerance == FrameTime(video.fps) + FrameTime(video.fps) \div 2

\* Picture p shows contact k of its scene, a frame before it at most, and no later
\* after it than the hold that the sound plan knows nothing of.
Shows(p, k) ==
  /\ k \in StrikesIn(p.scene)
  /\ ShownAt(p) <= Thirds(k.at) + Tolerance
  /\ ShownAt(p) >= Thirds(k.at - HoldOf[p.scene].len) - Tolerance

\* A contact that is heard is seen, in the frame in which its sound starts or, across a
\* cut, in the next.
HeardIsSeen ==
  \A s \in Starting : s.type \in Contacts =>
    \E p \in {picture, picture'} : \E k \in StrikesIn(p.scene) : k.sound = s.type /\ Shows(p, k)

\* A contact of an excerpt that is seen, from one frame to the next or in the first frame
\* after a cut, is heard.
SeenIsHeard ==
  \A k \in StrikesIn(picture'.scene) :
    LET t == Thirds(k.at)
        x == plan.excerpts[picture'.cut]
        seen == IF picture'.cut = picture.cut
                THEN ShownAt(picture) < t /\ t <= ShownAt(picture')
                ELSE t = ShownAt(picture')
    IN  seen /\ x.from <= k.at /\ k.at < x.to =>
          \E s \in plan.sounds :
            /\ s.type = k.sound
            /\ s.at <= Now' + Tolerance
            /\ s.at >= Now' - Thirds(HoldOf[picture'.scene].len) - 2 * Tolerance

\* The hold of an impact is not cut: neither by another camera, nor by an excerpt that
\* starts before the hold is over.
HoldIsWhole ==
  InHold(picture.scene, picture.at) /\ InHold(picture'.scene, picture'.at) =>
    /\ \/ picture'.cut = picture.cut
       \/ LET h == HoldOf[picture'.scene]
          IN  plan.excerpts[picture'.cut].from >= h.at + h.len
    /\ ActiveShot(picture'.scene, picture'.at) = ActiveShot(picture.scene, picture.at)

\* Picture and sound keep in step, across the holds that shift the picture alone, the
\* cuts, and the excerpts that run slower than their scene.
InStep == [][video # NoVideo => HeardIsSeen /\ SeenIsHeard /\ HoldIsWhole]_montageVars

ShownTexts == {t \in plan.texts : Thirds(t.text.from) <= Now /\ Now < Thirds(t.text.to)}

\* The moment of a scene that a sound belongs to.
MomentOf(s) ==
  [scene |-> IF s.cut = 0 THEN "none" ELSE plan.excerpts[s.cut].scene,
   beat |-> s.beat, type |-> s.type]

\* A moment is replayed, if at all, a second later at the earliest; sounds of one type
\* are a tenth of a second apart.
ReplayGap == Thirds(1000)
SoundGap == Thirds(100)

\* Shots 7 and 8 of the trailer overlap (trailers/presets.ts:52-55): both contain the kick
\* of the second pass of the attack, which is heard in both, 150 ms apart.
HeardInBoth(s) ==
  /\ video.kind = "trailer" /\ s.cut \in {7, 8}
  /\ MomentOf(s).scene = "attack" /\ s.beat = AttackBeats.carryEnd

\* Nothing comes twice: no moment of a scene is heard again before a cut could come back
\* to it as a replay, but for the one that shots 7 and 8 both contain; sounds of a type
\* never run into each other; there is one bed, at most one whistle and one sting, and of
\* a kind of text one at a time.
NothingTwice ==
  /\ \A s \in Starting : \A r \in plan.sounds \ {s} :
       r.type = s.type =>
         /\ r.at - s.at >= SoundGap \/ s.at - r.at >= SoundGap
         /\ MomentOf(r) = MomentOf(s) =>
              \/ r.at - s.at >= ReplayGap \/ s.at - r.at >= ReplayGap
              \/ HeardInBoth(r) /\ HeardInBoth(s)
         /\ s.type \notin {"ambience", "whistle", "sting"}
  /\ \A t, u \in ShownTexts : t.text.kind = u.text.kind => t = u

\* "The real crowd eruption starts ~80 ms AFTER the ball crosses the line (50-130 ms
\* tuning window)" (audio/compile.ts:13-14).  In the scene of the crossbar the net is a
\* number of its own, 7.4 s (compile.ts:169-172), and not the beat at which the ball is
\* in it, so that the roar of that scene comes up to a fifth of a second after the line.
RoarFrom == Thirds(50)
RoarUntil(scene) == Thirds(IF scene = "crossbar" THEN 200 ELSE 130)

\* The crowd roars for a goal that is seen: when the sound starts, the ball in the picture
\* has been over the line for as long as a crowd needs, to half a frame, the rounding to
\* a frame of the scene; and the supporters in the picture celebrate the scorers.
RoarIsEarned ==
  \A s \in Starting : s.type = "goal" =>
    LET since == ShownAt(picture) + (s.at - Now) - LineTime(picture.scene, video.style)
        rounding == FrameTime(video.fps) \div 2
    IN  /\ RoarFrom - rounding <= since /\ since <= RoarUntil(picture.scene) + rounding
        /\ Cheered(picture.scene, picture.at) = "scorers"

\* Before the ball is in, two crowds celebrate: that of the crossbar rises to a shot which
\* hits the bar, the "false-dawn eruption" of crossbar-chaos.ts:456-457, and that of the
\* cross erupts at the header (cross-header-goal.ts:505), not "when the header hits the
\* net" (496-499).
CheersEarly(scene, t) ==
  \/ scene = "cross" /\ t >= Thirds(CrossBeats.contact)
  \/ scene = "crossbar" /\ Thirds(CrossbarBeats.barHit) <= t /\ t < Thirds(4850)

\* But for these, nobody celebrates the scorers before the ball is over the line.
CheerIsEarned ==
  Cheered(picture.scene, picture.at) = "scorers" =>
    \/ ShownAt(picture) + Tolerance >= LineTime(picture.scene, video.style)
    \/ CheersEarly(picture.scene, picture.at)

\* The scorer of the cross is named at 6.15 s (overlays/presets.ts:129), a number of its
\* own: up to a fifth of a second before the ball is over the line.
NamedEarly(scene) == IF scene = "cross" THEN Thirds(200) ELSE Tolerance

\* A card is shown over its own match-up, the scorer is named when the ball is over the
\* line, and the brand is shown when no goal is to come.
TextsFit ==
  \A t \in ShownTexts :
    /\ t.text.kind = "versus" => plan.excerpts[picture.cut].matchup = t.matchup
    /\ t.text.kind = "goal" =>
         ShownAt(picture) + NamedEarly(picture.scene)
           >= LineTime(picture.scene, video.style)
    /\ t.text.kind = "brand" => \A s \in plan.sounds : s.type = "goal" => s.at <= Now

\* What is heard and written is what the picture shows.
SaidAsSeen == video # NoVideo => RoarIsEarned /\ CheerIsEarned /\ TextsFit
=============================================================================
