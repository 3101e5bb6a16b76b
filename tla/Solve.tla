-------------------------------- MODULE Solve --------------------------------
(***************************************************************************)
(* The timeline solver (crates/core/src/compiler/solve.rs): one pass over  *)
(* the resolved film that turns durations into frames and places shot      *)
(* after shot.  A shot without a trustworthy duration loses the cursor:    *)
(* later shots get no invented interval, but their faults are still        *)
(* collected, and a film with any diagnostic has no timeline.              *)
(*                                                                         *)
(* An authored duration is the number of frames its conversion yields, a   *)
(* video has the frames of its treatment; more than MaxFrame frames stand  *)
(* for a conversion that overflows the frame domain.  Spans, reasons and   *)
(* texts are left out; an asset whose preparation fails names the          *)
(* diagnostic it fails with as its source.  An optional value is a set of  *)
(* at most one element.                                                    *)
(***************************************************************************)
EXTENDS FrameIntervals, MediaTime, FiniteSets, SequencesExt

CONSTANTS
  MaxFrame,        \* the last frame index of the frame domain
  MaxScenes,       \* bound on the scenes of a film
  MaxShots,        \* bound on the shots of a film
  AuthoredShots,   \* the shots a scene may hold
  CueTimes,        \* the times the film's cue may have
  MusicTracks      \* the music a film may have: sequences of audio elements

ASSUME SolveAssumption == MaxFrame \in Nat /\ MaxScenes \in Nat /\ MaxShots \in Nat

\* What the resolver hands to the solver: counts of frames, sources and rates,
\* optional durations, and a transition that lasts (Duration::parse_positive).
IsTreatment(t) ==
  /\ {t.frames, t.start, t.end, t.hold} \subseteq Nat
  /\ {t.plays, t.rate.num, t.rate.den, t.speed.num, t.speed.den} \subseteq Nat \ {0}

IsMedia(media) ==
  /\ {media.delay, media.frames, media.fadeIn, media.fadeOut} \subseteq Nat
  /\ media.kind = "video" => IsTreatment(media.treatment)

IsOptional(set, values) == set \subseteq values /\ \A m, n \in set : m = n

ASSUME AuthoredAssumption ==
  /\ \A a \in AuthoredShots :
       /\ a.content \in Seq(Range(a.content)) /\ a.effects \in Seq(Range(a.effects))
       /\ \A media \in Range(a.content) \cup Range(a.effects) : IsMedia(media)
       /\ \A c \in Range(a.content) : c.kind \in {"video", "voice", "overlay"}
       /\ \A e \in Range(a.effects) : e.kind = "effect"
       /\ IsOptional(a.duration, Nat) /\ IsOptional(a.cut, Nat \ {0})
  /\ \A t \in CueTimes : IsOptional(t, Nat)
  /\ \A tracks \in MusicTracks :
       tracks \in Seq(Range(tracks)) /\ \A m \in Range(tracks) : IsMedia(m) /\ m.kind = "music"

VARIABLES
  phase,         \* what the compiler does next
  cursor,        \* PlacementCursor::position
  lost,          \* PlacementCursor::Lost
  rejected,      \* rejected_shot_timing
  events,        \* the frame of the cue, if its time could be converted
  scenes,        \* the intervals of the scenes entered so far
  shots,         \* the timeline's shots, each with the index of its scene
  effects,       \* sound_effects
  diagnostics,   \* the codes reported so far
  written,       \* what the screenplay holds: shots, contents, effects, cuts
  film           \* the solved film

solveVars == <<phase, cursor, lost, rejected, events, scenes, shots, effects,
               diagnostics, written, film>>

-----------------------------------------------------------------------------
(* Preparing what an authored shot holds, before it has an interval.       *)

Converts(n) == n <= MaxFrame
Overflow == "FrameConversionOverflow"

Report(fault, code) == IF fault THEN {code} ELSE {}

\* prepare_media and prepare_video: the frames an element plays.
MediaFrames(media) ==
  IF media.kind = "video" THEN FramesForMedia(media.treatment) ELSE media.frames

\* Solver::prepare_video_source
IntervalOutsideAsset(t) == t.start >= t.end \/ t.end > NaturalDuration(t.rate, t.frames)

\* The faults of one media element: its source, its interval, its delay and
\* its end, and for audio its fades.  Music has no delay.
MediaFaults(media) ==
  IF media.source # "ok" THEN {media.source}
  ELSE IF media.kind = "video" /\ IntervalOutsideAsset(media.treatment)
  THEN {"SourceIntervalOutsideAsset"}
  ELSE Report(\E n \in {media.delay, media.delay + MediaFrames(media),
                        media.fadeIn, media.fadeOut} : ~Converts(n), Overflow)

IsPrimary(content) == content.kind # "overlay"

\* Solver::prepare_contents: what is left of a shot's content.
Usable(authored) == {c \in Range(authored.content) : IsPrimary(c) => MediaFaults(c) = {}}

PrimaryEnds(authored) == {c.delay + MediaFrames(c) : c \in {d \in Usable(authored) : IsPrimary(d)}}

Explicit(authored) == {n \in authored.duration : Converts(n)}

\* Solver::shot_duration: the longest usable primary content; the explicit
\* duration only where there is none.
ShotDuration(authored) ==
  LET ends == PrimaryEnds(authored)
  IN IF ends = {} THEN Explicit(authored) ELSE {n \in ends : \A m \in ends : m <= n}

DurationFaults(authored) ==
  LET ends == PrimaryEnds(authored)
  IN  Report(authored.duration # Explicit(authored), Overflow)
      \cup Report(ends # {} /\ Explicit(authored) # {}, "ConflictingDurationSources")
      \cup Report(authored.duration = {} /\ \A c \in Range(authored.content) : ~IsPrimary(c),
                  "MissingDurationSource")

\* What is reported of a shot whether or not it can be placed.
PrepareFaults(authored) ==
  (UNION {MediaFaults(c) : c \in {d \in Range(authored.content) : IsPrimary(d)}})
  \cup (UNION {MediaFaults(e) : e \in Range(authored.effects)})
  \cup DurationFaults(authored)
  \cup Report(\E n \in authored.cut : ~Converts(n), Overflow)

-----------------------------------------------------------------------------
(* Placing a shot.  An absent incoming transition is the empty interval at  *)
(* the shot's start.                                                        *)

\* The shot before this one, in the same scene.
Previous == {s \in Range(shots) : s = Last(shots) /\ s.scene = Len(scenes)}

(* Mutant: a transition may begin inside the one before it.                 *)
CutFitsShots(n, duration) == \E p \in Previous : n <= Span(p.at) /\ n <= duration

CutFits(n, duration) ==
  \E p \in Previous : n <= Span(p.at) /\ n <= duration /\ cursor - n >= p.cut.end

\* The elements among these that are lowered, each to what is left of it.
Lowered(elements, lower) ==
  FlattenSeq([i \in DOMAIN elements |->
                IF elements[i] \in DOMAIN lower THEN SetToSeq(lower[elements[i]]) ELSE <<>>])

\* Solver::place_transition: a transition that does not fit is reported, and
\* the shot starts where it would without one.
Start(authored, duration) ==
  LET fitting == {n \in authored.cut : Converts(n) /\ CutFits(n, duration)}
  IN IF fitting = {} THEN cursor ELSE cursor - CHOOSE n \in fitting : TRUE

(* Mutant: a transition that does not fit is left out without a word.       *)
CutFaultsSilent(authored, duration) == {}

CutFaults(authored, duration) ==
  Report(\E n \in authored.cut : Converts(n) /\ ~CutFits(n, duration), "TransitionOutsideShots")

FadesFit(media, at) == media.fadeIn + media.fadeOut <= Span(at)

\* What an element becomes at one of no or one interval.
Placed(element, intervals) ==
  {[kind |-> element.kind, at |-> at, asset |-> element.asset, treatment |-> element.treatment,
    gain |-> element.gain, fadeIn |-> element.fadeIn, fadeOut |-> element.fadeOut] :
     at \in intervals}

MediaInterval(media, shot) ==
  Interval(shot.start + media.delay, shot.start + media.delay + MediaFrames(media))

\* Solver::overlay_start: the frame of the cue, or the delay after the start
\* of the shot.  A cue without a frame was reported with the cue.
OverlayStart(overlay, shot) ==
  IF overlay.cued THEN events
  ELSE {n \in {shot.start + overlay.delay} : Converts(overlay.delay) /\ Converts(n)}

OverlayFaults(overlay, shot) ==
  LET start == OverlayStart(overlay, shot)
  IN  Report(~overlay.cued /\ start = {}, Overflow)
      \cup Report(\E n \in start : ~Covers(shot, n), "TimingOutsideShot")

\* Solver::lower_content: what becomes of one content element of a placed shot.
ContentFaults(content, shot) ==
  CASE content.kind = "video" -> {}
    [] content.kind = "voice" ->
         Report(~FadesFit(content, MediaInterval(content, shot)), "AudioEnvelopeOutsidePlacement")
    [] content.kind = "overlay" -> OverlayFaults(content, shot)

LowerContent(content, shot) ==
  Placed(content,
         IF ContentFaults(content, shot) # {} THEN {}
         ELSE IF IsPrimary(content) THEN {MediaInterval(content, shot)}
         ELSE {Interval(n, shot.end) : n \in OverlayStart(content, shot)})

\* place_sound_effect: an effect lies in its shot, and is not empty.
EffectFaults(effect, shot) ==
  LET at == MediaInterval(effect, shot)
  IN IF ~Converts(at.end) THEN {Overflow}
     ELSE IF IsEmpty(at) \/ ~ContainsInterval(shot, at) THEN {"TimingOutsideShot"}
     ELSE Report(~FadesFit(effect, at), "AudioEnvelopeOutsidePlacement")

LowerEffect(effect, shot) ==
  Placed(effect, IF EffectFaults(effect, shot) = {} THEN {MediaInterval(effect, shot)} ELSE {})

VoiceOvers(shot) == {c.at : c \in {d \in Range(shot.content) : d.kind = "voice"}}

\* overlapping_voice_overs: two shots of one transition must not speak at once.
SpeakTogether(outgoing, incoming) ==
  \E a \in VoiceOvers(outgoing), b \in VoiceOvers(incoming) : Intersects(a, b)

-----------------------------------------------------------------------------
(* The pass over the film.                                                  *)

SolveInit ==
  /\ phase = "cues" /\ cursor = 0 /\ lost = FALSE /\ rejected = FALSE
  /\ events = {} /\ scenes = <<>> /\ shots = <<>> /\ effects = <<>> /\ diagnostics = {}
  /\ written = [cue |-> FALSE, inScene |-> 0, shots |-> 0, contents |-> 0, effects |-> 0, cuts |-> 0]
  /\ film = {}

\* Solver::solve_events
SolveEvents(times) ==
  /\ phase = "cues"
  /\ phase' = "shots"
  /\ events' = {t \in times : Converts(t)}
  /\ diagnostics' = Report(events' # times, Overflow)
  /\ written' = [written EXCEPT !.cue = times # {}]
  /\ UNCHANGED <<cursor, lost, rejected, scenes, shots, effects, film>>

\* Solver::solve_scene: a scene starts where the cursor is.
SolveScene ==
  /\ phase = "shots" /\ Len(scenes) < MaxScenes
  /\ scenes' = Append(scenes, Interval(cursor, cursor))
  /\ written' = [written EXCEPT !.inScene = 0]
  /\ UNCHANGED <<phase, cursor, lost, rejected, events, shots, effects, diagnostics, film>>

\* A shot of the current scene.  Binding has found the cues it names, and a
\* shot of the scene in front of its transition.
Authored(authored) ==
  /\ phase = "shots" /\ scenes # <<>> /\ written.shots < MaxShots
  /\ \A c \in Range(authored.content) : c.cued => written.cue
  /\ authored.cut # {} => written.inScene > 0
  /\ written' = [written EXCEPT !.inScene = @ + 1, !.shots = @ + 1,
                                !.contents = @ + Len(authored.content),
                                !.effects = @ + Len(authored.effects),
                                !.cuts = @ + Cardinality(authored.cut)]

Unprobed(authored) ==
  \E media \in Range(authored.content) \cup Range(authored.effects) : media.source = "unprobed"

\* SolveError::MissingFrozenAsset ends the pass; so does no diagnostic.
SolveFails(authored) ==
  /\ Authored(authored) /\ Unprobed(authored)
  /\ phase' = "failed"
  /\ UNCHANGED <<cursor, lost, rejected, events, scenes, shots, effects, diagnostics, film>>

\* A shot behind a lost cursor is only looked at.
SkipShot(authored) ==
  /\ Authored(authored) /\ ~Unprobed(authored) /\ lost
  /\ diagnostics' = diagnostics \cup PrepareFaults(authored)
  /\ UNCHANGED <<phase, cursor, lost, rejected, events, scenes, shots, effects, film>>

\* Solver::place_shot without a duration, or with an end outside the domain.
RejectShot(authored) ==
  /\ Authored(authored) /\ ~Unprobed(authored) /\ ~lost
  /\ lost' = TRUE /\ rejected' = TRUE
  /\ LET duration == ShotDuration(authored) IN
       \/ /\ duration = {}
          /\ diagnostics' = diagnostics \cup PrepareFaults(authored)
          /\ UNCHANGED cursor
       \/ \E d \in duration :
            /\ ~Converts(Start(authored, d) + d)
            /\ diagnostics' = diagnostics \cup PrepareFaults(authored)
                                \cup CutFaults(authored, d) \cup {Overflow}
            /\ cursor' = Start(authored, d)
  /\ UNCHANGED <<phase, events, scenes, shots, effects, film>>

\* Solver::solve_shot for a shot that is placed.
PlaceShot(authored) ==
  /\ Authored(authored) /\ ~Unprobed(authored) /\ ~lost
  /\ \E d \in ShotDuration(authored) :
       LET start == Start(authored, d)
           at == Interval(start, start + d)
           shot == [scene |-> Len(scenes), at |-> at,
                    cut |-> Interval(start, cursor),
                    content |-> Lowered(authored.content,
                                        [c \in Usable(authored) |-> LowerContent(c, at)])]
           playable == {e \in Range(authored.effects) : MediaFaults(e) = {}}
       IN
       /\ Converts(at.end)
       /\ cursor' = at.end
       /\ shots' = Append(shots, shot)
       /\ scenes' = [scenes EXCEPT ![Len(scenes)].end = at.end]
       /\ effects' = effects \o Lowered(authored.effects, [e \in playable |-> LowerEffect(e, at)])
       /\ diagnostics' =
            diagnostics \cup PrepareFaults(authored) \cup CutFaults(authored, d)
            \cup (UNION {ContentFaults(c, at) : c \in Usable(authored)})
            \cup (UNION {EffectFaults(e, at) : e \in playable})
            \cup Report(~IsEmpty(shot.cut) /\ \E p \in Previous : SpeakTogether(p, shot),
                        "TransitionVoiceOverOverlap")
  /\ UNCHANGED <<phase, lost, rejected, events, film>>

-----------------------------------------------------------------------------
(* The end of the film: music, ducking and the timeline.                    *)

\* place_music: from the first frame to the end of the film at most.
MusicInterval(music, end) == Interval(0, IF music.frames > end THEN end ELSE music.frames)

MusicFaults(music, end) ==
  IF MediaFaults(music) # {} THEN MediaFaults(music)
  ELSE Report(~FadesFit(music, MusicInterval(music, end)), "AudioEnvelopeOutsidePlacement")

\* voice_over_intervals
VoiceIntervals ==
  FlattenSeq([i \in DOMAIN shots |->
    Lowered(shots[i].content, [c \in {d \in Range(shots[i].content) : d.kind = "voice"} |-> {c.at}])])

\* lower_ducking: music that ducks gives way to every voice-over it meets.
LowerMusic(music, end) ==
  LET at == MusicInterval(music, end)
      voices == IF music.target # {} THEN VoiceIntervals ELSE <<>>
      ducked == Lowered(voices, [v \in Range(voices) |-> Intersection(at, v)])
  IN {[kind |-> music.kind, at |-> at, asset |-> music.asset, gain |-> music.gain,
       fadeIn |-> music.fadeIn, fadeOut |-> music.fadeOut, target |-> music.target,
       ducked |-> ducked]}

\* Solver::solve from its last scene on.
Finish(tracks) ==
  /\ phase = "shots"
  /\ ~ \E m \in Range(tracks) : m.source = "unprobed"
  /\ LET faults == diagnostics
                   \cup Report(cursor = 0 /\ ~rejected, "EmptyFilm")
                   \cup (UNION {MusicFaults(m, cursor) : m \in Range(tracks)})
     IN /\ diagnostics' = faults
        /\ phase' = IF faults = {} THEN "solved" ELSE "rejected"
        /\ film' = IF faults # {} THEN {} ELSE
             {[end |-> cursor, scenes |-> scenes, shots |-> shots, captions |-> {},
               music |-> Lowered(tracks, [m \in Range(tracks) |-> LowerMusic(m, cursor)]),
               effects |-> effects]}
  /\ UNCHANGED <<cursor, lost, rejected, events, scenes, shots, effects, written>>

SolveNext ==
  \/ \E t \in CueTimes : SolveEvents(t)
  \/ SolveScene
  \/ \E a \in AuthoredShots : SolveFails(a) \/ SkipShot(a) \/ RejectShot(a) \/ PlaceShot(a)
  \/ \E tracks \in MusicTracks : Finish(tracks)
=============================================================================
