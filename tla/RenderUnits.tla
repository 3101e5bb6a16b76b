----------------------------- MODULE RenderUnits -----------------------------
(***************************************************************************)
(* Render units (crates/render/src/unit.rs), the visual path each of them  *)
(* takes (crates/render/src/visual.rs) and what the executor makes of a    *)
(* sequence of them (crates/render/src/executor/).                         *)
(*                                                                         *)
(* A presentation declares a visual capability: its browser draws all      *)
(* pixels, or FFmpeg draws the videos under ("SeparableOverlay") or above  *)
(* ("SeparableBackdrop") the browser's.  It also declares whether its      *)
(* frames may change anywhere or only at placement boundaries.             *)
(***************************************************************************)
EXTENDS BackdropLayout

CONSTANTS
  MaxAudioTracks,     \* MAX_AUDIO_TRACKS
  MaxDuckingWindows,  \* MAX_AUDIO_DUCKING_WINDOWS
  NativeAssets        \* assets with the codec and colour of the native path

ASSUME UnitAssumption ==
  /\ MaxAudioTracks \in Nat /\ MaxDuckingWindows \in Nat
  /\ NativeAssets \subseteq DOMAIN Rasters

Capabilities == {"BrowserComposite", "SeparableBackdrop", "SeparableOverlay"}
Behaviors == {"EveryFrame", "PlacementBounded"}

-----------------------------------------------------------------------------
(* The visual path of one unit.                                             *)

PublishesVideo(plan) == \E v \in plan.videos : Intersects(v.at, plan.output)

\* capture_cadence
Cadence(behavior, mode, plan) ==
  IF behavior = "PlacementBounded" /\ ~(mode = "BrowserComposite" /\ plan.videos # {})
  THEN "PlacementBounded" ELSE "EveryFrame"

Execution(behavior, mode, media, plan) ==
  [mode |-> mode, media |-> media, cadence |-> Cadence(behavior, mode, plan)]

\* supports_native_video and native_media_schedule
DrawsNatively(v) == v.asset \in NativeAssets /\ SchedulesNatively(v.treatment, Span(v.at))

\* validate_layered_placement: one video, of the size of the film, that covers
\* all frames published.
LayeredFits(plan) ==
  \E v \in plan.videos : /\ plan.videos = {v}
                         /\ ContainsInterval(v.at, plan.output)
                         /\ SchedulesNatively(v.treatment, Span(v.at))
                         /\ Rasters[v.asset] = Canvas

\* select_composition.  An overlay without proof falls back to the browser; a
\* backdrop that publishes no video needs none.
Select(capability, behavior, plan, videoAssets) ==
  CASE capability = "SeparableBackdrop" /\ PublishesVideo(plan) ->
         Execution(behavior, "SeparableBackdrop", plan.videos, plan)
    [] capability = "SeparableBackdrop" /\ ~PublishesVideo(plan) ->
         Execution(behavior, "SeparableBackdrop", {}, plan)
    [] capability = "SeparableOverlay" /\ Cardinality(videoAssets) = 1 /\ LayeredFits(plan)
         /\ \A v \in plan.videos : DrawsNatively(v) ->
         Execution(behavior, "SeparableOverlay", plan.videos, plan)
    [] OTHER -> Execution(behavior, "BrowserComposite", {}, plan)

\* select_backdrop_media_plan
SelectFaults(execution) ==
  Fails(/\ execution.mode = "SeparableBackdrop"
        /\ \/ Cardinality(execution.media) > MaxMediaLayouts
           \/ \E v \in execution.media : ~DrawsNatively(v),
        "UnsupportedVisualComposition")

\* VisualExecutionPlan::validate, after a worker request was transported.
Accepts(capability, behavior, unit) ==
  LET execution == unit.execution IN
  /\ CASE execution.mode = "BrowserComposite" -> capability \in {"BrowserComposite", "SeparableOverlay"}
       [] execution.mode = "SeparableOverlay" -> capability = "SeparableOverlay" /\ LayeredFits(unit.plan)
       [] execution.mode = "SeparableBackdrop" ->
            /\ capability = "SeparableBackdrop"
            /\ \/ execution.media = {} /\ ~PublishesVideo(unit.plan)
               \/ /\ execution.media # {} /\ execution.media = unit.plan.videos
                  /\ \A v \in execution.media : SchedulesNatively(v.treatment, Span(v.at))
  /\ execution.cadence = Cadence(behavior, execution.mode, unit.plan)

UsesNativeMedia(unit) == unit.execution.media # {}

-----------------------------------------------------------------------------
(* Units.                                                                   *)

\* render_videos: the videos of the selected shots.
VideoAssets(film, selected) ==
  {v.asset : v \in {w \in Contents(film, "video") : w.shot \in selected}}

\* audio_plan: a unit owns the audio that starts in its output; a track is
\* its position in the canonical mix.
AudioPlan(film, output) == {n \in DOMAIN Audio(film) : Covers(output, Audio(film)[n].at.start)}

Windows(audio) == IF audio.kind = "music" THEN Len(audio.ducked) ELSE 0

AudioFaults(film, tracks) ==
  LET windows == FoldFunctionOnSet(LAMBDA a, b : a + b, 0,
                   [n \in DOMAIN Audio(film) |-> Windows(Audio(film)[n])], tracks)
  IN  Fails(Cardinality(tracks) > MaxAudioTracks, "AudioTrackLimit")
      \cup Fails(windows > MaxDuckingWindows, "AudioDuckingWindowLimit")
      \cup Fails(\E n \in tracks : ~ContainsInterval(Film(film), Audio(film)[n].at),
                 "AudioOutsideTimeline")

\* RenderUnit::compose_from_catalog for one partition.
Compose(film, region, capability, behavior) ==
  LET plan == Project(film, region.evaluation, region.output, {region.shots},
                      VariantFields(film, region))
  IN [plan |-> plan,
      audio |-> AudioPlan(film, region.output),
      execution |-> Select(capability, behavior, plan, VideoAssets(film, region.shots))]

\* A worker has the media its partition asks for, and no others.
UnitFaults(film, region, unit) ==
  LET sounds == {Audio(film)[n].asset : n \in unit.audio}
  IN  Fails(~(VideoAssets(film, region.shots) \cup sounds \subseteq MediaAssets(film, region)),
            "MissingAsset")
      \cup PlanFaults(film, unit.plan, {region.shots})
      \cup AudioFaults(film, unit.audio) \cup SelectFaults(unit.execution)

(* Mutant: each unit keeps the path it has chosen for itself.               *)
NormalizeNothing(units, behavior) == units

\* normalize_visual_execution: one native path for all units, or none.
Normalize(units, behavior) ==
  LET mode == units[1].execution.mode
      shared == mode # "BrowserComposite" /\ \A i \in DOMAIN units : units[i].execution.mode = mode
  IN IF units = <<>> \/ shared THEN units
     ELSE [i \in DOMAIN units |->
             [units[i] EXCEPT !.execution =
                Execution(behavior, "BrowserComposite", {}, units[i].plan)]]

(* Mutant: a single frame is always drawn by the browser.                   *)
IntoFrameByBrowser(unit, f) ==
  [unit EXCEPT !.plan = IntoOutput(unit.plan, Interval(f, f + 1)), !.audio = {},
               !.execution = Execution("EveryFrame", "BrowserComposite", {}, unit.plan)]

\* RenderUnit::into_frame: the visual path of the unit is kept.
IntoFrame(unit, f) ==
  [unit EXCEPT !.plan = IntoOutput(unit.plan, Interval(f, f + 1)), !.audio = {}]

IntoFrameFaults(unit, f) ==
  Fails(~Covers(unit.plan.output, f), "FrameOutsideOutput")
  \cup NarrowFaults(unit.plan, Interval(f, f + 1))

-----------------------------------------------------------------------------
(* The executor: checks of the sequence, audio inputs, native inputs and    *)
(* the frames the browser draws.                                            *)

\* collect_audio_inputs: the inputs of the mix, sorted by mix order.
MixFaults(units) ==
  LET inputs == FlattenSeq([i \in DOMAIN units |-> SetToSeq(units[i].audio)])
  IN  Fails(Len(inputs) > MaxAudioTracks, "PlanTooLarge")
      \cup Fails(Cardinality(Range(inputs)) # Len(inputs), "DuplicateAudioPosition")

Mix(units) == Ordered(UNION {units[i].audio : i \in DOMAIN units}, <)

\* validate_partition_units and validate_sequence
SequenceFaults(film, regions, units) ==
  LET outputs == [i \in DOMAIN units |-> units[i].plan.output]
      start(i) == IF i = 1 THEN 0 ELSE outputs[i - 1].end
  IN  Fails(\/ Len(units) # Len(regions)
            \/ \E i \in DOMAIN units : \/ units[i].plan.evaluation # regions[i].evaluation
                                       \/ outputs[i] # regions[i].output,
            "UnitsDoNotMatchPartitions")
      \cup Fails(units = <<>> \/ \E i \in DOMAIN units : outputs[i].start # start(i),
                 "OutputsNotContiguous")
      \cup Fails(units # <<>> /\ outputs[Len(outputs)].end # film.end, "OutputsDoNotCover")
      \cup Fails(\E i \in DOMAIN units : units[i].execution.mode # units[1].execution.mode,
                 "NoCommonVisualPath")

\* validate_sequence: the path of the whole sequence.
VisualPath(units) ==
  LET uses(mode) == \E i \in DOMAIN units : units[i].execution.mode = mode /\ UsesNativeMedia(units[i])
  IN IF uses("SeparableOverlay") THEN "Layered"
     ELSE IF uses("SeparableBackdrop") THEN "Backdrop" ELSE "Browser"

NativeInput(video, geometry, at, origin) ==
  [video |-> video, skip |-> at.start - video.at.start, start |-> at.start - origin,
   frames |-> Span(at), source |-> geometry.source, destination |-> geometry.destination]

\* preflight_backdrops: every unit with native media is measured first.
PreflightFaults(units) ==
  UNION {LayoutFaults(units[i].execution.media) :
           i \in {n \in DOMAIN units : units[n].execution.mode = "SeparableBackdrop"}}

\* layered_media_input and append_backdrop_inputs: each video as far as the
\* unit publishes it, on the whole canvas or where its element stands.
NativeInputs(unit, origin) ==
  LET canvas == [source |-> Raster(Canvas), destination |-> Raster(Canvas)]
      geometry(v) == IF unit.execution.mode = "SeparableOverlay" THEN canvas ELSE Placement(v)
  IN UNION {{NativeInput(v, geometry(v), at, origin) : at \in Intersection(v.at, unit.plan.output)} :
            v \in unit.execution.media}

\* layered_job and backdrop_job
NativeFaults(units) ==
  LET empty == \A i \in DOMAIN units : \A v \in units[i].execution.media :
                 Intersection(v.at, units[i].plan.output) = {}
  IN  Fails(VisualPath(units) = "Layered" /\
              \E i \in DOMAIN units : units[i].plan.videos # units[i].execution.media \/ ~LayeredFits(units[i].plan),
            "LayeredMediaMissing")
      \cup Fails(VisualPath(units) = "Backdrop" /\ empty, "NoPublishedMedia")

\* FrameCaptureSession::capture: whether the browser draws the videos itself.
BrowserDrawsVideos(unit) == ~UsesNativeMedia(unit)

\* render_frames: whether a frame is captured, or repeats the one before it.
Captured(film, unit, f) ==
  \/ unit.execution.cadence = "EveryFrame"
  \/ f = unit.plan.output.start
  \/ f \in Boundaries(film, unit.plan)

LastCaptured(film, unit, f) ==
  CHOOSE g \in Frames(unit.plan.output) :
    /\ g <= f /\ Captured(film, unit, g)
    /\ \A h \in g + 1 .. f : ~Captured(film, unit, h)
=============================================================================
