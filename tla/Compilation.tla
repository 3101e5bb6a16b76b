----------------------------- MODULE Compilation -----------------------------
(***************************************************************************)
(* From a resolved screenplay to pictures: the solver, the captions of     *)
(* crates/core/src/compiler/captions.rs, the partition, the units of one   *)
(* presentation, and their rendering, as render.rs and snapshot.rs of      *)
(* crates/cli/src call them one after the other.                           *)
(***************************************************************************)
EXTENDS Solve, AudioMix, ReviewPlan

CONSTANTS
  CaptionTracks   \* the imported captions a film may have: sets of cue intervals

ASSUME CaptionAssumption == \A cues \in CaptionTracks : cues \subseteq [start : Nat, end : Nat]

VARIABLES
  presentation,  \* the bundle's capability and frame behavior
  units,         \* the render units
  refused,       \* why the film cannot be rendered
  snapshot       \* the outcome of a snapshot, if one was asked for

vars == <<solveVars, presentation, units, refused, snapshot>>
planVars == <<presentation, units, refused, snapshot>>

Init ==
  /\ SolveInit
  /\ presentation = [capability |-> "BrowserComposite", behavior |-> "EveryFrame"]
  /\ units = <<>> /\ refused = {} /\ snapshot = {}

TheFilm == CHOOSE f \in film : TRUE

\* import_captions: each cue clipped to the film, and dropped outside of it.
Clipped(cues, end) ==
  {[at |-> i] : i \in UNION {Intersection(c, Interval(0, end)) : c \in cues}}

ImportCaptions(cues) ==
  /\ phase = "solved"
  /\ IF \E c \in cues : ~Converts(c.start) \/ ~Converts(c.end)
     THEN phase' = "failed" /\ UNCHANGED film
     ELSE phase' = "timed" /\ film' = {[TheFilm EXCEPT !.captions = Clipped(cues, TheFilm.end)]}
  /\ UNCHANGED <<cursor, lost, rejected, events, scenes, shots, effects, diagnostics, written>>
  /\ UNCHANGED planVars

\* RenderGraph::into_partition and RenderUnit::from_partitioned_bundles.
Plan(capability, behavior) ==
  /\ phase = "timed"
  /\ phase' = "planned"
  /\ LET regions  == Regions(TheFilm)
         composed == [i \in DOMAIN regions |-> Compose(TheFilm, regions[i], capability, behavior)]
     IN /\ units' = Normalize(composed, behavior)
        /\ refused' = GraphFaults(TheFilm)
             \cup UNION {UnitFaults(TheFilm, regions[i], composed[i]) : i \in DOMAIN regions}
  /\ presentation' = [capability |-> capability, behavior |-> behavior]
  /\ UNCHANGED <<cursor, lost, rejected, events, scenes, shots, effects, diagnostics, written,
                 film, snapshot>>

-----------------------------------------------------------------------------
(* Pictures.  The page shows what its plan makes visible; a video shows a   *)
(* source frame, which the page and FFmpeg choose in ways of their own.     *)

Shown(film_, plan, f, browserVideos) ==
  LET visible == Visible(film_, plan, f)
  IN [page |-> [visible EXCEPT !.videos = {}],
      videos |-> IF browserVideos THEN {[video |-> v, frame |-> BrowserFrame(v.treatment, f - v.at.start)] : v \in visible.videos}
                 ELSE {}]

\* What FFmpeg draws at frame f of a sequence that starts at origin.
Native(inputs, f, origin) ==
  {[video |-> i.video, frame |-> NativeFrame(i.video.treatment, i.skip + (f - origin - i.start)),
    source |-> i.source, destination |-> i.destination] :
     i \in {n \in inputs : n.start <= f - origin /\ f - origin < n.start + n.frames}}

\* Frame f of a sequence of units: the browser's last capture, and the native
\* inputs at f.
Picture(film_, sequence, f) ==
  LET i == CHOOSE n \in DOMAIN sequence : Covers(sequence[n].plan.output, f)
      origin == sequence[1].plan.output.start
      inputs == UNION {NativeInputs(sequence[n], origin) : n \in DOMAIN sequence}
      browser == Shown(film_, sequence[i].plan, LastCaptured(film_, sequence[i], f),
                       BrowserDrawsVideos(sequence[i]))
  IN [page |-> browser.page, browser |-> browser.videos, native |-> Native(inputs, f, origin)]

\* Frame f of the film, as its whole-film plan shows it.
FilmShows(film_, f) ==
  Shown(film_, Project(film_, Film(film_), Film(film_), {}, VariantScopes(film_)), f, TRUE)

\* snapshot::run: the unit that publishes the frame, narrowed to it and
\* captured like any unit.
Snapshot(f) ==
  /\ phase = "planned" /\ refused = {} /\ snapshot = {}
  /\ f < TheFilm.end
  /\ LET i == CHOOSE n \in DOMAIN units : Covers(units[n].plan.output, f)
         unit == IntoFrame(units[i], f)
         faults == IntoFrameFaults(units[i], f) \cup NativeFaults(<<unit>>)
                    \cup PreflightFaults(<<unit>>)
     IN snapshot' = {[frame |-> f, faults |-> faults,
                      picture |-> IF faults = {} THEN {Picture(TheFilm, <<unit>>, f)} ELSE {}]}
  /\ UNCHANGED <<solveVars, presentation, units, refused>>

Next ==
  \/ SolveNext /\ UNCHANGED planVars
  \/ \E cues \in CaptionTracks : ImportCaptions(cues)
  \/ \E c \in Capabilities, b \in Behaviors : Plan(c, b)
  \/ \E f \in 0 .. MaxFrame : Snapshot(f)

Spec == Init /\ [][Next]_vars
-----------------------------------------------------------------------------
(* Type correctness: what has been placed lies in the frame domain, and the *)
(* later phases have what they work on.                                     *)
CompilationTypeOK ==
  /\ phase \in {"cues", "shots", "solved", "rejected", "failed", "timed", "planned"}
  /\ cursor \in 0 .. MaxFrame /\ lost \in BOOLEAN /\ rejected \in BOOLEAN
  /\ events \subseteq 0 .. MaxFrame
  /\ scenes \in Seq(Intervals(0 .. MaxFrame))
  /\ \A i \in DOMAIN shots :
       /\ {shots[i].at, shots[i].cut} \subseteq Intervals(0 .. MaxFrame)
       /\ shots[i].scene \in DOMAIN scenes
       /\ \A c \in Range(shots[i].content) : c.at \in Intervals(0 .. MaxFrame)
  /\ \A e \in Range(effects) : e.at \in Intervals(0 .. MaxFrame)
  /\ Cardinality(film) = IF phase \in {"solved", "timed", "planned"} THEN 1 ELSE
                           IF phase = "failed" THEN Cardinality(film) ELSE 0
  /\ phase = "rejected" => diagnostics # {}

(* The shots placed so far fill the frames up to the cursor; shots meet only *)
(* in the transition between two neighbours of one scene, so that never more *)
(* than two play at once; and in a film that has a timeline no two shots     *)
(* speak at the same time (Solver::place_transition and                      *)
(* report_transition_voice_over_overlap look at the preceding shot only).    *)
TimelineIsSound ==
  /\ \A f \in 0 .. cursor - 1 : \E i \in DOMAIN shots : Covers(shots[i].at, f)
  /\ \A i, j \in DOMAIN shots :
       i < j /\ Intersects(shots[i].at, shots[j].at) =>
         j = i + 1 /\ shots[i].scene = shots[j].scene
  /\ \A f \in film : \A i, j \in DOMAIN f.shots :
       i # j => ~SpeakTogether(f.shots[i], f.shots[j])

(* Every path on which the solver leaves something of the screenplay out has *)
(* reported it: a film with a timeline holds all shots, contents, effects    *)
(* and transitions that were written.                                        *)
NothingIsDropped ==
  \A f \in film :
    /\ Len(f.shots) = written.shots
    /\ Cardinality(UNION {Contents(f, kind) : kind \in {"video", "voice", "overlay"}})
         = written.contents
    /\ Len(f.effects) = written.effects
    /\ Cardinality({i \in ShotIndexes(f) : HasCut(f, i)}) = written.cuts

(* The outputs of the regions tile the film in order, and a region selects   *)
(* exactly the shots that play at each of its frames and evaluates them from *)
(* their first frame to their last (render_graph.rs::scene_regions).         *)
PartitionIsExact ==
  phase = "timed" =>
    LET regions == Regions(TheFilm)
        last(n) == IF n = 0 THEN 0 ELSE regions[n].output.end
    IN /\ \A n \in DOMAIN regions :
            LET r == regions[n] IN
            /\ r.output.start = last(n - 1) /\ ~IsEmpty(r.output)
            /\ \A f \in Frames(r.output) :
                 r.shots = {i \in ShotIndexes(TheFilm) : Covers(TheFilm.shots[i].at, f)}
            /\ \A i \in r.shots : ContainsInterval(r.evaluation, TheFilm.shots[i].at)
       /\ last(Len(regions)) = TheFilm.end

Renders == /\ phase = "planned" /\ refused = {}
           /\ NativeFaults(units) = {} /\ PreflightFaults(units) = {}

\* Frame f in the artifact of unit n (ArtifactCache::capture).
CapturedAlone(n, f) ==
  IF NativeFaults(<<units[n]>>) # {} \/ ~Covers(units[n].plan.output, f) THEN {}
  ELSE {Picture(TheFilm, <<units[n]>>, f)}

\* CSS, of one axis: a picture of n pixels, scaled by k.num / k.den, stands at
\* `position` in an element of `width` pixels at x.  Its pixels from u on, `length`
\* of them, fill the destination exactly, and all that shows of it is drawn.
StandsOn(x, width, n, k, position, u, length, at, size) ==
  LET left == x * k.den * PositionScale + (width * k.den - n * k.num) * position
      image(p) == left + p * k.num * PositionScale
      edge(p) == p * k.den * PositionScale
  IN /\ edge(at) = image(u) /\ edge(at + size) = image(u + length)
     /\ edge(at) = Max({edge(x), image(0)})
     /\ edge(at + size) = Min({edge(x + width), image(n)})

\* object-fit: both axes are scaled alike, to the smaller or the larger of the
\* two scales that fit, unless the picture is distorted.
StandsAsTheBrowserDraws(drawn) ==
  LET box == Box(drawn.video)
      raster == Rasters[drawn.video.asset]
      sx == [num |-> box.width, den |-> raster.width]
      sy == [num |-> box.height, den |-> raster.height]
      less == sx.num * sy.den < sy.num * sx.den
      one == IF (box.fit = "contain") <=> less THEN sx ELSE sy
      scale(own) == IF box.fit = "fill" THEN own ELSE one
  IN /\ StandsOn(box.x, box.width, raster.width, scale(sx), box.px, drawn.source.x,
                 drawn.source.width, drawn.destination.x, drawn.destination.width)
     /\ StandsOn(box.y, box.height, raster.height, scale(sy), box.py, drawn.source.y,
                 drawn.source.height, drawn.destination.y, drawn.destination.height)

(* At every frame the film shows what the plan of the whole film would show: *)
(* the page of the unit that publishes it, also where the executor repeats   *)
(* an earlier capture (render_frames), and each visible video at the same    *)
(* source frame, drawn by the browser or by FFmpeg and never by both,        *)
(* whatever path the units agreed on (normalize_visual_execution,            *)
(* append_backdrop_inputs, source_selection_filter).  Over a backdrop FFmpeg *)
(* draws the part of the video that CSS shows, where CSS shows it, and no    *)
(* video over another (resolve_backdrop_layout).  A unit that is captured    *)
(* alone, by a worker or for the store, shows the same as in the sequence.   *)
(* A snapshot leaves film and units as they are.                             *)
PicturesShowTheFilm ==
  Renders /\ snapshot = {} => \A f \in 0 .. TheFilm.end - 1 :
    LET picture == Picture(TheFilm, units, f)
        native  == {[video |-> n.video, frame |-> n.frame] : n \in picture.native}
        shown   == FilmShows(TheFilm, f)
    IN /\ picture.page = shown.page
       /\ picture.browser \cup native = shown.videos
       /\ picture.browser \cap native = {}
       /\ \A n \in DOMAIN units : Covers(units[n].plan.output, f) => CapturedAlone(n, f) = {picture}
       /\ VisualPath(units) = "Backdrop" =>
            /\ \A n \in picture.native : StandsAsTheBrowserDraws(n)
            /\ \A n, m \in picture.native :
                 n # m => ~RegionsOverlap(n.destination, m.destination)

\* Of the music m of a mix, in samples of the mix: it is at its target under
\* the whole frames of every voice-over, at its base wherever none is near,
\* and its ramps meet.
GivesWay(music, track) ==
  LET attack == SamplesFor(DuckingAttack)
      release == SamplesFor(DuckingRelease)
      voices == {v \in Range(Audio(TheFilm)) : v.kind = "voice" /\ Intersects(v.at, music.at)}
      heard(v, s) == SamplesFor(v.at.start) <= s /\ s < SamplesFor(Min({v.at.end, music.at.end}))
      near(v, s) == SamplesFor(v.at.start) <= s + attack
                      /\ s < SamplesFor(Min({v.at.end, music.at.end})) + release
      segments == track.segments
  IN /\ \A s \in 0 .. OutputSamples(TheFilm) - 1 : Sounds(track, s) =>
          /\ Cardinality(PhaseAt(track, s)) = 1
          /\ (\E v \in voices : heard(v, s)) => PhaseAt(track, s) = {"Target"}
          /\ PhaseAt(track, s) = {"Base"} <=> \A v \in voices : ~near(v, s)
     /\ \A n \in 1 .. Len(segments) - 1 :
          EndsDucked(segments[n].phase) <=> StartsDucked(segments[n + 1].phase)

(* Every nonempty placement of the timeline enters the mix once and in the   *)
(* canonical order, whichever unit owns it (audio_plan, collect_audio_inputs);*)
(* it sounds within the film, between fades that do not overlap; and music   *)
(* that ducks is at its target under all of every voice-over and nowhere     *)
(* else leaves its base but on ramps without a step (merge_windows).         *)
AudioIsMixedOnce ==
  Renders /\ snapshot = {} =>
    /\ Mix(units) = [n \in DOMAIN Audio(TheFilm) |-> n]
    /\ MixFaults(units) \subseteq {"PlanTooLarge"}
    /\ \A n \in DOMAIN Audio(TheFilm) :
         LET audio == Audio(TheFilm)[n]
             track == Track(audio, units[1].plan.output.start)
         IN /\ track.delay < OutputSamples(TheFilm)
            /\ track.envelope.inSamples <= track.envelope.outStart /\ track.envelope.outSamples >= 0
            /\ audio.kind = "music" /\ audio.gain # 0 /\ audio.target \notin {{}, {audio.gain}}
                 /\ audio.ducked # <<>> => GivesWay(audio, track)

\* Two of the videos would be drawn over each other.
VideosMeet(videos) ==
  \E v, w \in videos : v # w /\ RegionsOverlap(Placement(v).destination, Placement(w).destination)

(* What the solver accepts can be rendered: the only reasons to refuse are   *)
(* the audio limits and media the declared native path cannot draw, or       *)
(* cannot draw at whole pixels, or would draw over each other at some frame  *)
(* (placements_overlap); the units pass the executor's checks, every worker  *)
(* accepts its request, and the page its plan; and the foreground of a plan  *)
(* satisfies both contracts like the plan it is taken from (plan.rs:2231).   *)
AcceptedFilmsRender ==
  phase = "planned" =>
    /\ refused \subseteq {"AudioTrackLimit", "AudioDuckingWindowLimit", "UnsupportedVisualComposition"}
    /\ refused = {} =>
         /\ SequenceFaults(TheFilm, Regions(TheFilm), units) = {}
         /\ NativeFaults(units) = {}
         /\ PreflightFaults(units) \subseteq {"FractionalBackdropLayout", "BackdropLayoutOverlap"}
         /\ "BackdropLayoutOverlap" \in PreflightFaults(units) =>
              \E f \in 0 .. TheFilm.end - 1 : VideosMeet({v.video : v \in FilmShows(TheFilm, f).videos})
         /\ \A n \in DOMAIN units : Accepts(presentation.capability, presentation.behavior, units[n])
         /\ snapshot = {} => \A n \in DOMAIN units :
              LET wire == Wire(TheFilm, units[n].plan) IN
              /\ CheckedFaults(ForegroundOnly(wire)) = {}
              /\ PageAccepts(wire) /\ PageAccepts(ForegroundOnly(wire))

\* What read_checkpoints takes from the artifact of the checkpoint's region.
Evidence(checkpoint) ==
  CapturedAlone(checkpoint.region,
                units[checkpoint.region].plan.output.start + checkpoint.position)

\* Whether a picture shows a shot, a transition, or an element with `at`.
ShowsElement(picture, kind, element) ==
  CASE kind = "video" -> \E d \in picture.browser \cup picture.native : d.video = element
    [] kind = "shot" -> element \in picture.page.shots
    [] kind = "transition" -> element \in picture.page.transitions
    [] kind = "overlay" -> element \in picture.page.overlays
    [] kind = "caption" -> element \in picture.page.captions

(* A snapshot and each checkpoint of a review show the frame as a render of  *)
(* the film shows it; and the review has seen every element that the         *)
(* timeline shows at all, when it comes and when it goes (finish_checkpoint, *)
(* read_checkpoints).                                                        *)
FeedbackIsTheRenderedFrame ==
  /\ \A s \in snapshot : \A p \in s.picture : p = Picture(TheFilm, units, s.frame)
  /\ Renders /\ snapshot = {} =>
       LET regions == Regions(TheFilm)
           checkpoints == Checkpoints(TheFilm, regions)
           seen(kind, element, at) == \A f \in Edges(at) : \E c \in checkpoints :
             c.frame = f /\ \A p \in Evidence(c) : ShowsElement(p, kind, element)
       IN /\ ReviewFaults(TheFilm, regions) \subseteq {"TooManyCheckpoints"}
          /\ ReviewFaults(TheFilm, regions) = {} =>
               /\ \A c \in checkpoints : Evidence(c) = {Picture(TheFilm, units, c.frame)}
               /\ \A i \in ShotIndexes(TheFilm) : /\ seen("shot", i, TheFilm.shots[i].at)
                                                  /\ seen("transition", i, TheFilm.shots[i].cut)
               /\ \A kind \in {"video", "overlay"} : \A e \in Contents(TheFilm, kind) :
                    seen(kind, e, e.at)
               /\ \A e \in TheFilm.captions : seen("caption", e, e.at)

(* Every frame of a film that renders has a snapshot: README.md says that it *)
(* uses the same render region and browser/native path.                      *)
EveryFrameHasASnapshot == Renders => \A s \in snapshot : s.faults = {}

(* A video shows frames of its source, its final one while it is held: the   *)
(* language specification derives the frames from the selected interval,     *)
(* whose end is the probed source end.                                       *)
DrawnFramesExist ==
  Renders => \A f \in 0 .. TheFilm.end - 1 :
    \A v \in FilmShows(TheFilm, f).videos : v.frame < v.video.treatment.frames
=============================================================================
