----------------------------- MODULE RenderGraph -----------------------------
(***************************************************************************)
(* The solved film as its consumers see it (crates/core/src/timeline.rs)   *)
(* and its partition into independently renderable regions                 *)
(* (crates/core/src/render_graph.rs).                                      *)
(*                                                                         *)
(* A film is the record Solve leaves: its end, its scenes, its shots with  *)
(* their contents, music, effects and captions.  Shots and contents are    *)
(* named by their position, a field of the variant schema by its scope.    *)
(***************************************************************************)
EXTENDS FrameIntervals, SequencesExt, FiniteSets

\* The members of a finite set, in a strict total order of them.
Ordered(S, before(_, _)) ==
  [n \in 1 .. Cardinality(S) |-> CHOOSE x \in S : Cardinality({y \in S : before(y, x)}) = n - 1]

ShotIndexes(film) == DOMAIN film.shots

\* The contents of one kind, with the shot and the place they stand at.
Contents(film, kind) ==
  UNION {{[shot |-> i, place |-> k, at |-> film.shots[i].content[k].at,
           asset |-> film.shots[i].content[k].asset,
           treatment |-> film.shots[i].content[k].treatment] :
             k \in {j \in DOMAIN film.shots[i].content : film.shots[i].content[j].kind = kind}} :
         i \in ShotIndexes(film)}

HasCut(film, i) == ~IsEmpty(film.shots[i].cut)

\* Whether shot i ends in a transition into the next one of its scene.
CutAfter(film, i) == i + 1 \in ShotIndexes(film) /\ HasCut(film, i + 1)

\* The voice-overs of a shot.
Voices(content) ==
  FlattenSeq([k \in DOMAIN content |-> IF content[k].kind = "voice" THEN <<content[k]>> ELSE <<>>])

\* TimelineIr::audio: voice-overs in screenplay order, then music, then
\* effects; empty placements are no inputs.
Audio(film) ==
  LET all == FlattenSeq([i \in ShotIndexes(film) |-> Voices(film.shots[i].content)])
               \o film.music \o film.effects
  IN FlattenSeq([n \in DOMAIN all |-> IF IsEmpty(all[n].at) THEN <<>> ELSE <<all[n]>>])

-----------------------------------------------------------------------------
(* Variant fields, one for each scope a binding can resolve to.             *)

\* VariantScopeIndex of compiler/solve.rs
FilmScope == [kind |-> "film", first |-> 0, count |-> 0]
SceneScope(film, k) ==
  [kind |-> "scene",
   first |-> 1 + Cardinality({i \in ShotIndexes(film) : film.shots[i].scene < k}),
   count |-> Cardinality({i \in ShotIndexes(film) : film.shots[i].scene = k})]
ShotScope(i) == [kind |-> "shot", first |-> i, count |-> 1]
TransitionScope(i) == [kind |-> "transition", first |-> i - 1, count |-> 2]

VariantScopes(film) ==
  {FilmScope} \cup {SceneScope(film, k) : k \in DOMAIN film.scenes}
  \cup {ShotScope(i) : i \in ShotIndexes(film)}
  \cup {TransitionScope(i) : i \in {j \in ShotIndexes(film) : HasCut(film, j)}}

ScopeShots(scope) == scope.first .. (scope.first + scope.count - 1)

\* TimelineVariantScope::affects
Affects(scope, selected) ==
  CASE scope.kind = "film" -> TRUE
    [] scope.kind = "scene" -> selected \cap ScopeShots(scope) # {}
    [] OTHER -> ScopeShots(scope) \subseteq selected

-----------------------------------------------------------------------------
(* Regions.                                                                 *)

Region(evaluation, output, selected) ==
  [evaluation |-> evaluation, output |-> output, shots |-> selected]

(* Mutant: a shot keeps the frames of the transition it ends in.            *)
ExclusiveToEnd(film, i) == Interval(film.shots[i].cut.end, film.shots[i].at.end)

\* exclusive_output: a shot without its transitions.
ExclusiveOutput(film, i) ==
  Interval(film.shots[i].cut.end,
           IF CutAfter(film, i) THEN film.shots[i + 1].cut.start ELSE film.shots[i].at.end)

ShotRegion(film, i) ==
  LET output == ExclusiveOutput(film, i)
  IN IF IsEmpty(output) THEN <<>> ELSE <<Region(film.shots[i].at, output, {i})>>

\* RenderRegion::from_transition: both shots are evaluated as a whole.
TransitionRegion(film, i) ==
  IF ~CutAfter(film, i) THEN <<>>
  ELSE LET incoming == film.shots[i + 1]
       IN <<Region(Interval(film.shots[i].at.start, incoming.at.end), incoming.cut, {i, i + 1})>>

\* random_access_regions
Regions(film) ==
  FlattenSeq([i \in ShotIndexes(film) |-> ShotRegion(film, i) \o TransitionRegion(film, i)])

\* assign_audio_assets: every placement starts in some region's output.
GraphFaults(film) ==
  IF \E a \in Range(Audio(film)) : \A r \in Range(Regions(film)) : ~Covers(r.output, a.at.start)
  THEN {"InvalidRenderGraph"} ELSE {}

\* The frozen media a region depends on.
MediaAssets(film, region) ==
  {v.asset : v \in {w \in Contents(film, "video") : w.shot \in region.shots}}
  \cup {a.asset : a \in {b \in Range(Audio(film)) : Covers(region.output, b.at.start)}}

\* assign_variant_fields
VariantFields(film, region) == {s \in VariantScopes(film) : Affects(s, region.shots)}
=============================================================================
