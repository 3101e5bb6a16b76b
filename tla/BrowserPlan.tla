----------------------------- MODULE BrowserPlan -----------------------------
(***************************************************************************)
(* What one unit's browser gets to see of the film: the projection of      *)
(* crates/core/src/protocol/projection.rs and the checks of                *)
(* crates/core/src/protocol/plan.rs.  Node identities are the places of    *)
(* the elements in the film, and become numbers on the wire; texts, source *)
(* timings and the budgets of the wire format are left out.  A selection   *)
(* of shots is optional: a set of at most one set of shots.                *)
(***************************************************************************)
EXTENDS RenderGraph, WirePlan

Film(film) == Interval(0, film.end)

ShotSelected(film, evaluation, selection, i) ==
  IF selection = {} THEN Intersects(film.shots[i].at, evaluation)
                    ELSE i \in UNION selection

SceneSelected(film, evaluation, selection, k) ==
  IF selection = {} THEN Intersects(film.scenes[k], evaluation)
  ELSE \E i \in UNION selection : i \in ShotIndexes(film) /\ film.shots[i].scene = k

\* ProjectionBuilder::project: everything of the selected shots the unit
\* evaluates; a transition only between two selected neighbours.
Project(film, evaluation, output, selection, fields) ==
  LET scenes   == {k \in DOMAIN film.scenes : SceneSelected(film, evaluation, selection, k)}
      selected == {i \in ShotIndexes(film) : /\ film.shots[i].scene \in scenes
                                             /\ ShotSelected(film, evaluation, selection, i)}
      evaluated(kind) == {c \in Contents(film, kind) :
                            c.shot \in selected /\ Intersects(c.at, evaluation)}
  IN [evaluation |-> evaluation, output |-> output, fields |-> fields,
      scenes |-> scenes, shots |-> selected,
      transitions |-> {i \in selected : i - 1 \in selected /\ HasCut(film, i)},
      videos |-> evaluated("video"), overlays |-> evaluated("overlay"),
      captions |-> {c \in film.captions : Intersects(c.at, evaluation)}]

-----------------------------------------------------------------------------
(* The plan on the wire.                                                    *)

\* The order in which ProjectionBuilder counts its nodes: the film, scene by
\* scene its shots, a transition before the shot it leads into, and what a
\* shot shows after it; captions last.
Numbered(film, plan) ==
  LET node(kind, i, k) == <<[kind |-> kind, i |-> i, k |-> k]>>
      drawn == {<<c.shot, c.place>> : c \in plan.videos \cup plan.overlays}
      content(i) == FlattenSeq([k \in DOMAIN film.shots[i].content |->
        IF <<i, k>> \in drawn THEN node(film.shots[i].content[k].kind, i, k) ELSE <<>>])
      shot(i) == (IF i \in plan.transitions THEN node("transition", i, 0) ELSE <<>>)
                   \o node("shot", i, 0) \o content(i)
      scene(s) == node("scene", s, 0) \o FlattenSeq([i \in DOMAIN film.shots |->
        IF i \in plan.shots /\ film.shots[i].scene = s THEN shot(i) ELSE <<>>])
  IN node("film", 0, 0)
       \o FlattenSeq([s \in DOMAIN film.scenes |-> IF s \in plan.scenes THEN scene(s) ELSE <<>>])
       \o [n \in 1 .. Cardinality(plan.captions) |-> node("caption", n, 0)[1]]

\* ProjectionBuilder::project: a node is known by how many were counted before.
Wire(film, plan) ==
  LET numbered == Numbered(film, plan)
      id(kind, i) == (CHOOSE n \in DOMAIN numbered : numbered[n].kind = kind /\ numbered[n].i = i) - 1
      entries(kind, entry(_, _, _)) ==
        FlattenSeq([n \in DOMAIN numbered |->
          IF numbered[n].kind = kind THEN <<entry(n - 1, numbered[n].i, numbered[n].k)>> ELSE <<>>])
      cues == Ordered(plan.captions, LAMBDA c, d :
                c.at.start < d.at.start \/ (c.at.start = d.at.start /\ c.at.end < d.at.end))
  IN [timeline |-> Film(film), evaluation |-> plan.evaluation, output |-> plan.output,
      film |-> id("film", 0),
      scenes |-> entries("scene", LAMBDA node, s, k : [node |-> node, at |-> film.scenes[s]]),
      shots |-> entries("shot", LAMBDA node, i, k :
        [node |-> node, scene |-> id("scene", film.shots[i].scene), at |-> film.shots[i].at]),
      transitions |-> entries("transition", LAMBDA node, i, k :
        [node |-> node, outgoing |-> id("shot", i - 1), incoming |-> id("shot", i),
         at |-> film.shots[i].cut]),
      videos |-> entries("video", LAMBDA node, i, k :
        [node |-> node, shot |-> id("shot", i), at |-> film.shots[i].content[k].at,
         source |-> film.shots[i].content[k].treatment]),
      overlays |->
        entries("overlay", LAMBDA node, i, k :
          [node |-> node, kind |-> "title", shot |-> {id("shot", i)},
           at |-> film.shots[i].content[k].at])
        \o entries("caption", LAMBDA node, n, k :
          [node |-> node, kind |-> "caption", shot |-> {}, at |-> cues[n].at])]

\* BrowserPlan::project_unit: a selection is met exactly, videos are evaluated
\* as a whole (project_video), and the wire passes its own checks.
PlanFaults(film, plan, selection) ==
  Fails(\E s \in selection : s = {} \/ plan.shots # s, "InvalidShotSelection")
  \cup CheckedFaults(Wire(film, plan))

\* BrowserPlan::into_output
NarrowFaults(plan, output) ==
  Fails(IsEmpty(output), "EmptyOutput")
  \cup Fails(~ContainsInterval(plan.output, output), "OutputOutsideOriginalOutput")

IntoOutput(plan, output) == [plan EXCEPT !.output = output]

-----------------------------------------------------------------------------
(* What a plan puts on the page.                                            *)

Structures(film, plan) ==
  {film.scenes[k] : k \in plan.scenes} \cup {film.shots[i].at : i \in plan.shots}
  \cup {film.shots[i].cut : i \in plan.transitions}
  \cup {o.at : o \in plan.overlays \cup plan.captions}

\* The elements that are visible at frame f, the video bytes apart.
Visible(film, plan, f) ==
  [scenes      |-> {k \in plan.scenes : Covers(film.scenes[k], f)},
   shots       |-> {i \in plan.shots : Covers(film.shots[i].at, f)},
   transitions |-> {i \in plan.transitions : Covers(film.shots[i].cut, f)},
   videos      |-> {v \in plan.videos : Covers(v.at, f)},
   overlays    |-> {o \in plan.overlays : Covers(o.at, f)},
   captions    |-> {c \in plan.captions : Covers(c.at, f)}]

(* Mutant: captions come and go without a boundary.                         *)
BoundariesSilent(film, plan) ==
  UNION {{at.start, at.end} :
           at \in Structures(film, [plan EXCEPT !.captions = {}]) \cup {v.at : v \in plan.videos}}

\* BrowserPlan::placement_boundaries: the frames where that may change.
Boundaries(film, plan) ==
  UNION {{at.start, at.end} :
           at \in Structures(film, plan) \cup {v.at : v \in plan.videos}}
=============================================================================
