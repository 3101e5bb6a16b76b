------------------------------- MODULE WirePlan -------------------------------
(***************************************************************************)
(* The contract of a browser plan on the wire.  It is stated twice and     *)
(* enforced by both ends: by Rust, whenever a plan is projected or decoded *)
(* (crates/core/src/protocol/plan.rs), and by the page, before it accepts  *)
(* an initialization (packages/runtime/src/session.ts).                    *)
(*                                                                         *)
(* A wire plan is a record: the three intervals, the film's node, and the  *)
(* collections in which each entry has its own node and names the nodes it *)
(* belongs to.  Authored ids, texts, fields and budgets are left out.      *)
(***************************************************************************)
EXTENDS FrameIntervals, MediaTime, SequencesExt, FiniteSets

Fails(fault, code) == IF fault THEN {code} ELSE {}

Nodes(entries) == [n \in DOMAIN entries |-> entries[n].node]

Collections(wire) ==
  <<wire.scenes, wire.shots, wire.transitions, wire.videos, wire.overlays>>

\* Every node of a plan, as often as it is claimed.
Claims(wire) == <<wire.film>> \o FlattenSeq([n \in 1 .. 5 |-> Nodes(Collections(wire)[n])])

\* The shots of a plan that are the given node.
ShotsNamed(wire, id) == {n \in DOMAIN wire.shots : wire.shots[n].node = id}

\* intervals_intersect, and intervalsIntersect of the page: of nonempty intervals.
Overlap(i, j) == i.start < j.end /\ j.start < i.end

-----------------------------------------------------------------------------
(* BrowserPlan::checked.  The first fault found is the error.               *)

\* validate_node_order
InOrder(entries) == \A n \in 2 .. Len(entries) : entries[n - 1].node < entries[n].node

\* NodeClaims::validate_dense_identity
Dense(ids) == ids = 0 .. Cardinality(ids) - 1

\* validate_structural_interval
StructureFaults(wire, at) ==
  Fails(IsEmpty(at), "EmptyStructure")
  \cup Fails(~ContainsInterval(wire.timeline, at), "StructureOutsideTimeline")
  \cup Fails(~Overlap(at, wire.evaluation), "StructureOutsideEvaluation")

\* validate_overlay_interval
OverlayIntervalFaults(wire, at) ==
  Fails(IsEmpty(at), "EmptyOverlay")
  \cup Fails(~ContainsInterval(wire.timeline, at), "OverlayOutsideTimeline")
  \cup Fails(~Overlap(at, wire.evaluation), "OverlayOutsideEvaluation")

\* validate_child_interval, below one of the given parents
ChildFaults(at, parents) ==
  IF parents = {} THEN {"UnknownParentNode"}
  ELSE Fails(\E p \in parents : ~ContainsInterval(p.at, at), "ChildCrossesParent")

ShotEntries(wire, id) == {wire.shots[n] : n \in ShotsNamed(wire, id)}

\* A transition joins a shot and the next one of its scene where they overlap.
JoinsAt(wire, t, before, after) ==
  LET outgoing == wire.shots[before] incoming == wire.shots[after] IN
  /\ after = before + 1 /\ outgoing.scene = incoming.scene
  /\ ContainsInterval(outgoing.at, t.at) /\ ContainsInterval(incoming.at, t.at)
  /\ t.at.start = incoming.at.start /\ t.at.end = outgoing.at.end

\* validate_transitions
TransitionFaults(wire, t) ==
  LET outgoing == ShotsNamed(wire, t.outgoing) incoming == ShotsNamed(wire, t.incoming) IN
  StructureFaults(wire, t.at)
  \cup Fails(outgoing = {} \/ incoming = {}, "UnknownParentNode")
  \cup Fails(\E b \in outgoing, a \in incoming : ~JoinsAt(wire, t, b, a), "InvalidTransitionRelation")

\* validate_structure: a caption belongs to no shot, every other overlay to one.
OverlayParentFaults(wire, o) ==
  IF o.kind = "caption" THEN Fails(o.shot # {}, "UnknownParentNode")
  ELSE ChildFaults(o.at, UNION {ShotEntries(wire, id) : id \in o.shot})

IdentityFaults(wire) ==
  Fails(\E n \in 1 .. 5 : ~InOrder(Collections(wire)[n]), "NonCanonicalNodeOrder")
  \cup Fails(~IsInjective(Claims(wire)), "DuplicateNodeId")
  \cup Fails(~Dense(Range(Claims(wire))), "NonDenseNodeIdentity")

StructuralFaults(wire) ==
  (UNION {StructureFaults(wire, s.at) : s \in Range(wire.scenes)})
  \cup (UNION {StructureFaults(wire, s.at)
               \cup ChildFaults(s.at, {p \in Range(wire.scenes) : p.node = s.scene}) :
                 s \in Range(wire.shots)})
  \cup (UNION {TransitionFaults(wire, t) : t \in Range(wire.transitions)})
  \cup (UNION {ChildFaults(v.at, ShotEntries(wire, v.shot)) : v \in Range(wire.videos)})
  \cup (UNION {OverlayIntervalFaults(wire, o.at) \cup OverlayParentFaults(wire, o) : o \in Range(wire.overlays)})

\* validate_video_durations and the intervals of the videos
VideoFaults(wire, v) ==
  Fails(IsEmpty(v.at), "EmptyVideo")
  \cup Fails(~ContainsInterval(wire.evaluation, v.at), "VideoCrossesEvaluation")
  \cup Fails(Span(v.at) # FramesForMedia(v.source), "VideoSourceDurationMismatch")

CheckedFaults(wire) ==
  Fails(~ContainsInterval(wire.timeline, wire.evaluation), "EvaluationOutsideTimeline")
  \cup IdentityFaults(wire) \cup StructuralFaults(wire)
  \cup Fails(~ContainsInterval(wire.evaluation, wire.output), "OutputOutsideEvaluation")
  \cup Fails(IsEmpty(wire.output), "EmptyOutput")
  \cup (UNION {VideoFaults(wire, v) : v \in Range(wire.videos)})

-----------------------------------------------------------------------------
(* planViolation of the page: the claims and places are looked up in maps,  *)
(* so that the shot a node names is the last one that claimed it.           *)

ValidPlacement(wire, at) ==
  at.start < at.end /\ ContainsInterval(wire.timeline, at) /\ Overlap(at, wire.evaluation)

\* transitionRelationViolation
RelatesShots(wire, t) ==
  \E b \in ShotsNamed(wire, t.outgoing), a \in ShotsNamed(wire, t.incoming) :
    JoinsAt(wire, t, b, a) /\ ValidPlacement(wire, t.at)

\* insideEvaluation, and videoSourceMappingIsValid of media.ts
MapsItsSource(wire, v) ==
  LET t == v.source IN
  /\ v.at.start < v.at.end /\ ContainsInterval(wire.evaluation, v.at)
  /\ t.start < t.end /\ t.end <= NaturalDuration(t.rate, t.frames) /\ t.plays > 0
  /\ Span(v.at) = FramesForMedia(t)

\* overlayParentViolation
HasItsParent(wire, o) ==
  IF o.kind = "caption" THEN o.shot = {}
  ELSE \E id \in o.shot : \E s \in ShotEntries(wire, id) : ContainsInterval(s.at, o.at)

PageAccepts(wire) ==
  /\ wire.timeline.start < wire.timeline.end /\ wire.output.start < wire.output.end
  /\ ContainsInterval(wire.timeline, wire.evaluation)
  /\ ContainsInterval(wire.evaluation, wire.output)
  /\ \A n \in 1 .. 5 : InOrder(Collections(wire)[n])
  /\ IsInjective(Claims(wire)) /\ Dense(Range(Claims(wire)))
  /\ \A s \in Range(wire.scenes) : ValidPlacement(wire, s.at)
  /\ \A s \in Range(wire.shots) :
       /\ ValidPlacement(wire, s.at)
       /\ \E p \in Range(wire.scenes) : p.node = s.scene /\ ContainsInterval(p.at, s.at)
  /\ \A t \in Range(wire.transitions) : RelatesShots(wire, t)
  /\ \A v \in Range(wire.videos) :
       /\ MapsItsSource(wire, v)
       /\ \E s \in ShotEntries(wire, v.shot) : ContainsInterval(s.at, v.at)
  /\ \A o \in Range(wire.overlays) : HasItsParent(wire, o) /\ ValidPlacement(wire, o.at)

-----------------------------------------------------------------------------
(* Mutant: the retained nodes keep the identities of the full plan.         *)
SameNodes(wire) == wire

\* BrowserPlan::compact_node_ids: the retained nodes are counted anew, and
\* every reference with them.
CompactNodeIds(wire) ==
  LET retained == Range(Claims(wire))
      new(id)  == Cardinality({r \in retained : r < id})
      moved(entries) == [n \in DOMAIN entries |-> [entries[n] EXCEPT !.node = new(@)]]
      shots == moved(wire.shots)
      cuts  == moved(wire.transitions)
      over  == moved(wire.overlays)
  IN [wire EXCEPT
       !.film = new(@), !.scenes = moved(@),
       !.shots = [n \in DOMAIN shots |-> [shots[n] EXCEPT !.scene = new(@)]],
       !.transitions = [n \in DOMAIN cuts |->
                          [cuts[n] EXCEPT !.outgoing = new(@), !.incoming = new(@)]],
       !.overlays = [n \in DOMAIN over |-> [over[n] EXCEPT !.shot = {new(id) : id \in @}]]]

\* BrowserPlan::foreground_only
ForegroundOnly(wire) == CompactNodeIds([wire EXCEPT !.videos = <<>>])
=============================================================================
