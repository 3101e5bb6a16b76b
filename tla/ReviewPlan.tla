----------------------------- MODULE ReviewPlan -----------------------------
(***************************************************************************)
(* The checkpoints of a visual review (crates/cli/src/review/): frames     *)
(* that the timeline and the partition single out, each read from the      *)
(* artifact of the region that publishes it.                               *)
(***************************************************************************)
EXTENDS RenderUnits

CONSTANT MaxCheckpoints   \* MAX_REVIEW_CHECKPOINTS

ASSUME ReviewAssumption == MaxCheckpoints \in Nat

\* interval_points: first and last frame, with the middle; add_edges leaves
\* the middle out.
Edges(at) == IF IsEmpty(at) THEN {} ELSE {at.start, at.end - 1}
Points(at) ==
  IF IsEmpty(at) THEN {} ELSE Edges(at) \cup {at.start + (at.end - 1 - at.start) \div 2}

\* add_regions and add_timeline
AnchoredFrames(film, regions) ==
  (UNION {Points(r.output) : r \in Range(regions)})
  \cup (UNION {Points(film.shots[i].at) \cup Points(film.shots[i].cut) : i \in ShotIndexes(film)})
  \cup (UNION {Edges(c.at) : c \in Contents(film, "video") \cup Contents(film, "overlay")
                                     \cup film.captions})

Owners(regions, f) == {n \in DOMAIN regions : Covers(regions[n].output, f)}

(* Mutant: the first region that evaluates the frame.                       *)
CheckpointEvaluated(regions, f) ==
  LET region == Min({n \in DOMAIN regions : Covers(regions[n].evaluation, f)})
  IN [frame |-> f, region |-> region, position |-> f - regions[region].output.start]

\* finish_checkpoint
Checkpoint(regions, f) ==
  LET region == Min(Owners(regions, f))
  IN [frame |-> f, region |-> region, position |-> f - regions[region].output.start]

\* ReviewPlan::from_timeline
ReviewFaults(film, regions) ==
  Fails(Cardinality(AnchoredFrames(film, regions)) > MaxCheckpoints, "TooManyCheckpoints")
  \cup Fails(\E f \in AnchoredFrames(film, regions) : Owners(regions, f) = {}, "UnownedCheckpoint")

Checkpoints(film, regions) == {Checkpoint(regions, f) : f \in AnchoredFrames(film, regions)}
=============================================================================
