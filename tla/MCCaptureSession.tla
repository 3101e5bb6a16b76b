-------------------------- MODULE MCCaptureSession --------------------------
(* Two units in one browser session.  The first decodes two videos and is  *)
(* captured at every frame: "hold" keeps its source frame from frame 0 to  *)
(* frame 1, where "late" enters; frame 2 changes both without a boundary.  *)
(* The second starts its evaluation before its output, has its media       *)
(* composed natively, and may change its look only at its boundaries: the  *)
(* one at frame 5 changes nothing, the one at frame 6 does.                *)
EXTENDS CaptureSession

CONSTANTS hold, late

MCFrames == 0..6

MCVideoOrder == <<hold, late>>

MCMediaTime ==
    [v \in {hold, late} |->
        [f \in MCFrames |->
            CASE v = hold /\ f < 2  -> 1
              [] v = hold /\ f = 2  -> 2
              [] v = late /\ f \in {1, 2} -> 10 + f
              [] OTHER -> None]]

First == [start |-> 0, end |-> 3, valid |-> TRUE, media |-> "decoded"]
Second(media) == [start |-> 2, end |-> 7, valid |-> TRUE, media |-> media]

MCPlans == {First, Second("omitted"), Second("layoutOnly")}

DecodedUnit ==
    [plan |-> First, from |-> 0, to |-> 3, cadence |-> "everyFrame",
     boundaries |-> {0, 1, 3}, look |-> [f \in MCFrames |-> f + 1], preflight |-> FALSE]

BoundedUnit ==
    [plan |-> Second("omitted"), from |-> 3, to |-> 7, cadence |-> "placementBounded",
     boundaries |-> {2, 5, 6}, look |-> [f \in MCFrames |-> IF f < 6 THEN 7 ELSE 8],
     preflight |-> TRUE]

MCUnits == <<DecodedUnit, BoundedUnit>>

(* A presentation without decoded media, captured at every frame.          *)
MCPortableUnits ==
    <<[BoundedUnit EXCEPT !.cadence = "everyFrame", !.look = [f \in MCFrames |-> f]],
      BoundedUnit>>

(* Screenshots are what the portable mode captures such presentations by.  *)
MCJobs ==
    {[mode |-> "beginFrame", units |-> MCUnits], [mode |-> "screenshot", units |-> MCPortableUnits]}
=============================================================================
