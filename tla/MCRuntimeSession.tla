-------------------------- MODULE MCRuntimeSession --------------------------
(* Three videos over four frames: "hold" keeps its source frame from frame *)
(* 0 to 1 and moves on, "late" enters at frame 1, "brief" leaves after 0.  *)
(* Frame 3 lies outside the evaluation interval of the plans.              *)
EXTENDS RuntimeSession

CONSTANTS hold, late, brief

MCFrames == 0..3

MCVideoOrder == <<hold, late, brief>>

MCMediaTime ==
    [v \in {hold, late, brief} |->
        [f \in MCFrames |->
            CASE v = hold  -> IF f < 2 THEN 1 ELSE 2
              [] v = late  -> IF f = 0 THEN None ELSE 10 + f
              [] v = brief -> IF f = 0 THEN 20 ELSE None]]

MCPlans ==
    {[start |-> 0, end |-> 3, valid |-> TRUE, media |-> "decoded"],
     [start |-> 1, end |-> 3, valid |-> TRUE, media |-> "layoutOnly"],
     [start |-> 0, end |-> 3, valid |-> FALSE, media |-> "decoded"]}
=============================================================================
