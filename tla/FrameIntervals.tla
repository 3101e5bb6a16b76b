--------------------------- MODULE FrameIntervals ---------------------------
(***************************************************************************)
(* Half-open frame intervals [start, end), the one notion of time shared   *)
(* by the solver, the render graph, the browser plans and the executor     *)
(* (crates/core/src/model/time.rs).  An absent interval is the empty set.  *)
(***************************************************************************)
EXTENDS Naturals

\* FrameInterval::new: ends never precede starts, empty intervals are values.
Interval(start, end) == [start |-> start, end |-> end]

Span(i) == i.end - i.start

IsEmpty(i) == i.start = i.end

ContainsInterval(i, j) == i.start <= j.start /\ j.end <= i.end

Intersects(i, j) == /\ ~IsEmpty(i) /\ ~IsEmpty(j)
                    /\ i.start < j.end /\ j.start < i.end

\* FrameInterval::intersection: the shared frames, if there are any.
Intersection(i, j) ==
  LET start == IF i.start >= j.start THEN i.start ELSE j.start
      end   == IF i.end <= j.end THEN i.end ELSE j.end
  IN IF start < end THEN {Interval(start, end)} ELSE {}

\* The frames of an interval, and whether it holds frame f.
Frames(i) == i.start .. (i.end - 1)
Covers(i, f) == i.start <= f /\ f < i.end

Intervals(frames) == {i \in [start : frames, end : frames] : i.start <= i.end}
=============================================================================
