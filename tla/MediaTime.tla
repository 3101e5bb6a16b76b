------------------------------ MODULE MediaTime ------------------------------
(***************************************************************************)
(* Which source frame of a video an output frame shows.  Three parties     *)
(* decide it independently: the compiler, that counts output frames        *)
(* (crates/core/src/model/time.rs), the page, that samples the source at   *)
(* the midpoint of an output frame (packages/runtime/src/media.ts), and    *)
(* FFmpeg, by a filter graph of the native path                            *)
(* (crates/render/src/visual.rs, encoder/layered_process.rs).              *)
(*                                                                         *)
(* A rate is a rational number of frames per second, a time a number of    *)
(* nanoseconds; the second is as short as NanosPerSecond says.  A          *)
(* treatment is a source (its rate and its number of frames) with the      *)
(* selected interval, the speed, the plays and the hold.                   *)
(***************************************************************************)
EXTENDS Integers

CONSTANTS
  NanosPerSecond,   \* NANOS_PER_SECOND
  OutputRate        \* the frame rate of the film

ASSUME MediaTimeAssumption ==
  /\ NanosPerSecond \in Nat \ {0}
  /\ OutputRate \in [num : Nat \ {0}, den : Nat \ {0}]

CeilDiv(a, b) == (a + b - 1) \div b

\* MediaTimebase::duration_at for the end of the last frame: rounded up.
NaturalDuration(rate, frames) == CeilDiv(frames * NanosPerSecond * rate.den, rate.num)

-----------------------------------------------------------------------------
(* The compiler.                                                            *)

\* Timebase::media_playback_fraction: the plays in output frames.
PlaybackNumerator(t) == (t.end - t.start) * t.speed.den * t.plays * OutputRate.num
PlaybackDenominator(t) == NanosPerSecond * OutputRate.den * t.speed.num

\* Timebase::frames_for_media, rounded up
FramesForMedia(t) ==
  CeilDiv(PlaybackNumerator(t) + t.hold * OutputRate.num * t.speed.num, PlaybackDenominator(t))

\* Timebase::frames_before_media_hold: the midpoints before the hold begins.
FramesBeforeHold(t) ==
  LET distance == 2 * PlaybackNumerator(t) - PlaybackDenominator(t)
  IN IF distance < 0 THEN 0 ELSE CeilDiv(distance, 2 * PlaybackDenominator(t))

-----------------------------------------------------------------------------
(* The page.                                                                *)

\* The source frames that begin before the end of the interval.
ExclusiveEnd(t) == CeilDiv(t.end * t.rate.num, NanosPerSecond * t.rate.den)

\* sourceTimeAtMidpoint: the denominator, and the numerator at local frame k;
\* after the plays it is the last instant before the end.
TimeDenominator(t) == 2 * OutputRate.num * t.speed.den

TimeNumerator(t, k) ==
  LET elapsed == (2 * k + 1) * OutputRate.den * t.speed.num * NanosPerSecond
      pass    == (t.end - t.start) * TimeDenominator(t)
  IN IF elapsed < pass * t.plays
     THEN t.start * TimeDenominator(t) + (elapsed % pass)
     ELSE t.end * TimeDenominator(t) - 1

\* selectConstantFrame
BrowserFrame(t, k) ==
  LET selected == (TimeNumerator(t, k) * t.rate.num)
                    \div (TimeDenominator(t) * NanosPerSecond * t.rate.den)
  IN IF selected < ExclusiveEnd(t) THEN selected ELSE ExclusiveEnd(t) - 1

-----------------------------------------------------------------------------
(* FFmpeg.                                                                  *)

\* native_media_schedule and NativeMediaSchedule::new
SchedulesNatively(t, frames) == t.plays = 1 /\ frames > 0 /\ FramesBeforeHold(t) <= frames

\* source_selection_filter: the output frame from which on source frame n is
\* shown, and the frame its fps filter shows at k: the latest that has begun.
PresentedFrom(t, n) ==
  LET unit == t.rate.num * NanosPerSecond * OutputRate.den * t.speed.num
      at   == (n * t.rate.den * NanosPerSecond - t.start * t.rate.num)
                * OutputRate.num * t.speed.den
  IN CeilDiv(2 * at - unit, 2 * unit)

Retimed(t, k) ==
  CHOOSE n \in 0 .. t.frames - 1 :
    /\ PresentedFrom(t, n) <= k
    /\ \A m \in n + 1 .. t.frames - 1 : PresentedFrom(t, m) > k

\* append_source_schedule: the selection up to the hold, then final_source_frame.
NativeFrame(t, k) == IF k < FramesBeforeHold(t) THEN Retimed(t, k) ELSE ExclusiveEnd(t) - 1
=============================================================================
