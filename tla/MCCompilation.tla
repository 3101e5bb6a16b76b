---------------------------- MODULE MCCompilation ----------------------------
(***************************************************************************)
(* Films of at most two scenes and three shots on a frame domain of eight  *)
(* frames: shots with and without primary content, that are cut into, that *)
(* speak, that last no frame, and that are wrong in one way each.          *)
(***************************************************************************)
EXTENDS Compilation

Rate(n) == [num |-> n, den |-> 1]
MCOutputRate == Rate(3)

\* A source, as a whole and played once.
Whole(rate, n) ==
  [rate |-> Rate(rate), frames |-> n, start |-> 0, end |-> NaturalDuration(Rate(rate), n),
   speed |-> Rate(1), plays |-> 1, hold |-> 0]

\* Two frames of the film; three; a slow source, held; a fast one, trimmed; a loop.
Short == [Whole(3, 3) EXCEPT !.end = 6]
Clip == Whole(3, 3)
Held == [Whole(2, 2) EXCEPT !.start = 5, !.hold = 4]
Trimmed == [Whole(5, 6) EXCEPT !.start = 2, !.end = 10, !.speed = Rate(2)]
Loop == [Whole(2, 2) EXCEPT !.end = 4, !.plays = 2]
Thirds == Whole(3, 2)

Media(kind, asset, delay, frames) ==
  [kind |-> kind, source |-> "ok", asset |-> asset, delay |-> delay, frames |-> frames,
   treatment |-> Clip, fadeIn |-> 0, fadeOut |-> 0, cued |-> FALSE, gain |-> 2, target |-> {}]

Faded(media, fadeIn, fadeOut) == [media EXCEPT !.fadeIn = fadeIn, !.fadeOut = fadeOut]
Title(delay) == Media("overlay", "none", delay, 0)
CuedTitle == [Title(0) EXCEPT !.cued = TRUE]
Video(asset, delay, treatment) == [Media("video", asset, delay, 0) EXCEPT !.treatment = treatment]
Voice(delay, frames) == Media("voice", "voice", delay, frames)
Effect(delay, frames) == Media("effect", "effect", delay, frames)
Broken(media, source) == [media EXCEPT !.source = source]

Shot(duration, cut, content, sounds) ==
  [duration |-> duration, cut |-> cut, content |-> content, effects |-> sounds]

MCAuthoredShots ==
  { Shot({2}, {}, <<Title(1)>>, <<>>),
    Shot({3}, {1}, <<CuedTitle>>, <<Faded(Effect(1, 2), 1, 1)>>),
    Shot({}, {2}, <<Video("clip", 0, Thirds)>>, <<>>),
    Shot({}, {}, <<Video("clip", 1, Held), Voice(0, 3), Voice(1, 1)>>, <<>>),
    Shot({}, {1}, <<Video("other", 0, Trimmed), Voice(1, 1)>>, <<>>),
    Shot({}, {}, <<Voice(0, 0)>>, <<>>),
    Shot({}, {}, <<>>, <<>>),
    Shot({2}, {}, <<Video("clip", 0, Short)>>, <<>>),
    Shot({}, {}, <<Broken(Video("clip", 0, Clip), "MissingMediaSource")>>, <<>>),
    Shot({3}, {3}, <<Broken(Title(0), "unprobed")>>, <<>>),
    Shot({2}, {}, <<>>, <<Effect(1, 2)>>),
    Shot({}, {}, <<Faded(Voice(0, 2), 2, 1)>>, <<>>),
    Shot({}, {}, <<Video("other", 0, Loop)>>, <<>>) }

\* A film of eight by six pixels.  The clip fills it; the other is a square.
Size(width, height) == [width |-> width, height |-> height]
MCCanvas == Size(8, 6)
MCRasters == [clip |-> MCCanvas, other |-> Size(6, 6)]

\* Left, below the middle; right, its left cut off; left to the middle,
\* stretched, but in the third shot all of the width, at no whole pixel.
MCBox(video) ==
  LET box(x, width, height, fit, px, py) ==
        [x |-> x, y |-> 0, width |-> width, height |-> height, fit |-> fit,
         px |-> px, py |-> py, plain |-> TRUE]
  IN CASE video.treatment = Thirds -> box(0, 4, 5, "contain", 3, 2)
       [] video.treatment = Trimmed -> box(4, 4, 6, "cover", 4, 0)
       [] video.treatment = Held /\ video.shot < 3 -> box(0, 6, 6, "fill", 0, 0)
       [] OTHER -> box(0, 8, 5, "contain", 2, 2)

Music(frames, target) == [Media("music", "music", 0, frames) EXCEPT !.target = target]

MCMusicTracks == {<<>>, <<Faded(Music(6, {1}), 1, 1)>>, <<Music(9, {})>>, <<Music(7, {2}), Music(6, {1})>>}
MCCueTimes == {{}, {2}, {9}}
MCCaptionTracks == {{}, {Interval(1, 3), Interval(6, 8)}, {Interval(3, 9)}}
=============================================================================
