------------------------------- MODULE AudioMix -------------------------------
(***************************************************************************)
(* The mix of a film's sounds on the sample grid of the output: the filter *)
(* graph that crates/render/src/encoder/audio.rs writes for FFmpeg, and    *)
(* the gain of music under voice-overs (encoder/ducking.rs).  Every        *)
(* boundary is a frame of the film, rounded up to a sample on its own.     *)
(***************************************************************************)
EXTENDS RenderUnits

CONSTANTS
  SampleRate,      \* OUTPUT_SAMPLE_RATE_HZ
  DuckingAttack,   \* the frames of DUCKING_ATTACK
  DuckingRelease   \* the frames of DUCKING_RELEASE

ASSUME MixAssumption ==
  {SampleRate, DuckingAttack, DuckingRelease} \subseteq Nat \ {0}

\* AudioSampleRate::samples_for, rounded up
SamplesFor(frames) == CeilDiv(frames * OutputRate.den * SampleRate, OutputRate.num)

-----------------------------------------------------------------------------
(* Ducking.  A window is the influence of one voice-over, or of several.    *)

\* sample_window of a voice-over rebased by rebase_interval.
Window(voice, origin, samples) ==
  LET start   == SamplesFor(voice.start - origin)
      end     == SamplesFor(voice.end - origin)
      attack  == SamplesFor(DuckingAttack)
      release == end + SamplesFor(DuckingRelease)
  IN [attackStart |-> IF start < attack THEN 0 ELSE start - attack,
      voiceStart |-> start, voiceEnd |-> end,
      releaseEnd |-> IF release < samples THEN release ELSE samples]

(* Mutant: the later window decides where the voices end.                   *)
AbsorbLast(previous, window) ==
  [previous EXCEPT !.voiceStart = Min({@, window.voiceStart}),
                   !.voiceEnd = window.voiceEnd, !.releaseEnd = window.releaseEnd]

\* What merge_windows makes of a window and one that begins before its end.
Absorb(previous, window) ==
  [attackStart |-> previous.attackStart,
   voiceStart |-> Min({previous.voiceStart, window.voiceStart}),
   voiceEnd |-> Max({previous.voiceEnd, window.voiceEnd}),
   releaseEnd |-> Max({previous.releaseEnd, window.releaseEnd})]

\* One more window, that begins no earlier than those before it.
Merge(merged, w) ==
  IF merged = <<>> \/ w.attackStart >= Last(merged).releaseEnd THEN Append(merged, w)
  ELSE [merged EXCEPT ![Len(merged)] = Absorb(@, w)]

\* merge_windows; sort_by_key keeps the order of windows that begin together.
MergeWindows(windows) ==
  LET order == Ordered(DOMAIN windows, LAMBDA i, j :
                 \/ windows[i].attackStart < windows[j].attackStart
                 \/ windows[i].attackStart = windows[j].attackStart /\ i < j)
      merged[n \in 0 .. Len(windows)] ==
        IF n = 0 THEN <<>> ELSE Merge(merged[n - 1], windows[order[n]])
  IN merged[Len(windows)]

\* push_segment
Segment(start, end, phase) ==
  IF start < end THEN <<[start |-> start, end |-> end, phase |-> phase]>> ELSE <<>>

GainSegments(windows, samples) ==
  LET cursor(i) == IF i = 1 THEN 0 ELSE windows[i - 1].releaseEnd
  IN FlattenSeq([i \in DOMAIN windows |->
       LET w == windows[i] IN
         Segment(cursor(i), w.attackStart, "Base")
         \o Segment(w.attackStart, w.voiceStart, "Attack")
         \o Segment(w.voiceStart, w.voiceEnd, "Target")
         \o Segment(w.voiceEnd, w.releaseEnd, "Release")])
     \o Segment(cursor(Len(windows) + 1), samples, "Base")

\* AudioSampleDucking::project: no segments where the gain never changes.
Ducking(audio, samples) ==
  IF audio.kind # "music" \/ audio.gain = 0 \/ audio.target \in {{}, {audio.gain}} \/ audio.ducked = <<>>
  THEN <<>>
  ELSE GainSegments(MergeWindows([i \in DOMAIN audio.ducked |->
                                    Window(audio.ducked[i], audio.at.start, samples)]), samples)

-----------------------------------------------------------------------------
(* The tracks of the mix.                                                   *)

\* sample_envelope: the fade-out begins at a sample of its own and lasts to
\* the end of the placement.
Envelope(audio) ==
  LET outStart == SamplesFor(Span(audio.at) - audio.fadeOut)
  IN [inSamples |-> SamplesFor(audio.fadeIn), outStart |-> outStart,
      outSamples |-> SamplesFor(Span(audio.at)) - outStart]

\* audio_filter: one track of the mix.
Track(audio, origin) ==
  LET samples == SamplesFor(Span(audio.at))
  IN [delay |-> SamplesFor(audio.at.start - origin), samples |-> samples,
      envelope |-> Envelope(audio), segments |-> Ducking(audio, samples)]

\* Sample s of the mix, where the track sounds there.
Sounds(track, s) == track.delay <= s /\ s < track.delay + track.samples

\* The phase of the gain at sample s of the mix.
PhaseAt(track, s) ==
  LET at(g) == g.start <= s - track.delay /\ s - track.delay < g.end
  IN {g.phase : g \in {h \in Range(track.segments) : at(h)}}

\* The ramp of write_ramp: where a phase begins and where it ends.
StartsDucked(phase) == phase \in {"Target", "Release"}
EndsDucked(phase) == phase \in {"Target", "Attack"}

\* output_samples: what the mix is trimmed and padded to.
OutputSamples(film) == SamplesFor(film.end)
=============================================================================
