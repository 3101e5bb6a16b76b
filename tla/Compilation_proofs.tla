-------------------------- MODULE Compilation_proofs --------------------------
(***************************************************************************)
(* For every screenplay the resolver can hand over, whatever its length    *)
(* and its faults: the solver's timeline is sound, holds everything that   *)
(* was written, and is partitioned exactly; what is planned from it shows  *)
(* the film at every frame, and snapshots and reviews show it too.         *)
(*                                                                         *)
(* What the solver guarantees rests on how its shots lie (Laid): each one  *)
(* holds its transition at its start and its contents, adjoins the one     *)
(* before, and stays clear of all earlier ones.  The parts of TInv add     *)
(* that the cursor stands behind the last shot until it is lost (AtEnd),   *)
(* that a lost cursor and two voices at once have been reported, and that  *)
(* a film is what the solver had placed when it finished.                  *)
(*                                                                         *)
(* What FlattenSeq yields is shown without induction over data: by the     *)
(* first position at which a property of its beginnings fails.             *)
(*                                                                         *)
(* The pictures rest on three facts.  A plan shows what the film shows at  *)
(* each frame it evaluates, and nothing changes between two boundaries     *)
(* (Seen, RegionIsSeen, SameUntilABoundary).  The page and FFmpeg choose   *)
(* the same source frame, where their sources round alike (FramesAgree).   *)
(* And FFmpeg draws over a backdrop what CSS shows (DrawnWhereItStands).   *)
(*                                                                         *)
(* The audio rests on what the solver lets sound (Audible), on an order    *)
(* that numbers what it sorts (Ranks), on the windows that merge_windows   *)
(* leaves apart from each other (MergesWindows), and on the segments       *)
(* between them, that follow each other without a gap (GainsFollow).       *)
(***************************************************************************)
EXTENDS Compilation, FiniteSetTheorems, WellFoundedInduction, NaturalsInduction, TLAPS

(***************************************************************************)
(* Sequences.                                                               *)

(* Induction, for a set of positions.                                      *)
LEMMA Positions ==
    ASSUME NEW n \in Nat, NEW P, n > 0 => 1 \in P,
           \A i \in 1 .. n - 1 : i \in P => i + 1 \in P
    PROVE  1 .. n \subseteq P
<1> DEFINE Wrong == (1 .. n) \ P
<1>1. SUFFICES ASSUME Wrong # {} PROVE FALSE
  OBVIOUS
<1>2. Wrong \subseteq Nat
  OBVIOUS
<1>3. PICK k \in Wrong : \A j \in Wrong : ~(<<j, k>> \in OpToRel(<, Nat))
  BY <1>1, <1>2, WFMin, NatLessThanWellFounded, Zenon
<1>4. k \in 1 .. n /\ k \notin P
  OBVIOUS
<1>5. \A j \in Nat : j < k => j \notin Wrong
  BY <1>2, <1>3, <1>4, Zenon DEF OpToRel
<1>6. k # 1 /\ k - 1 \in 1 .. n - 1
  BY <1>4
<1>7. k - 1 \in P
  BY <1>5, <1>6
<1> QED
  BY <1>4, <1>6, <1>7

(* The beginnings of a flattened sequence of sequences.                    *)
Beginnings(ss, f, n) == f = [i \in 1 .. n |-> IF i = 1 THEN ss[i] ELSE f[i - 1] \o ss[i]]

LEMMA BeginningsExist ==
    ASSUME NEW ss, NEW n \in Nat \ {0}
    PROVE  \E f : Beginnings(ss, f, n)
<1> DEFINE P == {m \in Nat : \E f : Beginnings(ss, f, m)}
<1>1. Beginnings(ss, [i \in 1 .. 1 |-> ss[i]], 1)
  BY DEF Beginnings
<1>2. ASSUME NEW m \in 1 .. n - 1, NEW f, Beginnings(ss, f, m)
      PROVE  \E g : Beginnings(ss, g, m + 1)
  <2> DEFINE g == [i \in 1 .. m + 1 |-> IF i = m + 1 THEN f[m] \o ss[m + 1] ELSE f[i]]
             e(h, i) == IF i = 1 THEN ss[i] ELSE h[i - 1] \o ss[i]
  <2>1. \A i \in 1 .. m : f[i] = e(f, i)
    <3>1. f = [i \in 1 .. m |-> e(f, i)]
      BY <1>2 DEF Beginnings
    <3> HIDE DEF e
    <3> QED
      BY <3>1
  <2>2. \A i \in 1 .. m + 1 : g[i] = e(g, i)
    <3> SUFFICES ASSUME NEW i \in 1 .. m + 1 PROVE g[i] = e(g, i)
      OBVIOUS
    <3>1. CASE i = m + 1
      <4>1. i - 1 = m /\ m \in 1 .. m + 1 /\ m # m + 1 /\ i # 1
        BY <3>1
      <4>2. g[m] = f[m] /\ g[i] = f[m] \o ss[m + 1]
        BY <3>1, <4>1
      <4> QED
        BY <3>1, <4>1, <4>2
    <3>2. CASE i = 1 /\ i # m + 1
      BY <2>1, <3>2
    <3>3. CASE i # 1 /\ i # m + 1
      <4>1. i - 1 \in 1 .. m /\ i - 1 # m + 1 /\ i \in 1 .. m
        BY <3>3
      <4>2. g[i] = f[i] /\ g[i - 1] = f[i - 1]
        BY <4>1
      <4> QED
        BY <2>1, <3>3, <4>1, <4>2
    <3> QED
      BY <3>1, <3>2, <3>3
  <2>3. g = [i \in 1 .. m + 1 |-> e(g, i)]
    <3>1. g = [i \in 1 .. m + 1 |-> g[i]]
      OBVIOUS
    <3> HIDE DEF g, e
    <3> QED
      BY <2>2, <3>1
  <2> QED
    BY <2>3 DEF Beginnings
<1>3. 1 \in P /\ \A m \in 1 .. n - 1 : m \in P => m + 1 \in P
  BY <1>1, <1>2
<1> HIDE DEF P
<1>4. n \in P
  BY <1>3, Positions
<1> QED
  BY <1>4 DEF P

(* What FlattenSeq of the community modules computes.                      *)
LEMMA Flattens ==
    ASSUME NEW ss, Len(ss) \in Nat \ {0}
    PROVE  \E f : /\ f[1] = ss[1]
                  /\ \A i \in 2 .. Len(ss) : f[i] = f[i - 1] \o ss[i]
                  /\ FlattenSeq(ss) = f[Len(ss)]
<1>1. \E f : Beginnings(ss, f, Len(ss))
  BY BeginningsExist
<1> DEFINE f == CHOOSE f : Beginnings(ss, f, Len(ss))
           e(h, i) == IF i = 1 THEN ss[i] ELSE h[i - 1] \o ss[i]
<1>2. Beginnings(ss, f, Len(ss))
  BY <1>1
<1>3. FlattenSeq(ss) = f[Len(ss)]
  BY DEF FlattenSeq, Beginnings
<1> HIDE DEF f
<1>4. f = [i \in 1 .. Len(ss) |-> e(f, i)]
  BY <1>2 DEF Beginnings
<1> HIDE DEF e
<1>5. \A i \in 1 .. Len(ss) : f[i] = e(f, i)
  BY <1>4
<1>6. f[1] = ss[1]
  <2>1. 1 \in 1 .. Len(ss)
    OBVIOUS
  <2> QED
    BY <1>5, <2>1 DEF e
<1>7. ASSUME NEW i \in 2 .. Len(ss) PROVE f[i] = f[i - 1] \o ss[i]
  <2>1. i \in 1 .. Len(ss) /\ i # 1
    OBVIOUS
  <2> QED
    BY <1>5, <2>1 DEF e
<1> QED
  BY <1>3, <1>6, <1>7

(* It holds what its parts hold.                                            *)
LEMMA FlattenType ==
    ASSUME NEW S, NEW ss \in Seq(Seq(S))
    PROVE  FlattenSeq(ss) \in Seq(S)
<1>1. CASE Len(ss) = 0
  <2>1. ss = <<>> /\ <<>> \in Seq(S)
    BY <1>1
  <2>2. FlattenSeq(ss) = ss
    BY <1>1 DEF FlattenSeq
  <2> QED
    BY ONLY <2>1, <2>2
<1>2. CASE Len(ss) # 0
  <2>0. Len(ss) \in Nat \ {0}
    BY <1>2
  <2>1. PICK f : /\ f[1] = ss[1]
                 /\ \A i \in 2 .. Len(ss) : f[i] = f[i - 1] \o ss[i]
                 /\ FlattenSeq(ss) = f[Len(ss)]
    BY <2>0, Flattens
  <2> DEFINE P == {i \in Nat : f[i] \in Seq(S)}
  <2>2. 1 \in P
    BY <1>2, <2>1
  <2>3. ASSUME NEW i \in 1 .. Len(ss) - 1, f[i] \in Seq(S) PROVE f[i + 1] \in Seq(S)
    <3>1. i + 1 \in 2 .. Len(ss) /\ (i + 1) - 1 = i
      OBVIOUS
    <3>2. f[i + 1] = f[i] \o ss[i + 1]
      BY <2>1, <3>1
    <3> QED
      BY <2>3, <3>1, <3>2
  <2>4. \A i \in 1 .. Len(ss) - 1 : i \in P => i + 1 \in P
    BY <2>3
  <2> HIDE DEF P
  <2>5. 1 .. Len(ss) \subseteq P
    BY ONLY <2>0, <2>2, <2>4, Positions
  <2>6. Len(ss) \in P
    BY ONLY <2>0, <2>5
  <2> QED
    BY <2>1, <2>6 DEF P
<1> QED
  BY <1>1, <1>2

(* Parts of one element each.                                               *)
LEMMA FlattenSingles ==
    ASSUME NEW S, NEW ss \in Seq(Seq(S)), \A i \in 1 .. Len(ss) : Len(ss[i]) = 1
    PROVE  Len(FlattenSeq(ss)) = Len(ss)
<1>1. CASE Len(ss) = 0
  BY <1>1 DEF FlattenSeq
<1>2. CASE Len(ss) # 0
  <2>0. Len(ss) \in Nat \ {0}
    BY <1>2
  <2>1. PICK f : /\ f[1] = ss[1]
                 /\ \A i \in 2 .. Len(ss) : f[i] = f[i - 1] \o ss[i]
                 /\ FlattenSeq(ss) = f[Len(ss)]
    BY <2>0, Flattens
  <2> DEFINE P == {i \in Nat : f[i] \in Seq(S) /\ Len(f[i]) = i}
  <2>2. 1 \in P
    BY <1>2, <2>1
  <2>3. ASSUME NEW i \in 1 .. Len(ss) - 1, f[i] \in Seq(S), Len(f[i]) = i
        PROVE  f[i + 1] \in Seq(S) /\ Len(f[i + 1]) = i + 1
    <3>1. i + 1 \in 2 .. Len(ss) /\ (i + 1) - 1 = i
      OBVIOUS
    <3>2. f[i + 1] = f[i] \o ss[i + 1]
      BY <2>1, <3>1
    <3>3. ss[i + 1] \in Seq(S) /\ Len(ss[i + 1]) = 1
      BY <3>1
    <3>4. \A s, t \in Seq(S) : s \o t \in Seq(S) /\ Len(s \o t) = Len(s) + Len(t)
      OBVIOUS
    <3> QED
      BY ONLY <2>3, <3>2, <3>3, <3>4
  <2>4. \A i \in 1 .. Len(ss) - 1 : i \in P => i + 1 \in P
    BY <2>3
  <2> HIDE DEF P
  <2>5. 1 .. Len(ss) \subseteq P
    BY ONLY <2>0, <2>2, <2>4, Positions
  <2>6. Len(ss) \in P
    BY ONLY <2>0, <2>5
  <2> QED
    BY <2>1, <2>6 DEF P
<1> QED
  BY <1>1, <1>2

(* A set of no or one element as a sequence.                               *)
LEMMA SingleSequence ==
    ASSUME NEW x
    PROVE  SetToSeq({x}) = <<x>>
<1>1. Cardinality({x}) = 1
  BY FS_Singleton
<1>2. \A f \in [1 .. 1 -> {x}] : f = <<x>>
  <2> SUFFICES ASSUME NEW f \in [1 .. 1 -> {x}] PROVE f = <<x>>
    OBVIOUS
  <2>1. f = [i \in 1 .. 1 |-> f[i]] /\ \A i \in 1 .. 1 : f[i] = x
    OBVIOUS
  <2> QED
    BY <2>1
<1>3. <<x>> \in [1 .. 1 -> {x}] /\ IsInjective(<<x>>)
  BY DEF IsInjective
<1> QED
  BY <1>1, <1>2, <1>3 DEF SetToSeq

LEMMA EmptySequence == SetToSeq({}) = <<>>
<1>1. Cardinality({}) = 0
  BY FS_EmptySet
<1>2. \A f \in [1 .. 0 -> {}] : f = <<>>
  OBVIOUS
<1>3. <<>> \in [1 .. 0 -> {}] /\ IsInjective(<<>>)
  BY DEF IsInjective
<1> QED
  BY <1>1, <1>2, <1>3 DEF SetToSeq

(***************************************************************************)
(* What is authored, and what becomes of it at an interval.                *)

LEMMA MediaFramesType ==
    ASSUME NEW media, IsMedia(media), MediaFaults(media) = {}
    PROVE  /\ MediaFrames(media) \in Nat
           /\ media.delay \in Nat /\ media.delay + MediaFrames(media) <= MaxFrame
<1>1. \A a \in Nat, b \in Nat \ {0} : CeilDiv(a, b) \in Nat
  <2> SUFFICES ASSUME NEW a \in Nat, NEW b \in Nat \ {0} PROVE CeilDiv(a, b) \in Nat
    OBVIOUS
  <2>1. a + b - 1 \in Nat
    OBVIOUS
  <2>2. \A n \in Nat : n \div b \in Nat
    OBVIOUS
  <2> QED
    BY <2>1, <2>2 DEF CeilDiv
<1>2. \A a, b \in Nat : a * b \in Nat
  OBVIOUS
<1>3. \A a, b \in Nat \ {0} : a * b \in Nat \ {0}
  OBVIOUS
<1>4. ASSUME media.kind = "video" PROVE FramesForMedia(media.treatment) \in Nat
  <2> DEFINE t == media.treatment
  <2>0. IsTreatment(t) /\ ~IntervalOutsideAsset(t)
    <3>1. media.source = "ok"
      BY DEF MediaFaults
    <3> QED
      BY <1>4, <3>1 DEF IsMedia, MediaFaults
  <2>1. IsTreatment(t) /\ t.start < t.end
    BY <2>0 DEF IntervalOutsideAsset, IsTreatment
  <2> HIDE DEF t
  <2>2. t.end - t.start \in Nat /\ {t.speed.den, t.plays, t.hold, t.speed.num} \subseteq Nat
    BY <2>1 DEF IsTreatment
  <2>3. OutputRate.num \in Nat /\ OutputRate.den \in Nat \ {0} /\ NanosPerSecond \in Nat \ {0}
        /\ t.speed.num \in Nat \ {0}
    BY <2>1, MediaTimeAssumption DEF IsTreatment
  <2>4. PlaybackNumerator(t) \in Nat /\ t.hold * OutputRate.num * t.speed.num \in Nat
    BY ONLY <1>2, <2>2, <2>3, Zenon DEF PlaybackNumerator
  <2>5. PlaybackDenominator(t) \in Nat \ {0}
    BY ONLY <1>3, <2>3, Zenon DEF PlaybackDenominator
  <2>6. PlaybackNumerator(t) + t.hold * OutputRate.num * t.speed.num \in Nat
    BY ONLY <2>4, \A a, b \in Nat : a + b \in Nat, Zenon
  <2> QED
    BY ONLY <1>1, <2>5, <2>6 DEF FramesForMedia, t
<1>5. MediaFrames(media) \in Nat
  BY <1>4 DEF MediaFrames, IsMedia
<1>6. Converts(media.delay + MediaFrames(media))
  BY DEF MediaFaults, Report
<1> QED
  BY <1>5, <1>6 DEF Converts, IsMedia

(* The duration of a shot is that of its longest primary content.          *)
LEMMA DurationBounds ==
    ASSUME NEW authored \in AuthoredShots, NEW d \in ShotDuration(authored)
    PROVE  /\ d \in Nat
           /\ \A c \in Usable(authored) : IsPrimary(c) =>
                MediaFrames(c) \in Nat /\ c.delay \in Nat /\ c.delay + MediaFrames(c) <= d
<1>1. \A c \in Usable(authored) : IsPrimary(c) => IsMedia(c) /\ MediaFaults(c) = {}
  BY AuthoredAssumption DEF Usable
<1>2. \A c \in Usable(authored) : IsPrimary(c) => MediaFrames(c) \in Nat /\ c.delay \in Nat
  BY <1>1, MediaFramesType
<1>3. CASE PrimaryEnds(authored) = {}
  <2>1. d \in authored.duration
    BY <1>3 DEF ShotDuration, Explicit
  <2>2. authored.duration \subseteq Nat
    BY AuthoredAssumption DEF IsOptional
  <2>3. \A c \in Usable(authored) : ~IsPrimary(c)
    BY <1>3 DEF PrimaryEnds
  <2> QED
    BY <2>1, <2>2, <2>3
<1>4. CASE PrimaryEnds(authored) # {}
  <2>1. d \in PrimaryEnds(authored) /\ \A m \in PrimaryEnds(authored) : m <= d
    BY <1>4 DEF ShotDuration
  <2>2. \A c \in Usable(authored) : IsPrimary(c) => c.delay + MediaFrames(c) <= d
    BY <2>1 DEF PrimaryEnds
  <2>3. PICK c \in Usable(authored) : IsPrimary(c) /\ d = c.delay + MediaFrames(c)
    BY <2>1 DEF PrimaryEnds
  <2>4. d \in Nat
    BY <1>2, <2>3
  <2> QED
    BY <1>2, <2>2, <2>4
<1> QED
  BY <1>3, <1>4

(* A nonempty set of frames has a last one.                                *)
LEMMA LastFrame ==
    ASSUME NEW S, S # {}, S \subseteq 0 .. MaxFrame
    PROVE  \E m \in S : \A n \in S : n <= m
<1> DEFINE D == {MaxFrame - n : n \in S}
<1>1. D # {} /\ D \subseteq Nat
  <2>1. \A n \in S : MaxFrame - n \in Nat
    BY SolveAssumption
  <2> QED
    BY <2>1
<1> HIDE DEF D
<1>2. PICK k \in D : \A j \in D : ~(<<j, k>> \in OpToRel(<, Nat))
  BY <1>1, WFMin, NatLessThanWellFounded, Zenon
<1>3. \A j \in D : ~(j < k)
  BY <1>1, <1>2, Zenon DEF OpToRel
<1>4. PICK m \in S : k = MaxFrame - m
  BY DEF D
<1>5. \A n \in S : ~(MaxFrame - n < MaxFrame - m)
  BY <1>3, <1>4 DEF D
<1> QED
  BY <1>5, SolveAssumption

(* A shot without a trustworthy duration has been reported.                *)
LEMMA MissingDurationIsReported ==
    ASSUME NEW authored \in AuthoredShots, ShotDuration(authored) = {}
    PROVE  PrepareFaults(authored) # {}
<1>0. DurationFaults(authored) \subseteq PrepareFaults(authored)
  BY DEF PrepareFaults
<1>1. PrimaryEnds(authored) \subseteq 0 .. MaxFrame
  <2>1. \A c \in Usable(authored) : IsPrimary(c) => IsMedia(c) /\ MediaFaults(c) = {}
    BY AuthoredAssumption DEF Usable
  <2>2. \A c \in Usable(authored) : IsPrimary(c) => c.delay + MediaFrames(c) \in 0 .. MaxFrame
    BY <2>1, MediaFramesType, SolveAssumption
  <2> QED
    BY <2>2 DEF PrimaryEnds
<1>2. PrimaryEnds(authored) = {}
  BY <1>1, LastFrame DEF ShotDuration
<1>3. Explicit(authored) = {}
  BY <1>2 DEF ShotDuration
<1>4. CASE authored.duration # {}
  <2>1. Overflow \in DurationFaults(authored)
    BY <1>3, <1>4 DEF DurationFaults, Report
  <2> QED
    BY <1>0, <2>1
<1>5. CASE authored.duration = {} /\ \A c \in Range(authored.content) : ~IsPrimary(c)
  <2>1. "MissingDurationSource" \in DurationFaults(authored)
    BY <1>5 DEF DurationFaults, Report
  <2> QED
    BY <1>0, <2>1
<1>6. CASE \E c \in Range(authored.content) : IsPrimary(c)
  <2>1. PICK c \in Range(authored.content) : IsPrimary(c)
    BY <1>6
  <2>2. MediaFaults(c) # {}
    BY <1>2, <2>1 DEF PrimaryEnds, Usable
  <2> QED
    BY <2>1, <2>2 DEF PrepareFaults
<1> QED
  BY <1>4, <1>5, <1>6

(* Elements are lowered to elements of what they may become...             *)
LEMMA LoweredType ==
    ASSUME NEW E, NEW elements \in Seq(E), NEW S, NEW lower,
           \A e \in DOMAIN lower : lower[e] = {} \/ \E x \in S : lower[e] = {x}
    PROVE  Lowered(elements, lower) \in Seq(S)
<1> DEFINE part(i) == IF elements[i] \in DOMAIN lower THEN SetToSeq(lower[elements[i]]) ELSE <<>>
           parts == [i \in DOMAIN elements |-> part(i)]
<1>1. ASSUME NEW i \in DOMAIN elements PROVE part(i) \in Seq(S)
  <2>1. \A x \in S : <<x>> \in Seq(S)
    OBVIOUS
  <2>2. CASE elements[i] \notin DOMAIN lower
    BY <2>2
  <2>3. CASE elements[i] \in DOMAIN lower /\ lower[elements[i]] = {}
    <3>1. part(i) = <<>>
      BY <2>3, EmptySequence, Zenon
    <3> HIDE DEF part
    <3> QED
      BY <3>1
  <2>4. ASSUME NEW x \in S, elements[i] \in DOMAIN lower, lower[elements[i]] = {x}
        PROVE  part(i) \in Seq(S)
    BY <2>1, <2>4, SingleSequence
  <2> QED
    BY <2>2, <2>3, <2>4
<1> HIDE DEF part
<1>2. DOMAIN elements = 1 .. Len(elements) /\ Len(elements) \in Nat
  OBVIOUS
<1>3. parts \in Seq(Seq(S))
  BY <1>1, <1>2
<1>4. FlattenSeq(parts) \in Seq(S)
  BY <1>3, FlattenType
<1> QED
  BY <1>4 DEF Lowered, part

(* ... and none is lost if each becomes something.                         *)
LEMMA LoweredAll ==
    ASSUME NEW E, NEW elements \in Seq(E), NEW S, NEW lower,
           \A i \in DOMAIN elements :
             elements[i] \in DOMAIN lower /\ \E x \in S : lower[elements[i]] = {x}
    PROVE  Len(Lowered(elements, lower)) = Len(elements)
<1> DEFINE part(i) == IF elements[i] \in DOMAIN lower THEN SetToSeq(lower[elements[i]]) ELSE <<>>
           parts == [i \in DOMAIN elements |-> part(i)]
<1>1. ASSUME NEW i \in DOMAIN elements PROVE part(i) \in Seq(S) /\ Len(part(i)) = 1
  <2>1. \A x \in S : <<x>> \in Seq(S) /\ Len(<<x>>) = 1
    OBVIOUS
  <2>2. PICK x \in S : elements[i] \in DOMAIN lower /\ lower[elements[i]] = {x}
    OBVIOUS
  <2>3. part(i) = <<x>>
    BY <2>2, SingleSequence
  <2> QED
    BY <2>1, <2>3
<1> HIDE DEF part
<1>2. DOMAIN elements = 1 .. Len(elements) /\ Len(elements) \in Nat
  OBVIOUS
<1>3. parts \in Seq(Seq(S)) /\ Len(parts) = Len(elements) /\ \A i \in 1 .. Len(parts) : Len(parts[i]) = 1
  BY <1>1, <1>2
<1>4. Len(FlattenSeq(parts)) = Len(elements)
  BY <1>3, FlattenSingles
<1> QED
  BY <1>4 DEF Lowered, part

(* Inside of a placed shot.                                                *)
Within(x, at) ==
  /\ x.kind \in {"video", "voice", "overlay"} /\ x.at = Interval(x.at.start, x.at.end)
  /\ x.at.start \in Nat /\ x.at.end \in Nat
  /\ at.start <= x.at.start /\ x.at.start <= x.at.end /\ x.at.end <= at.end

LEMMA LoweredContent ==
    ASSUME NEW authored \in AuthoredShots, NEW d \in ShotDuration(authored), NEW start \in Nat,
           IsOptional(events, Nat), NEW c \in Usable(authored),
           NEW at, at = Interval(start, start + d)
    PROVE  /\ LowerContent(c, at) = {} \/ \E x : Within(x, at) /\ LowerContent(c, at) = {x}
           /\ ContentFaults(c, at) = {} /\ (c.cued => events # {}) => LowerContent(c, at) # {}
<1>1. d \in Nat
  BY DurationBounds
<1>2. IsMedia(c) /\ c.kind \in {"video", "voice", "overlay"} /\ c.delay \in Nat
  BY AuthoredAssumption DEF Usable, IsMedia
<1> DEFINE placed(i) == [kind |-> c.kind, at |-> i, asset |-> c.asset, treatment |-> c.treatment,
                         gain |-> c.gain, fadeIn |-> c.fadeIn, fadeOut |-> c.fadeOut]
<1>3. \A I : Placed(c, I) = {placed(i) : i \in I}
  BY DEF Placed
<1>4. \A i : placed(i).kind = c.kind /\ placed(i).at = i
  OBVIOUS
<1> HIDE DEF placed
<1>5. CASE ContentFaults(c, at) # {}
  <2>1. LowerContent(c, at) = {}
    BY <1>3, <1>5 DEF LowerContent
  <2> QED
    BY <1>5, <2>1
<1>6. CASE ContentFaults(c, at) = {} /\ IsPrimary(c)
  <2> DEFINE i == MediaInterval(c, at)
  <2>1. LowerContent(c, at) = {placed(i)}
    BY <1>3, <1>6 DEF LowerContent
  <2>2. MediaFrames(c) \in Nat /\ c.delay + MediaFrames(c) <= d
    BY <1>6, DurationBounds
  <2>3. Within(placed(i), at)
    BY <1>1, <1>2, <1>4, <2>2 DEF Within, MediaInterval, Interval
  <2> QED
    BY <1>6, <2>1, <2>3
<1>7. CASE ContentFaults(c, at) = {} /\ ~IsPrimary(c)
  <2>1. c.kind = "overlay"
    BY <1>7 DEF IsPrimary
  <2>2. LowerContent(c, at) = {placed(Interval(n, at.end)) : n \in OverlayStart(c, at)}
    <3>1. LowerContent(c, at) = {placed(i) : i \in {Interval(n, at.end) : n \in OverlayStart(c, at)}}
      BY <1>3, <1>7 DEF LowerContent
    <3> QED
      BY <3>1
  <2>3. OverlayFaults(c, at) = {}
    BY <1>7, <2>1 DEF ContentFaults
  <2>4. \A n \in OverlayStart(c, at) : Covers(at, n)
    BY <2>3 DEF OverlayFaults, Report
  <2>5. ~c.cued => OverlayStart(c, at) # {}
    BY <2>3 DEF OverlayFaults, Report
  <2>6. c.cued => OverlayStart(c, at) = events
    BY DEF OverlayStart
  <2>7. IsOptional(OverlayStart(c, at), Nat)
    <3>1. CASE c.cued
      BY <2>6, <3>1
    <3>2. CASE ~c.cued
      <4>1. OverlayStart(c, at) \subseteq {start + c.delay}
        BY <3>2 DEF OverlayStart, Interval
      <4> QED
        BY <1>2, <4>1 DEF IsOptional
    <3> QED
      BY <3>1, <3>2
  <2>8. ASSUME NEW n \in OverlayStart(c, at)
        PROVE  /\ LowerContent(c, at) = {placed(Interval(n, at.end))}
               /\ Within(placed(Interval(n, at.end)), at)
    <3>1. LowerContent(c, at) = {placed(Interval(n, at.end))}
      BY <2>2, <2>7, <2>8 DEF IsOptional
    <3>2. n \in Nat /\ start <= n /\ n < start + d
      BY <2>4, <2>7 DEF Covers, Interval, IsOptional
    <3>3. Within(placed(Interval(n, at.end)), at)
      BY <1>1, <1>4, <2>1, <3>2 DEF Within, Interval
    <3> QED
      BY <3>1, <3>3
  <2>9. CASE OverlayStart(c, at) = {}
    <3>1. LowerContent(c, at) = {}
      BY <2>2, <2>9
    <3> QED
      BY <2>5, <2>6, <2>9, <3>1
  <2>10. CASE OverlayStart(c, at) # {}
    <3>1. PICK n \in OverlayStart(c, at) : TRUE
      BY <2>10
    <3> QED
      BY <2>8
  <2> QED
    BY <2>9, <2>10
<1> QED
  BY <1>5, <1>6, <1>7

LEMMA LoweredEffect ==
    ASSUME NEW authored \in AuthoredShots, NEW e \in Range(authored.effects), MediaFaults(e) = {},
           NEW at, at.start \in Nat, at.end \in 0 .. MaxFrame
    PROVE  /\ LowerEffect(e, at) = {}
              \/ \E x : x.at \in Intervals(0 .. MaxFrame) /\ LowerEffect(e, at) = {x}
           /\ EffectFaults(e, at) = {} => LowerEffect(e, at) # {}
<1> DEFINE placed(i) == [kind |-> e.kind, at |-> i, asset |-> e.asset, treatment |-> e.treatment,
                         gain |-> e.gain, fadeIn |-> e.fadeIn, fadeOut |-> e.fadeOut]
<1>1. \A I : Placed(e, I) = {placed(i) : i \in I}
  BY DEF Placed
<1>2. \A i : placed(i).at = i
  OBVIOUS
<1> HIDE DEF placed
<1>3. CASE EffectFaults(e, at) # {}
  BY <1>1, <1>3 DEF LowerEffect
<1>4. CASE EffectFaults(e, at) = {}
  <2> DEFINE i == MediaInterval(e, at)
  <2>1. LowerEffect(e, at) = {placed(i)}
    BY <1>1, <1>4 DEF LowerEffect
  <2>2. IsMedia(e)
    BY AuthoredAssumption
  <2>3. MediaFrames(e) \in Nat /\ e.delay \in Nat
    BY <2>2, MediaFramesType
  <2>4. ContainsInterval(at, i)
    BY <1>4 DEF EffectFaults
  <2> DEFINE a == at.start + e.delay
             b == at.start + e.delay + MediaFrames(e)
  <2>5. i = [start |-> a, end |-> b] /\ i.start = a /\ i.end = b
    BY DEF MediaInterval, Interval
  <2>6. a \in Nat /\ b \in Nat /\ a <= b /\ b <= at.end
    BY <2>3, <2>4, <2>5 DEF ContainsInterval
  <2>7. a \in 0 .. MaxFrame /\ b \in 0 .. MaxFrame
    BY <2>6, SolveAssumption
  <2> HIDE DEF a, b, i
  <2>8. i \in Intervals(0 .. MaxFrame)
    BY <2>5, <2>6, <2>7 DEF Intervals
  <2> QED
    BY <1>2, <2>1, <2>8
<1> QED
  BY <1>3, <1>4

(***************************************************************************)
(* The shots of a timeline, as a sequence.                                 *)

(* One shot: its transition lies at its start, its contents within it.     *)
IsShot(s) ==
    /\ s.at = Interval(s.at.start, s.at.end) /\ s.cut = Interval(s.at.start, s.cut.end)
    /\ s.at.start \in 0 .. MaxFrame /\ s.cut.end \in 0 .. MaxFrame /\ s.at.end \in 0 .. MaxFrame
    /\ s.cut.start = s.at.start
    /\ s.at.start <= s.cut.end /\ s.cut.end <= s.at.end
    /\ s.content \in Seq(Range(s.content))
    /\ \A x \in Range(s.content) : Within(x, s.at)

(* Two shots, the one before the other, and one right before the other.    *)
Precedes(s, t) == s.at.end <= t.cut.end /\ s.cut.end <= t.at.start

Adjoins(s, t) == s.at.end = t.cut.end /\ (IsEmpty(t.cut) \/ s.scene = t.scene)

(* The shots follow one another from the first frame on, and only          *)
(* neighbours meet.                                                        *)
Laid(line) ==
    /\ line \in Seq(Range(line))
    /\ \A i \in DOMAIN line : IsShot(line[i])
    /\ \A i, j \in DOMAIN line : i < j => Precedes(line[i], line[j])
    /\ \A i, j \in DOMAIN line : i + 1 = j => Adjoins(line[i], line[j])
    /\ \A i, j \in DOMAIN line : i + 1 < j => line[i].at.end <= line[j].at.start
    /\ line # <<>> => line[1].cut.end = 0

LEMMA AppendedSequence ==
    ASSUME NEW line, line \in Seq(Range(line)), NEW s
    PROVE  /\ Append(line, s) \in Seq(Range(Append(line, s)))
           /\ Len(line) \in Nat
           /\ Len(Append(line, s)) = Len(line) + 1
           /\ DOMAIN line = 1 .. Len(line)
           /\ DOMAIN Append(line, s) = 1 .. Len(line) + 1
           /\ \A i \in 1 .. Len(line) : Append(line, s)[i] = line[i]
           /\ Append(line, s)[Len(line) + 1] = s
           /\ \A i \in 1 .. Len(line) + 1 : i \in 1 .. Len(line) \/ i = Len(line) + 1
           /\ line = <<>> <=> Len(line) = 0
<1> DEFINE S == Range(line) \cup {s}
<1>1. line \in Seq(S) /\ s \in S
  BY DEF Range
<1> HIDE DEF S
<1>2. /\ Append(line, s) \in Seq(S)
      /\ Len(line) \in Nat
      /\ Len(Append(line, s)) = Len(line) + 1
      /\ DOMAIN line = 1 .. Len(line)
      /\ DOMAIN Append(line, s) = 1 .. Len(line) + 1
      /\ \A i \in 1 .. Len(line) : Append(line, s)[i] = line[i]
      /\ Append(line, s)[Len(line) + 1] = s
      /\ line = <<>> <=> Len(line) = 0
  BY <1>1
<1>3. \A t : t \in Seq(S) => t \in Seq(Range(t))
  BY DEF Range
<1>4. Append(line, s) \in Seq(Range(Append(line, s)))
  BY <1>2, <1>3
<1>5. \A i \in 1 .. Len(line) + 1 : i \in 1 .. Len(line) \/ i = Len(line) + 1
  BY <1>2
<1> QED
  BY <1>2, <1>4, <1>5, Zenon

LEMMA LaidAppend ==
    ASSUME NEW line, Laid(line), NEW s, IsShot(s),
           line = <<>> => s.cut.end = 0,
           line # <<>> => /\ Adjoins(line[Len(line)], s)
                          /\ line[Len(line)].cut.end <= s.at.start
    PROVE  Laid(Append(line, s))
<1> DEFINE n == Len(line)
           new == Append(line, s)
<1>1. /\ line \in Seq(Range(line))
      /\ \A i \in 1 .. n : IsShot(line[i])
      /\ \A i, j \in 1 .. n : i < j => Precedes(line[i], line[j])
      /\ \A i, j \in 1 .. n : i + 1 = j => Adjoins(line[i], line[j])
      /\ \A i, j \in 1 .. n : i + 1 < j => line[i].at.end <= line[j].at.start
      /\ line # <<>> => line[1].cut.end = 0
  <2>1. line \in Seq(Range(line)) => DOMAIN line = 1 .. n
    OBVIOUS
  <2> QED
    BY <2>1, Zenon DEF Laid
<1>2. /\ new \in Seq(Range(new)) /\ n \in Nat /\ DOMAIN new = 1 .. n + 1
      /\ \A i \in 1 .. n : new[i] = line[i]
      /\ new[n + 1] = s
      /\ \A i \in 1 .. n + 1 : i \in 1 .. n \/ i = n + 1
      /\ line = <<>> <=> n = 0
  BY <1>1, AppendedSequence
<1>3. \A i \in 1 .. n + 1 : IsShot(new[i])
  BY <1>1, <1>2
<1>4. ASSUME NEW i \in 1 .. n
      PROVE  /\ Precedes(line[i], s)
             /\ i + 1 = n + 1 => Adjoins(line[i], s)
             /\ i + 1 < n + 1 => line[i].at.end <= s.at.start
  <2>1. n \in 1 .. n /\ line # <<>> /\ IsShot(line[i]) /\ IsShot(line[n])
    BY <1>1, <1>2
  <2>2. CASE i = n
    BY <1>2, <2>1, <2>2 DEF Adjoins, Precedes, IsShot
  <2>3. CASE i # n
    <3>1. i < n /\ Precedes(line[i], line[n])
      BY <1>1, <1>2, <2>1, <2>3
    <3>2. line[i].at.end <= line[n].cut.end /\ line[n].cut.end <= s.at.start
      BY <2>1, <3>1 DEF Precedes
    <3> QED
      <4>1. line[n].at.end = s.cut.end
        BY <2>1 DEF Adjoins
      <4>2. /\ line[i].at.end \in Nat /\ line[i].cut.end \in Nat /\ line[i].cut.end <= line[i].at.end
            /\ line[n].cut.end \in Nat /\ line[n].at.end \in Nat /\ line[n].cut.end <= line[n].at.end
            /\ s.at.start \in Nat
        BY <2>1, SolveAssumption, SMTT(30) DEF IsShot
      <4>3. line[i].at.end <= s.at.start /\ line[i].cut.end <= s.at.start
        BY ONLY <3>2, <4>2
      <4>4. line[i].at.end <= s.cut.end
        BY ONLY <3>2, <4>1, <4>2
      <4>5. i + 1 # n + 1
        BY <1>2, <2>3
      <4> QED
        BY ONLY <4>3, <4>4, <4>5 DEF Precedes
  <2> QED
    BY <2>2, <2>3
<1> HIDE DEF n, new
<1>5. \A i, j \in 1 .. n + 1 : i < j => Precedes(new[i], new[j])
  BY <1>1, <1>2, <1>4, SMTT(30)
<1>6. \A i, j \in 1 .. n + 1 : i + 1 = j => Adjoins(new[i], new[j])
  BY <1>1, <1>2, <1>4, SMTT(30)
<1>7. \A i, j \in 1 .. n + 1 : i + 1 < j => new[i].at.end <= new[j].at.start
  <2> SUFFICES ASSUME NEW i \in 1 .. n + 1, NEW j \in 1 .. n + 1, i + 1 < j
               PROVE  new[i].at.end <= new[j].at.start
    OBVIOUS
  <2>1. i \in 1 .. n
    BY <1>2
  <2>2. CASE j \in 1 .. n
    BY <1>1, <1>2, <2>1, <2>2
  <2>3. CASE j = n + 1
    BY <1>2, <1>4, <2>1, <2>3
  <2> QED
    BY <1>2, <2>2, <2>3
<1>8. new[1].cut.end = 0
  BY <1>1, <1>2
<1> QED
  BY <1>2, <1>3, <1>5, <1>6, <1>7, <1>8 DEF Laid, new

(* Shots meet in a transition between neighbours of one scene only.        *)
LEMMA OnlyNeighboursMeet ==
    ASSUME NEW line, Laid(line), NEW i \in DOMAIN line, NEW j \in DOMAIN line, i < j,
           Intersects(line[i].at, line[j].at)
    PROVE  j = i + 1 /\ line[i].scene = line[j].scene /\ ~IsEmpty(line[j].cut)
<1>1. i \in Nat /\ j \in Nat
  BY DEF Laid
<1>2. IsShot(line[i]) /\ IsShot(line[j])
  BY DEF Laid
<1>3. line[j].at.start < line[i].at.end
  BY DEF Intersects
<1>4. ~(i + 1 < j)
  <2>1. ASSUME i + 1 < j PROVE line[i].at.end <= line[j].at.start
    BY <2>1 DEF Laid
  <2> QED
    BY <1>2, <1>3, <2>1 DEF IsShot
<1>5. j = i + 1
  BY <1>1, <1>4
<1>6. Adjoins(line[i], line[j])
  BY <1>5 DEF Laid
<1>7. ~IsEmpty(line[j].cut)
  BY <1>2, <1>3, <1>6 DEF Adjoins, IsShot, IsEmpty
<1> QED
  BY <1>5, <1>6, <1>7 DEF Adjoins

(* Voice-overs of two shots meet only where the shots do.                  *)
LEMMA VoicesMeetInShots ==
    ASSUME NEW s, IsShot(s), NEW t, IsShot(t), SpeakTogether(s, t)
    PROVE  Intersects(s.at, t.at) /\ SpeakTogether(t, s)
<1>1. PICK a \in VoiceOvers(s), b \in VoiceOvers(t) : Intersects(a, b)
  BY DEF SpeakTogether
<1>2. Intersects(b, a)
  BY <1>1 DEF Intersects
<1>3. PICK x \in Range(s.content) : a = x.at
  BY <1>1 DEF VoiceOvers
<1>4. PICK y \in Range(t.content) : b = y.at
  BY <1>1 DEF VoiceOvers
<1>5. Within(x, s.at) /\ Within(y, t.at)
  BY <1>3, <1>4 DEF IsShot
<1>6. Intersects(s.at, t.at)
  <2>1. /\ a.start \in Nat /\ a.end \in Nat /\ s.at.start <= a.start /\ a.end <= s.at.end
        /\ b.start \in Nat /\ b.end \in Nat /\ t.at.start <= b.start /\ b.end <= t.at.end
        /\ a.start <= a.end /\ b.start <= b.end
    BY <1>3, <1>4, <1>5 DEF Within
  <2>2. a.start # a.end /\ b.start # b.end /\ a.start < b.end /\ b.start < a.end
    BY <1>1 DEF Intersects, IsEmpty
  <2>3. s.at.start \in Nat /\ s.at.end \in Nat /\ t.at.start \in Nat /\ t.at.end \in Nat
    BY DEF IsShot
  <2>4. /\ s.at.start # s.at.end /\ t.at.start # t.at.end
        /\ s.at.start < t.at.end /\ t.at.start < s.at.end
    BY ONLY <2>1, <2>2, <2>3
  <2> QED
    BY <2>4 DEF Intersects, IsEmpty
<1> QED
  BY <1>1, <1>2, <1>6 DEF SpeakTogether

(* No two shots speak at once.                                             *)
Quiet(line) == \A i, j \in DOMAIN line : i < j => ~SpeakTogether(line[i], line[j])

LEMMA QuietAppend ==
    ASSUME NEW line, Laid(line), Quiet(line), NEW s, IsShot(s), Laid(Append(line, s)),
           line # <<>> /\ ~IsEmpty(s.cut) /\ line[Len(line)].scene = s.scene
             => ~SpeakTogether(line[Len(line)], s)
    PROVE  Quiet(Append(line, s))
<1> DEFINE n == Len(line)
           new == Append(line, s)
<1>1. /\ n \in Nat /\ DOMAIN new = 1 .. n + 1 /\ DOMAIN line = 1 .. n
      /\ \A i \in 1 .. n : new[i] = line[i]
      /\ new[n + 1] = s
      /\ \A i \in 1 .. n + 1 : i \in 1 .. n \/ i = n + 1
      /\ line = <<>> <=> n = 0
  BY AppendedSequence DEF Laid
<1>2. ASSUME NEW i \in 1 .. n, SpeakTogether(line[i], s) PROVE FALSE
  <2>1. IsShot(line[i])
    BY <1>1 DEF Laid
  <2>2. Intersects(line[i].at, s.at)
    BY <1>2, <2>1, VoicesMeetInShots
  <2>3. i \in DOMAIN new /\ n + 1 \in DOMAIN new /\ i < n + 1 /\ new[i] = line[i]
    BY <1>1
  <2>4. n + 1 = i + 1 /\ line[i].scene = s.scene /\ ~IsEmpty(s.cut)
    BY <1>1, <2>2, <2>3, OnlyNeighboursMeet, ZenonT(30)
  <2> HIDE DEF n
  <2>5. i = n /\ line # <<>>
    BY <1>1, <2>4
  <2> USE DEF n
  <2> QED
    BY <1>2, <2>4, <2>5
<1>3. \A i, j \in 1 .. n : i < j => ~SpeakTogether(line[i], line[j])
  BY <1>1 DEF Quiet
<1> HIDE DEF n, new
<1>4. \A i, j \in 1 .. n + 1 : i < j => ~SpeakTogether(new[i], new[j])
  BY <1>1, <1>2, <1>3
<1> QED
  BY <1>1, <1>4 DEF Quiet, new

(***************************************************************************)
(* Placing one shot.                                                       *)

(* The cursor stands behind the last shot.                                 *)
AtEnd == cursor = IF shots = <<>> THEN 0 ELSE shots[Len(shots)].at.end

(* Where the shot starts: at the cursor, or a transition earlier.          *)
LEMMA StartOfShot ==
    ASSUME Laid(shots), AtEnd, cursor \in 0 .. MaxFrame,
           NEW authored \in AuthoredShots, NEW d \in Nat
    PROVE  LET start == Start(authored, d) IN
           /\ start \in 0 .. MaxFrame /\ start <= cursor /\ cursor <= start + d
           /\ shots # <<>> => shots[Len(shots)].cut.end <= start
           /\ start # cursor => shots # <<>> /\ shots[Len(shots)].scene = Len(scenes)
           /\ (CutFaults(authored, d) = {} /\ \A n \in authored.cut : Converts(n))
                => (start # cursor <=> authored.cut # {})
<1> DEFINE fitting == {n \in authored.cut : Converts(n) /\ CutFits(n, d)}
           start == Start(authored, d)
           final == shots[Len(shots)]
<1>1. start = IF fitting = {} THEN cursor ELSE cursor - CHOOSE n \in fitting : TRUE
  BY DEF Start
<1>2. shots # <<>> => Len(shots) \in DOMAIN shots /\ IsShot(final) /\ cursor = final.at.end
  BY DEF Laid, AtEnd
<1>3. authored.cut \subseteq Nat \ {0}
  BY AuthoredAssumption DEF IsOptional
<1>4. ASSUME NEW n \in fitting
      PROVE  /\ shots # <<>> /\ final.scene = Len(scenes)
             /\ n \in Nat \ {0} /\ n <= Span(final.at) /\ n <= d /\ final.cut.end <= cursor - n
  <2>1. PICK p \in Previous : n <= Span(p.at) /\ n <= d /\ cursor - n >= p.cut.end
    BY DEF CutFits
  <2>2. p = final /\ p.scene = Len(scenes) /\ p \in Range(shots)
    BY <2>1 DEF Previous, Last
  <2>3. shots # <<>>
    BY <2>2 DEF Range, Laid
  <2>4. final.cut.end \in Nat /\ cursor \in Nat /\ n \in Nat \ {0}
    BY <1>2, <1>3, <2>3 DEF IsShot
  <2> QED
    BY <2>1, <2>2, <2>3, <2>4
<1>5. CutFaults(authored, d) = {} => \A n \in authored.cut : Converts(n) => CutFits(n, d)
  BY DEF CutFaults, Report
<1> HIDE DEF fitting, start, final
<1>6. CASE fitting = {}
  <2>1. start = cursor
    BY <1>1, <1>6
  <2>2. shots # <<>> => final.cut.end <= start
    BY <1>2, <2>1 DEF IsShot
  <2>3. (CutFaults(authored, d) = {} /\ \A n \in authored.cut : Converts(n)) => authored.cut = {}
    BY <1>5, <1>6 DEF fitting
  <2>4. cursor <= start + d
    BY <2>1
  <2> QED
    BY <2>1, <2>2, <2>3, <2>4 DEF start, final
<1>7. CASE fitting # {}
  <2>1. PICK n \in fitting : start = cursor - n
    BY <1>1, <1>7
  <2>2. /\ shots # <<>> /\ final.scene = Len(scenes)
        /\ n \in Nat \ {0} /\ n <= Span(final.at) /\ n <= d /\ final.cut.end <= cursor - n
    BY <1>4
  <2>3. /\ cursor \in Nat /\ cursor <= MaxFrame /\ final.at.start \in Nat
        /\ cursor = final.at.end /\ Span(final.at) = final.at.end - final.at.start
    BY <1>2, <2>2 DEF IsShot, Span
  <2>4. start \in 0 .. MaxFrame /\ start <= cursor /\ cursor <= start + d /\ start # cursor
    BY <2>1, <2>2, <2>3, SolveAssumption, SMTT(30)
  <2>5. authored.cut # {}
    BY DEF fitting
  <2> QED
    BY <2>1, <2>2, <2>4, <2>5 DEF start, final
<1> QED
  BY <1>6, <1>7

(* The placed shot.                                                        *)
ShotAt(authored, d) == Interval(Start(authored, d), Start(authored, d) + d)

ContentAt(authored, d) == [c \in Usable(authored) |-> LowerContent(c, ShotAt(authored, d))]

ShotOf(authored, d) ==
    [scene |-> Len(scenes), at |-> ShotAt(authored, d),
     cut |-> Interval(Start(authored, d), cursor),
     content |-> Lowered(authored.content, ContentAt(authored, d))]

EffectsAt(authored, d) ==
    [e \in {x \in Range(authored.effects) : MediaFaults(x) = {}} |-> LowerEffect(e, ShotAt(authored, d))]

LEMMA PlacesAShot ==
    ASSUME NEW authored, PlaceShot(authored)
    PROVE  \E d \in ShotDuration(authored) :
             /\ Start(authored, d) + d <= MaxFrame
             /\ cursor' = Start(authored, d) + d
             /\ shots' = Append(shots, ShotOf(authored, d))
             /\ scenes' = [scenes EXCEPT ![Len(scenes)].end = Start(authored, d) + d]
             /\ effects' = effects \o Lowered(authored.effects, EffectsAt(authored, d))
             /\ diagnostics \subseteq diagnostics'
             /\ diagnostics' = {} =>
                  /\ PrepareFaults(authored) = {} /\ CutFaults(authored, d) = {}
                  /\ \A c \in Usable(authored) : ContentFaults(c, ShotAt(authored, d)) = {}
                  /\ \A e \in Range(authored.effects) :
                       MediaFaults(e) = {} => EffectFaults(e, ShotAt(authored, d)) = {}
                  /\ ~IsEmpty(ShotOf(authored, d).cut) =>
                       \A p \in Previous : ~SpeakTogether(p, ShotOf(authored, d))
<1>1. PICK d \in ShotDuration(authored) :
        /\ Converts(ShotAt(authored, d).end)
        /\ cursor' = ShotAt(authored, d).end
        /\ shots' = Append(shots, ShotOf(authored, d))
        /\ scenes' = [scenes EXCEPT ![Len(scenes)].end = ShotAt(authored, d).end]
        /\ effects' = effects \o Lowered(authored.effects, EffectsAt(authored, d))
        /\ diagnostics' =
             diagnostics \cup PrepareFaults(authored) \cup CutFaults(authored, d)
             \cup (UNION {ContentFaults(c, ShotAt(authored, d)) : c \in Usable(authored)})
             \cup (UNION {EffectFaults(e, ShotAt(authored, d)) :
                            e \in {x \in Range(authored.effects) : MediaFaults(x) = {}}})
             \cup Report(~IsEmpty(ShotOf(authored, d).cut)
                           /\ \E p \in Previous : SpeakTogether(p, ShotOf(authored, d)),
                         "TransitionVoiceOverOverlap")
  BY DEF PlaceShot, ShotAt, ShotOf, ContentAt, EffectsAt
<1>2. ShotAt(authored, d).end = Start(authored, d) + d
  BY DEF ShotAt, Interval
<1>3. diagnostics \subseteq diagnostics'
  BY <1>1
<1>4. ASSUME diagnostics' = {}
      PROVE  /\ PrepareFaults(authored) = {} /\ CutFaults(authored, d) = {}
             /\ \A c \in Usable(authored) : ContentFaults(c, ShotAt(authored, d)) = {}
             /\ \A e \in Range(authored.effects) :
                  MediaFaults(e) = {} => EffectFaults(e, ShotAt(authored, d)) = {}
             /\ ~IsEmpty(ShotOf(authored, d).cut) =>
                  \A p \in Previous : ~SpeakTogether(p, ShotOf(authored, d))
  <2> DEFINE C == UNION {ContentFaults(c, ShotAt(authored, d)) : c \in Usable(authored)}
             E == UNION {EffectFaults(e, ShotAt(authored, d)) :
                            e \in {x \in Range(authored.effects) : MediaFaults(x) = {}}}
             R == Report(~IsEmpty(ShotOf(authored, d).cut)
                           /\ \E p \in Previous : SpeakTogether(p, ShotOf(authored, d)),
                         "TransitionVoiceOverOverlap")
  <2>1. diagnostics' = diagnostics \cup PrepareFaults(authored) \cup CutFaults(authored, d)
                         \cup C \cup E \cup R
    BY <1>1
  <2> HIDE DEF C, E, R
  <2>2. PrepareFaults(authored) = {} /\ CutFaults(authored, d) = {} /\ C = {} /\ E = {} /\ R = {}
    BY <1>4, <2>1
  <2>3. \A c \in Usable(authored) : ContentFaults(c, ShotAt(authored, d)) = {}
    BY <2>2 DEF C
  <2>4. \A e \in Range(authored.effects) :
          MediaFaults(e) = {} => EffectFaults(e, ShotAt(authored, d)) = {}
    BY <2>2 DEF E
  <2>5. ~IsEmpty(ShotOf(authored, d).cut) => \A p \in Previous : ~SpeakTogether(p, ShotOf(authored, d))
    BY <2>2 DEF R, Report
  <2> QED
    BY <2>2, <2>3, <2>4, <2>5
<1> QED
  BY <1>1, <1>2, <1>3, <1>4 DEF Converts

LEMMA PlacedShot ==
    ASSUME Laid(shots), AtEnd, cursor \in 0 .. MaxFrame, IsOptional(events, 0 .. MaxFrame),
           NEW authored \in AuthoredShots, NEW d \in ShotDuration(authored),
           Start(authored, d) + d <= MaxFrame
    PROVE  IsShot(ShotOf(authored, d)) /\ Laid(Append(shots, ShotOf(authored, d)))
<1> DEFINE s == ShotOf(authored, d)
           start == Start(authored, d)
<1>1. d \in Nat
  BY DurationBounds
<1>2. /\ start \in 0 .. MaxFrame /\ start <= cursor /\ cursor <= start + d
      /\ shots # <<>> => shots[Len(shots)].cut.end <= start
      /\ start # cursor => shots # <<>> /\ shots[Len(shots)].scene = Len(scenes)
  BY <1>1, StartOfShot
<1>3. /\ s.at = Interval(start, start + d) /\ s.cut = Interval(start, cursor)
      /\ s.at.start = start /\ s.at.end = start + d /\ s.cut.start = start /\ s.cut.end = cursor
      /\ s.scene = Len(scenes) /\ s.content = Lowered(authored.content, ContentAt(authored, d))
  BY DEF ShotOf, ShotAt, Interval
<1> DEFINE S == {x \in UNION {ContentAt(authored, d)[c] : c \in Usable(authored)} : Within(x, s.at)}
<1>4. \A c \in DOMAIN ContentAt(authored, d) :
        ContentAt(authored, d)[c] = {} \/ \E x \in S : ContentAt(authored, d)[c] = {x}
  <2> SUFFICES ASSUME NEW c \in Usable(authored), ContentAt(authored, d)[c] # {}
               PROVE  \E x \in S : ContentAt(authored, d)[c] = {x}
    BY DEF ContentAt
  <2>1. ContentAt(authored, d)[c] = LowerContent(c, ShotAt(authored, d))
    BY DEF ContentAt
  <2>2. start \in Nat /\ IsOptional(events, Nat)
    BY <1>2 DEF IsOptional
  <2>3. PICK x : Within(x, ShotAt(authored, d)) /\ LowerContent(c, ShotAt(authored, d)) = {x}
    BY <2>1, <2>2, LoweredContent DEF ShotAt
  <2>4. x \in S
    BY <1>3, <2>1, <2>3 DEF ShotAt
  <2> QED
    BY <2>1, <2>3, <2>4
<1>5. authored.content \in Seq(Range(authored.content))
  BY AuthoredAssumption
<1>6. \A x \in S : Within(x, s.at)
  OBVIOUS
<1> HIDE DEF S, s, start
<1>7. s.content \in Seq(S)
  <2>1. Lowered(authored.content, ContentAt(authored, d)) \in Seq(S)
    BY ONLY <1>4, <1>5, LoweredType
  <2> QED
    BY <1>3, <2>1
<1>8. s.content \in Seq(Range(s.content)) /\ \A x \in Range(s.content) : Within(x, s.at)
  BY <1>6, <1>7 DEF Range
<1>9. IsShot(s)
  <2>1. start + d \in 0 .. MaxFrame /\ cursor \in 0 .. MaxFrame
    BY <1>1, <1>2, SolveAssumption DEF start
  <2> QED
    BY <1>2, <1>3, <1>8, <2>1 DEF IsShot
<1>10. shots = <<>> => s.cut.end = 0
  BY <1>3 DEF AtEnd
<1>11. shots # <<>> => Adjoins(shots[Len(shots)], s) /\ shots[Len(shots)].cut.end <= s.at.start
  BY <1>2, <1>3 DEF AtEnd, Adjoins, IsEmpty
<1>12. Laid(Append(shots, s))
  BY <1>9, <1>10, <1>11, LaidAppend
<1> QED
  BY <1>9, <1>12 DEF s

(***************************************************************************)
(* The invariant of the solver.                                            *)

Control ==
    /\ phase \in {"cues", "shots", "solved", "rejected", "failed", "timed", "planned"}
    /\ cursor \in 0 .. MaxFrame /\ lost \in BOOLEAN /\ rejected \in BOOLEAN
    /\ IsOptional(events, 0 .. MaxFrame)
    /\ phase = "cues" => ~lost /\ shots = <<>>

(* The scenes entered so far lie before the cursor.                        *)
Entered ==
    /\ scenes \in Seq(Intervals(0 .. MaxFrame))
    /\ ~lost => \A k \in DOMAIN scenes : scenes[k].end <= cursor

(* The shots placed so far fill the frames up to the cursor.               *)
Line ==
    /\ Laid(shots)
    /\ \A i \in DOMAIN shots : shots[i].scene \in DOMAIN scenes
    /\ \A f \in 0 .. cursor - 1 : \E i \in DOMAIN shots : Covers(shots[i].at, f)
    /\ ~lost => AtEnd

Sounding ==
    /\ effects \in Seq(Range(effects))
    /\ \A e \in Range(effects) : e.at \in Intervals(0 .. MaxFrame)

(* What has gone wrong was reported.                                       *)
Reported ==
    /\ diagnostics = {} => Quiet(shots) /\ ~lost
    /\ phase = "rejected" => diagnostics # {}

(* A timeline is the solver's, and stays so.                               *)
Kept ==
    /\ film # {} => phase \in {"solved", "timed", "planned", "failed"} /\ diagnostics = {}
    /\ phase \in {"solved", "timed", "planned"} => film # {}
    /\ \A f, g \in film : f = g
    /\ \A f \in film : \E c, m :
         f = [end |-> cursor, scenes |-> scenes, shots |-> shots, captions |-> c, music |-> m,
              effects |-> effects]

TInv == Control /\ Entered /\ Line /\ Sounding /\ Reported /\ Kept

LEMMA TInvInitial == Init => TInv
<1> SUFFICES ASSUME Init PROVE TInv
  OBVIOUS
<1>1. /\ phase = "cues" /\ cursor = 0 /\ lost = FALSE /\ rejected = FALSE /\ events = {}
      /\ scenes = <<>> /\ shots = <<>> /\ effects = <<>> /\ diagnostics = {} /\ film = {}
  BY DEF Init, SolveInit
<1>2. \A S : <<>> \in Seq(S)
  OBVIOUS
<1>3. DOMAIN <<>> = {} /\ Range(<<>>) = {}
  BY DEF Range
<1>4. Control
  <2>1. 0 \in 0 .. MaxFrame /\ IsOptional({}, 0 .. MaxFrame)
    BY SolveAssumption DEF IsOptional
  <2> QED
    BY <1>1, <2>1 DEF Control
<1>5. Entered /\ Sounding
  BY <1>1, <1>2, <1>3 DEF Entered, Sounding
<1>6. Laid(shots) /\ Quiet(shots)
  BY <1>1, <1>2, <1>3 DEF Laid, Quiet
<1>7. Line
  BY <1>1, <1>3, <1>6 DEF Line, AtEnd
<1>8. Reported /\ Kept
  BY <1>1, <1>6 DEF Reported, Kept
<1> QED
  BY <1>4, <1>5, <1>7, <1>8 DEF TInv

(* Steps that leave the shots where they are.                              *)
LEMMA TInvEvents ==
    ASSUME TInv, NEW times \in CueTimes, SolveEvents(times)
    PROVE  TInv'
<1>1. /\ phase = "cues" /\ phase' = "shots" /\ events' = {t \in times : Converts(t)}
      /\ UNCHANGED <<cursor, lost, rejected, scenes, shots, effects, film>>
      /\ film = {}
  BY DEF SolveEvents, TInv, Kept
<1>2. IsOptional(times, Nat)
  BY AuthoredAssumption
<1>3. IsOptional(events', 0 .. MaxFrame)
  <2>1. \A t \in events' : t \in times /\ t \in Nat /\ t <= MaxFrame
    BY <1>1, <1>2 DEF IsOptional, Converts
  <2>2. events' \subseteq 0 .. MaxFrame
    BY <2>1, SolveAssumption
  <2> QED
    BY <1>2, <2>1, <2>2 DEF IsOptional
<1>4. Control' /\ Entered' /\ Line' /\ Sounding' /\ Kept'
  BY <1>1, <1>3 DEF TInv, Control, Entered, Line, Sounding, Kept, AtEnd
<1>5. ~lost /\ shots = <<>>
  BY <1>1 DEF TInv, Control
<1>6. Reported'
  <2>1. DOMAIN <<>> = {}
    OBVIOUS
  <2> QED
    BY <1>1, <1>5, <2>1 DEF Reported, Quiet
<1> QED
  BY <1>4, <1>6 DEF TInv

LEMMA TInvScene ==
    ASSUME TInv, SolveScene
    PROVE  TInv'
<1>1. /\ phase = "shots" /\ scenes' = Append(scenes, Interval(cursor, cursor))
      /\ UNCHANGED <<phase, cursor, lost, rejected, events, shots, effects, diagnostics, film>>
      /\ film = {}
  BY DEF SolveScene, TInv, Kept
<1>2. Interval(cursor, cursor) \in Intervals(0 .. MaxFrame) /\ Interval(cursor, cursor).end = cursor
      /\ cursor <= cursor
  BY DEF TInv, Control, Interval, Intervals
<1>3. /\ scenes' \in Seq(Intervals(0 .. MaxFrame)) /\ DOMAIN scenes \subseteq DOMAIN scenes'
      /\ \A k \in DOMAIN scenes' : k \in DOMAIN scenes \/ k = Len(scenes) + 1
      /\ \A k \in DOMAIN scenes : scenes'[k] = scenes[k]
      /\ scenes'[Len(scenes) + 1] = Interval(cursor, cursor)
  BY <1>1, <1>2 DEF TInv, Entered
<1>4. Entered'
  BY <1>1, <1>2, <1>3 DEF TInv, Entered
<1>5. Line'
  BY <1>1, <1>3 DEF TInv, Line, AtEnd
<1>6. Control' /\ Sounding' /\ Reported' /\ Kept'
  BY <1>1 DEF TInv, Control, Sounding, Reported, Kept
<1> QED
  BY <1>4, <1>5, <1>6 DEF TInv

LEMMA TInvFails ==
    ASSUME TInv, NEW authored \in AuthoredShots, SolveFails(authored)
    PROVE  TInv'
<1>1. /\ phase = "shots" /\ phase' = "failed" /\ film = {}
      /\ UNCHANGED <<cursor, lost, rejected, events, scenes, shots, effects, diagnostics, film>>
  BY DEF SolveFails, Authored, TInv, Kept
<1>2. Control' /\ Entered' /\ Line' /\ Sounding' /\ Reported' /\ Kept'
  BY <1>1 DEF TInv, Control, Entered, Line, Sounding, Reported, Kept, AtEnd
<1> QED
  BY <1>2 DEF TInv

LEMMA TInvSkip ==
    ASSUME TInv, NEW authored \in AuthoredShots, SkipShot(authored)
    PROVE  TInv'
<1>1. /\ phase = "shots" /\ lost /\ film = {} /\ diagnostics \subseteq diagnostics'
      /\ UNCHANGED <<phase, cursor, lost, rejected, events, scenes, shots, effects, film>>
  BY DEF SkipShot, Authored, TInv, Kept
<1>2. diagnostics' # {}
  BY <1>1 DEF TInv, Reported
<1>3. Control' /\ Entered' /\ Line' /\ Sounding' /\ Reported' /\ Kept'
  BY <1>1, <1>2 DEF TInv, Control, Entered, Line, Sounding, Reported, Kept, AtEnd
<1> QED
  BY <1>3 DEF TInv

LEMMA TInvReject ==
    ASSUME TInv, NEW authored \in AuthoredShots, RejectShot(authored)
    PROVE  TInv'
<1>1. /\ phase = "shots" /\ ~lost /\ lost' = TRUE /\ rejected' = TRUE /\ film = {}
      /\ UNCHANGED <<phase, events, scenes, shots, effects, film>>
  BY DEF RejectShot, Authored, TInv, Kept
<1>2. cursor' \in 0 .. cursor /\ diagnostics' # {}
  <2>1. CASE /\ ShotDuration(authored) = {} /\ UNCHANGED cursor
             /\ diagnostics' = diagnostics \cup PrepareFaults(authored)
    <3>1. PrepareFaults(authored) # {}
      BY <2>1, MissingDurationIsReported
    <3> QED
      BY <2>1, <3>1 DEF TInv, Control
  <2>2. ASSUME NEW d \in ShotDuration(authored), cursor' = Start(authored, d),
               diagnostics' = diagnostics \cup PrepareFaults(authored)
                                \cup CutFaults(authored, d) \cup {Overflow}
        PROVE  cursor' \in 0 .. cursor /\ diagnostics' # {}
    <3>1. d \in Nat
      BY DurationBounds
    <3>2. Start(authored, d) \in 0 .. MaxFrame /\ Start(authored, d) <= cursor
      BY <1>1, <3>1, StartOfShot DEF TInv, Line, Control
    <3> QED
      BY <2>2, <3>2 DEF TInv, Control
  <2> QED
    BY <2>1, <2>2 DEF RejectShot
<1>3. cursor' \in 0 .. MaxFrame /\ \A f \in 0 .. cursor' - 1 : f \in 0 .. cursor - 1
  <2>1. cursor \in Nat /\ cursor <= MaxFrame /\ MaxFrame \in Nat
    BY SolveAssumption DEF TInv, Control
  <2>2. cursor' \in Nat /\ cursor' <= cursor
    BY <1>2, <2>1
  <2>3. cursor' \in 0 .. MaxFrame
    BY ONLY <2>1, <2>2
  <2>4. \A m, n \in Nat : m <= n => \A f \in 0 .. m - 1 : f \in 0 .. n - 1
    OBVIOUS
  <2>5. \A f \in 0 .. cursor' - 1 : f \in 0 .. cursor - 1
    BY <2>1, <2>2, <2>4
  <2> QED
    BY <2>3, <2>5
<1>4. Line'
  BY <1>1, <1>3 DEF TInv, Line
<1>5. Control' /\ Entered' /\ Sounding' /\ Reported' /\ Kept'
  BY <1>1, <1>2, <1>3 DEF TInv, Control, Entered, Sounding, Reported, Kept
<1> QED
  BY <1>4, <1>5 DEF TInv

LEMMA TInvFinish ==
    ASSUME TInv, NEW tracks \in MusicTracks, Finish(tracks)
    PROVE  TInv'
<1>1. /\ phase = "shots" /\ film = {}
      /\ phase' = IF diagnostics' = {} THEN "solved" ELSE "rejected"
      /\ film' = IF diagnostics' # {} THEN {} ELSE
           {[end |-> cursor, scenes |-> scenes, shots |-> shots, captions |-> {},
             music |-> Lowered(tracks, [m \in Range(tracks) |-> LowerMusic(m, cursor)]),
             effects |-> effects]}
      /\ UNCHANGED <<cursor, lost, rejected, events, scenes, shots, effects, written>>
  BY DEF Finish, TInv, Kept
<1>2. diagnostics \subseteq diagnostics'
  BY DEF Finish
<1>3. Reported'
  BY <1>1, <1>2 DEF TInv, Reported
<1>4. Kept'
  <2>1. CASE diagnostics' = {}
    BY <1>1, <2>1 DEF Kept
  <2>2. CASE diagnostics' # {}
    BY <1>1, <2>2 DEF Kept
  <2> QED
    BY <2>1, <2>2
<1>5. Control' /\ Entered' /\ Line' /\ Sounding'
  BY <1>1 DEF TInv, Control, Entered, Line, Sounding, AtEnd
<1> QED
  BY <1>3, <1>4, <1>5 DEF TInv

LEMMA TInvCaptions ==
    ASSUME TInv, NEW cues, ImportCaptions(cues)
    PROVE  TInv'
<1>1. /\ phase = "solved" /\ phase' \in {"failed", "timed"}
      /\ UNCHANGED <<cursor, lost, rejected, events, scenes, shots, effects, diagnostics, written>>
      /\ \/ film' = film
         \/ film' = {[TheFilm EXCEPT !.captions = Clipped(cues, TheFilm.end)]}
  BY DEF ImportCaptions
<1>2. TheFilm \in film /\ film # {}
  BY <1>1 DEF TInv, Kept, TheFilm
<1>3. Kept'
  <2>1. PICK c, m : TheFilm = [end |-> cursor, scenes |-> scenes, shots |-> shots, captions |-> c,
                               music |-> m, effects |-> effects]
    BY <1>2 DEF TInv, Kept
  <2>2. [TheFilm EXCEPT !.captions = Clipped(cues, TheFilm.end)]
          = [end |-> cursor, scenes |-> scenes, shots |-> shots,
             captions |-> Clipped(cues, TheFilm.end), music |-> m, effects |-> effects]
    BY <2>1
  <2>3. CASE film' = film
    BY <1>1, <1>2, <2>3 DEF TInv, Kept
  <2>4. CASE film' = {[TheFilm EXCEPT !.captions = Clipped(cues, TheFilm.end)]}
    <3>1. phase' \in {"solved", "timed", "planned", "failed"} /\ diagnostics' = {}
      BY <1>1, <1>2 DEF TInv, Kept
    <3>2. \A f \in film' :
            f = [end |-> cursor', scenes |-> scenes', shots |-> shots',
                 captions |-> Clipped(cues, TheFilm.end), music |-> m, effects |-> effects']
      BY <1>1, <2>2, <2>4
    <3>3. film' # {} /\ \A f, g \in film' : f = g
      BY <2>4
    <3> QED
      BY ONLY <3>1, <3>2, <3>3 DEF Kept
  <2> QED
    BY <1>1, <2>3, <2>4
<1>4. Control' /\ Entered' /\ Line' /\ Sounding' /\ Reported'
  BY <1>1 DEF TInv, Control, Entered, Line, Sounding, Reported, AtEnd
<1> QED
  BY <1>3, <1>4 DEF TInv

LEMMA TInvPlan ==
    ASSUME TInv, \/ \E c \in Capabilities, b \in Behaviors : Plan(c, b)
                 \/ \E f \in 0 .. MaxFrame : Snapshot(f)
                 \/ UNCHANGED vars
    PROVE  TInv'
<1>1. /\ UNCHANGED <<cursor, lost, rejected, events, scenes, shots, effects, diagnostics, film>>
      /\ phase' = phase \/ (phase = "timed" /\ phase' = "planned")
  BY DEF Plan, Snapshot, vars, solveVars
<1>2. Control' /\ Entered' /\ Line' /\ Sounding' /\ Reported' /\ Kept'
  BY <1>1 DEF TInv, Control, Entered, Line, Sounding, Reported, Kept, AtEnd
<1> QED
  BY <1>2 DEF TInv

LEMMA TInvPlace ==
    ASSUME TInv, NEW authored \in AuthoredShots, PlaceShot(authored)
    PROVE  TInv'
<1>1. /\ phase = "shots" /\ ~lost /\ scenes # <<>> /\ film = {}
      /\ UNCHANGED <<phase, lost, rejected, events, film>>
  BY DEF PlaceShot, Authored, TInv, Kept
<1>2. PICK d \in ShotDuration(authored) :
        /\ Start(authored, d) + d <= MaxFrame
        /\ cursor' = Start(authored, d) + d
        /\ shots' = Append(shots, ShotOf(authored, d))
        /\ scenes' = [scenes EXCEPT ![Len(scenes)].end = Start(authored, d) + d]
        /\ effects' = effects \o Lowered(authored.effects, EffectsAt(authored, d))
        /\ diagnostics \subseteq diagnostics'
        /\ diagnostics' = {} =>
             /\ ~IsEmpty(ShotOf(authored, d).cut) =>
                  \A p \in Previous : ~SpeakTogether(p, ShotOf(authored, d))
  BY PlacesAShot
<1> DEFINE s == ShotOf(authored, d)
           start == Start(authored, d)
<1>3. /\ Laid(shots) /\ AtEnd /\ cursor \in 0 .. MaxFrame /\ IsOptional(events, 0 .. MaxFrame)
      /\ d \in Nat
  BY <1>1, DurationBounds DEF TInv, Line, Control
<1>4. /\ start \in 0 .. MaxFrame /\ start <= cursor /\ cursor <= start + d
      /\ start # cursor => shots # <<>> /\ shots[Len(shots)].scene = Len(scenes)
  BY <1>3, StartOfShot
<1>5. IsShot(s) /\ Laid(shots')
  BY <1>2, <1>3, PlacedShot
<1>6. /\ s.at.start = start /\ s.at.end = start + d /\ s.scene = Len(scenes)
      /\ s.cut.start = start /\ s.cut.end = cursor
  BY DEF ShotOf, ShotAt, Interval
<1> HIDE DEF s, start
<1>7. /\ Len(shots) \in Nat /\ DOMAIN shots = 1 .. Len(shots)
      /\ DOMAIN shots' = 1 .. Len(shots) + 1 /\ Len(shots') = Len(shots) + 1
      /\ \A i \in 1 .. Len(shots) : shots'[i] = shots[i]
      /\ shots'[Len(shots) + 1] = s
      /\ \A i \in 1 .. Len(shots) + 1 : i \in 1 .. Len(shots) \/ i = Len(shots) + 1
      /\ shots = <<>> <=> Len(shots) = 0
  BY <1>2, <1>3, AppendedSequence DEF Laid, s
<1>8. cursor' \in 0 .. MaxFrame /\ cursor <= cursor' /\ cursor' = start + d
  BY <1>2, <1>3, <1>4, SolveAssumption DEF start
<1>9. Control'
  BY <1>1, <1>8 DEF TInv, Control
<1>10. /\ scenes \in Seq(Intervals(0 .. MaxFrame)) /\ Len(scenes) \in DOMAIN scenes
       /\ Len(scenes) \in Nat /\ DOMAIN scenes = 1 .. Len(scenes)
       /\ \A k \in DOMAIN scenes : scenes[k].end <= cursor
  BY <1>1 DEF TInv, Entered
<1>11. /\ scenes' = [scenes EXCEPT ![Len(scenes)] = [scenes[Len(scenes)] EXCEPT !.end = cursor']]
       /\ DOMAIN scenes' = DOMAIN scenes
       /\ [scenes[Len(scenes)] EXCEPT !.end = cursor'] \in Intervals(0 .. MaxFrame)
  <2>1. scenes' = [scenes EXCEPT ![Len(scenes)] = [scenes[Len(scenes)] EXCEPT !.end = cursor']]
    BY <1>2
  <2>2. scenes[Len(scenes)] \in Intervals(0 .. MaxFrame) /\ scenes[Len(scenes)].end <= cursor
    BY <1>10
  <2>3. [scenes[Len(scenes)] EXCEPT !.end = cursor'] \in Intervals(0 .. MaxFrame)
    <3> DEFINE k == scenes[Len(scenes)]
    <3>1. k \in [start : 0 .. MaxFrame, end : 0 .. MaxFrame] /\ k.start <= k.end
      BY <2>2 DEF Intervals
    <3> HIDE DEF k
    <3>2. k.start <= cursor'
      BY <1>3, <1>8, <2>2, <3>1 DEF k
    <3>3. [k EXCEPT !.end = cursor'] \in Intervals(0 .. MaxFrame)
      BY <1>8, <3>1, <3>2 DEF Intervals
    <3> QED
      BY <3>3 DEF k
  <2> QED
    BY <2>1, <2>3
<1>12. Entered'
  <2>1. scenes' \in Seq(Intervals(0 .. MaxFrame))
    BY <1>10, <1>11
  <2>2. ASSUME NEW k \in DOMAIN scenes' PROVE scenes'[k].end <= cursor'
    <3>1. CASE k = Len(scenes)
      <4>1. scenes[Len(scenes)] \in [start : 0 .. MaxFrame, end : 0 .. MaxFrame]
        BY <1>10 DEF Intervals
      <4>2. [scenes[Len(scenes)] EXCEPT !.end = cursor'].end = cursor'
        BY <4>1
      <4>3. scenes'[k] = [scenes[Len(scenes)] EXCEPT !.end = cursor']
        BY <1>10, <1>11, <3>1
      <4> QED
        BY <1>8, <4>2, <4>3
    <3>2. CASE k # Len(scenes)
      <4>1. scenes'[k] = scenes[k] /\ scenes[k].end <= cursor /\ scenes[k].end \in 0 .. MaxFrame
        BY <1>10, <1>11, <3>2 DEF Intervals
      <4> QED
        BY <1>3, <1>8, <4>1
    <3> QED
      BY <3>1, <3>2
  <2> QED
    BY <2>1, <2>2 DEF Entered
<1>13. Line'
  <2>1. \A i \in DOMAIN shots' : shots'[i].scene \in DOMAIN scenes'
    BY <1>6, <1>7, <1>10, <1>11 DEF TInv, Line
  <2>2. ASSUME NEW f \in 0 .. cursor' - 1 PROVE \E i \in DOMAIN shots' : Covers(shots'[i].at, f)
    <3>1. CASE f \in 0 .. cursor - 1
      <4>1. PICK i \in DOMAIN shots : Covers(shots[i].at, f)
        BY <3>1 DEF TInv, Line
      <4> QED
        BY <1>7, <4>1
    <3>2. CASE f \notin 0 .. cursor - 1
      <4>1. start <= f /\ f < start + d
        BY <1>3, <1>4, <1>8, <3>2
      <4>2. Len(shots) + 1 \in DOMAIN shots'
        BY <1>7
      <4> QED
        BY <1>6, <1>7, <4>1, <4>2 DEF Covers
    <3> QED
      BY <3>1, <3>2
  <2>3. AtEnd'
    BY <1>6, <1>7, <1>8 DEF AtEnd
  <2> QED
    BY <1>5, <2>1, <2>2, <2>3 DEF Line
<1>14. Sounding'
  <2> DEFINE new == Lowered(authored.effects, EffectsAt(authored, d))
             S == {x \in UNION {EffectsAt(authored, d)[e] : e \in DOMAIN EffectsAt(authored, d)} :
                     x.at \in Intervals(0 .. MaxFrame)}
             T == Range(effects) \cup S
  <2>1. \A e \in DOMAIN EffectsAt(authored, d) :
          EffectsAt(authored, d)[e] = {} \/ \E x \in S : EffectsAt(authored, d)[e] = {x}
    <3> SUFFICES ASSUME NEW e \in Range(authored.effects), MediaFaults(e) = {},
                        EffectsAt(authored, d)[e] # {}, e \in DOMAIN EffectsAt(authored, d)
                 PROVE  \E x \in S : EffectsAt(authored, d)[e] = {x}
      BY DEF EffectsAt
    <3>1. EffectsAt(authored, d)[e] = LowerEffect(e, ShotAt(authored, d))
      BY DEF EffectsAt
    <3>2. ShotAt(authored, d).start \in Nat /\ ShotAt(authored, d).end \in 0 .. MaxFrame
      BY <1>3, <1>4, <1>8 DEF ShotAt, Interval, start
    <3>3. PICK x : x.at \in Intervals(0 .. MaxFrame) /\ LowerEffect(e, ShotAt(authored, d)) = {x}
      BY <3>1, <3>2, LoweredEffect
    <3>4. x \in S
      BY <3>1, <3>3
    <3> QED
      BY <3>1, <3>3, <3>4
  <2>2. \A x \in S : x.at \in Intervals(0 .. MaxFrame)
    OBVIOUS
  <2> HIDE DEF S, new
  <2>3. authored.effects \in Seq(Range(authored.effects))
    BY AuthoredAssumption
  <2>4. new \in Seq(S)
    BY ONLY <2>1, <2>3, LoweredType DEF new
  <2>5. effects \in Seq(T) /\ new \in Seq(T)
    BY <2>4 DEF TInv, Sounding, Range
  <2>6. \A x \in T : x.at \in Intervals(0 .. MaxFrame)
    BY <2>2 DEF TInv, Sounding
  <2> HIDE DEF T
  <2>7. effects' = effects \o new
    BY <1>2 DEF new
  <2>8. effects' \in Seq(T)
    BY <2>5, <2>7
  <2> QED
    BY <2>6, <2>8 DEF Sounding, Range
<1>15. Reported'
  <2>1. ASSUME diagnostics' = {} PROVE Quiet(shots')
    <3>1. Quiet(shots)
      BY <1>2, <2>1 DEF TInv, Reported
    <3>2. ASSUME shots # <<>>, ~IsEmpty(s.cut), shots[Len(shots)].scene = s.scene
          PROVE  ~SpeakTogether(shots[Len(shots)], s)
      <4>1. shots[Len(shots)] \in Previous
        <5>1. Len(shots) \in DOMAIN shots
          BY <1>7, <3>2
        <5> QED
          BY <1>6, <3>2, <5>1 DEF Previous, Last, Range
      <4> QED
        BY <1>2, <2>1, <3>2, <4>1 DEF s
    <3>3. shots' = Append(shots, s)
      BY <1>2 DEF s
    <3> QED
      BY <1>3, <1>5, <3>1, <3>2, <3>3, QuietAppend
  <2> QED
    BY <1>1, <2>1 DEF Reported
<1>16. Kept'
  BY <1>1 DEF Kept
<1> QED
  BY <1>9, <1>12, <1>13, <1>14, <1>15, <1>16 DEF TInv

THEOREM SolverHolds == Spec => []TInv
<1>1. ASSUME TInv, [Next]_vars PROVE TInv'
  <2>1. ASSUME SolveNext PROVE TInv'
    BY <1>1, <2>1, TInvEvents, TInvScene, TInvFails, TInvSkip, TInvReject, TInvPlace, TInvFinish
       DEF SolveNext
  <2> QED
    BY <1>1, <2>1, TInvCaptions, TInvPlan DEF Next
<1> QED
  BY <1>1, TInvInitial, PTL DEF Spec

(* The shots fill the film; they meet only in the transition between two   *)
(* neighbours of one scene; and no two speak at once.                      *)
THEOREM TimelineIsSoundHolds == Spec => []TimelineIsSound
<1>1. ASSUME TInv PROVE TimelineIsSound
  <2>1. Laid(shots)
    BY <1>1 DEF TInv, Line
  <2>2. \A i, j \in DOMAIN shots :
          i < j /\ Intersects(shots[i].at, shots[j].at) =>
            j = i + 1 /\ shots[i].scene = shots[j].scene
    BY <2>1, OnlyNeighboursMeet
  <2>3. ASSUME NEW f \in film, NEW i \in DOMAIN f.shots, NEW j \in DOMAIN f.shots, i # j
        PROVE  ~SpeakTogether(f.shots[i], f.shots[j])
    <3>1. f.shots = shots /\ Quiet(shots)
      BY <1>1 DEF TInv, Kept, Reported
    <3>2. i \in Nat /\ j \in Nat /\ IsShot(shots[i]) /\ IsShot(shots[j])
      BY <2>1, <3>1 DEF Laid
    <3>3. CASE i < j
      BY <3>1, <3>3 DEF Quiet
    <3>4. CASE j < i
      <4>1. ~SpeakTogether(shots[j], shots[i])
        BY <3>1, <3>4 DEF Quiet
      <4> QED
        BY <3>1, <3>2, <4>1, VoicesMeetInShots
    <3> QED
      BY <2>3, <3>2, <3>3, <3>4
  <2>4. \A f \in 0 .. cursor - 1 : \E i \in DOMAIN shots : Covers(shots[i].at, f)
    BY <1>1 DEF TInv, Line
  <2> QED
    BY <2>2, <2>3, <2>4 DEF TimelineIsSound
<1> QED
  BY <1>1, SolverHolds, PTL

(***************************************************************************)
(* Nothing is dropped.                                                     *)

(* The places of the contents of a line of shots, and its transitions.     *)
Slots(line) == UNION {{<<i, k>> : k \in DOMAIN line[i].content} : i \in DOMAIN line}
CutShots(line) == {i \in DOMAIN line : ~IsEmpty(line[i].cut)}

LEMMA SlotsAppend ==
    ASSUME NEW line, line \in Seq(Range(line)), NEW s, s.content \in Seq(Range(s.content)),
           IsFiniteSet(Slots(line))
    PROVE  /\ IsFiniteSet(Slots(Append(line, s)))
           /\ Cardinality(Slots(Append(line, s))) = Cardinality(Slots(line)) + Len(s.content)
<1> DEFINE n == Len(line) + 1
           m == Len(s.content)
           new == Append(line, s)
           own == {<<n, k>> : k \in 1 .. m}
<1>1. /\ n - 1 = Len(line) /\ Len(line) \in Nat /\ DOMAIN line = 1 .. Len(line) /\ DOMAIN new = 1 .. n
      /\ \A i \in 1 .. Len(line) : new[i] = line[i]
      /\ new[n] = s
      /\ \A i \in 1 .. n : i \in 1 .. Len(line) \/ i = n
      /\ \A i \in 1 .. Len(line) : i \in 1 .. n /\ i # n
      /\ n \in 1 .. n
  BY AppendedSequence
<1>2. m \in Nat /\ DOMAIN s.content = 1 .. m
  OBVIOUS
<1> HIDE DEF n, m, new
<1>3. Slots(new) = Slots(line) \cup own
  <2>1. ASSUME NEW x \in Slots(new) PROVE x \in Slots(line) \cup own
    <3>0. \E i \in DOMAIN new : \E k \in DOMAIN new[i].content : x = <<i, k>>
      BY DEF Slots
    <3>1. PICK i \in 1 .. n : \E k \in DOMAIN new[i].content : x = <<i, k>>
      BY <1>1, <3>0
    <3>2. CASE i = n
      BY <1>1, <1>2, <3>1, <3>2
    <3>3. CASE i # n
      <4>1. i \in DOMAIN line /\ new[i] = line[i]
        BY <1>1, <3>3
      <4> QED
        BY <3>1, <4>1 DEF Slots
    <3> QED
      BY <3>2, <3>3
  <2>2. Slots(line) \subseteq Slots(new)
    <3> SUFFICES ASSUME NEW i \in DOMAIN line, NEW k \in DOMAIN line[i].content
                 PROVE  <<i, k>> \in Slots(new)
      BY DEF Slots
    <3>1. i \in DOMAIN new /\ new[i] = line[i]
      BY <1>1
    <3> QED
      BY <3>1 DEF Slots
  <2>3. own \subseteq Slots(new)
    <3> SUFFICES ASSUME NEW k \in 1 .. m PROVE <<n, k>> \in Slots(new)
      OBVIOUS
    <3>1. n \in DOMAIN new /\ k \in DOMAIN new[n].content
      BY <1>1, <1>2
    <3> QED
      BY <3>1 DEF Slots
  <2> QED
    BY <2>1, <2>2, <2>3
<1>4. Slots(line) \cap own = {}
  BY <1>1 DEF Slots
<1>5. IsFiniteSet(own) /\ Cardinality(own) = m
  <2> DEFINE place == [k \in 1 .. m |-> <<n, k>>]
  <2>1. place \in [1 .. m -> own] /\ \A k, l \in 1 .. m : place[k] = place[l] => k = l
    OBVIOUS
  <2>2. \A x \in own : \E k \in 1 .. m : place[k] = x
    OBVIOUS
  <2> HIDE DEF place, own
  <2>3. place \in Bijection(1 .. m, own)
    BY <2>1, <2>2 DEF Bijection, Injection, Surjection, IsInjective
  <2>4. ExistsBijection(1 .. m, own)
    BY <2>3 DEF ExistsBijection
  <2>5. IsFiniteSet(1 .. m)
    BY <1>2, FS_Interval
  <2>6. IsFiniteSet(own)
    BY <2>4, <2>5, FS_Bijection
  <2>7. Cardinality(own) = m
    BY <1>2, <2>4, FS_CountingElements
  <2> QED
    BY <2>6, <2>7
<1> HIDE DEF own
<1>6. /\ IsFiniteSet(Slots(line) \cup own)
      /\ Cardinality(Slots(line) \cup own)
           = Cardinality(Slots(line)) + Cardinality(own) - Cardinality(Slots(line) \cap own)
  BY <1>5, FS_Union
<1>7. Cardinality(Slots(line)) \in Nat /\ Cardinality(Slots(line) \cap own) = 0
  BY <1>4, FS_CardinalityType, FS_EmptySet
<1>8. Cardinality(Slots(line) \cup own) = Cardinality(Slots(line)) + m
  BY <1>2, <1>5, <1>6, <1>7
<1> QED
  BY <1>3, <1>6, <1>8 DEF m, new

LEMMA CutsAppend ==
    ASSUME NEW line, line \in Seq(Range(line)), NEW s, IsFiniteSet(CutShots(line))
    PROVE  /\ IsFiniteSet(CutShots(Append(line, s)))
           /\ Cardinality(CutShots(Append(line, s)))
                = Cardinality(CutShots(line)) + IF IsEmpty(s.cut) THEN 0 ELSE 1
<1> DEFINE n == Len(line) + 1
           new == Append(line, s)
<1>1. /\ DOMAIN line = 1 .. Len(line) /\ DOMAIN new = 1 .. n
      /\ \A i \in 1 .. Len(line) : new[i] = line[i]
      /\ new[n] = s
      /\ \A i \in 1 .. n : i \in 1 .. Len(line) \/ i = n
      /\ \A i \in 1 .. Len(line) : i \in 1 .. n /\ i # n
      /\ n \in 1 .. n
  BY AppendedSequence
<1> HIDE DEF n, new
<1>2. Cardinality(CutShots(line)) \in Nat
  BY FS_CardinalityType
<1>3. CASE IsEmpty(s.cut)
  <2>1. CutShots(new) = CutShots(line)
    BY <1>1, <1>3 DEF CutShots
  <2> QED
    BY <1>2, <1>3, <2>1 DEF new
<1>4. CASE ~IsEmpty(s.cut)
  <2>1. CutShots(new) = CutShots(line) \cup {n} /\ n \notin CutShots(line)
    BY <1>1, <1>4 DEF CutShots
  <2>2. /\ IsFiniteSet(CutShots(line) \cup {n})
        /\ Cardinality(CutShots(line) \cup {n}) = Cardinality(CutShots(line)) + 1
    BY <2>1, FS_AddElement
  <2> QED
    BY <1>4, <2>1, <2>2 DEF new
<1> QED
  BY <1>3, <1>4

(* All contents, whatever their kind, stand at a place of their own.       *)
LEMMA ContentsAreSlots ==
    ASSUME NEW f, Laid(f.shots), IsFiniteSet(Slots(f.shots)),
           \A i \in DOMAIN f.shots : \A k \in DOMAIN f.shots[i].content :
             f.shots[i].content[k].kind \in {"video", "voice", "overlay"}
    PROVE  Cardinality(UNION {Contents(f, kind) : kind \in {"video", "voice", "overlay"}})
             = Cardinality(Slots(f.shots))
<1> DEFINE S == Slots(f.shots)
           C == UNION {Contents(f, kind) : kind \in {"video", "voice", "overlay"}}
           item(i, k) == [shot |-> i, place |-> k, at |-> f.shots[i].content[k].at,
                          asset |-> f.shots[i].content[k].asset,
                          treatment |-> f.shots[i].content[k].treatment]
           named == [x \in S |-> item(x[1], x[2])]
<1>1. \A c : c \in C <=> \E i \in DOMAIN f.shots : \E k \in DOMAIN f.shots[i].content :
                            c = item(i, k)
  <2>1. ASSUME NEW c, NEW kind \in {"video", "voice", "overlay"}, c \in Contents(f, kind)
        PROVE  \E i \in DOMAIN f.shots : \E k \in DOMAIN f.shots[i].content : c = item(i, k)
    BY <2>1 DEF Contents, ShotIndexes
  <2>2. ASSUME NEW i \in DOMAIN f.shots, NEW k \in DOMAIN f.shots[i].content
        PROVE  item(i, k) \in Contents(f, f.shots[i].content[k].kind)
    BY DEF Contents, ShotIndexes
  <2> HIDE DEF item
  <2>3. ASSUME NEW i \in DOMAIN f.shots, NEW k \in DOMAIN f.shots[i].content
        PROVE  item(i, k) \in C
    <3>1. f.shots[i].content[k].kind \in {"video", "voice", "overlay"}
      OBVIOUS
    <3> QED
      BY <2>2, <3>1
  <2> QED
    BY <2>1, <2>3
<1>2. \A i, k : item(i, k).shot = i /\ item(i, k).place = k
  OBVIOUS
<1> HIDE DEF item
<1>3. \A x : x \in S <=> \E i \in DOMAIN f.shots : \E k \in DOMAIN f.shots[i].content : x = <<i, k>>
  BY DEF Slots
<1> HIDE DEF C, S
<1>4. named \in [S -> C]
  BY <1>1, <1>3
<1>5. \A x, y \in S : named[x] = named[y] => x = y
  <2> SUFFICES ASSUME NEW x \in S, NEW y \in S, named[x] = named[y] PROVE x = y
    OBVIOUS
  <2>1. PICK i, k : x = <<i, k>>
    BY <1>3
  <2>2. PICK j, l : y = <<j, l>>
    BY <1>3
  <2>3. item(i, k) = item(j, l)
    BY <2>1, <2>2
  <2>4. i = j /\ k = l
    BY <1>2, <2>3
  <2> QED
    BY <2>1, <2>2, <2>4
<1>6. \A c \in C : \E x \in S : named[x] = c
  <2> SUFFICES ASSUME NEW c \in C PROVE \E x \in S : named[x] = c
    OBVIOUS
  <2>0. PICK i \in DOMAIN f.shots : \E k \in DOMAIN f.shots[i].content : c = item(i, k)
    BY <1>1
  <2>1. PICK k \in DOMAIN f.shots[i].content : c = item(i, k)
    BY <2>0
  <2>2. <<i, k>> \in S
    BY <1>3
  <2>3. named[<<i, k>>] = item(i, k)
    BY <2>2
  <2> QED
    BY <2>1, <2>2, <2>3
<1> HIDE DEF named
<1>7. named \in Bijection(S, C)
  BY <1>4, <1>5, <1>6 DEF Bijection, Injection, Surjection, IsInjective
<1>8. ExistsBijection(S, C)
  BY <1>7 DEF ExistsBijection
<1>9. IsFiniteSet(S)
  BY DEF S
<1>10. Cardinality(C) = Cardinality(S)
  BY <1>8, <1>9, FS_Bijection
<1> QED
  BY <1>10 DEF C, S

(* What the pass has accounted for.                                        *)
Counted ==
    /\ Len(shots) = written.shots /\ Len(effects) = written.effects
    /\ IsFiniteSet(Slots(shots)) /\ Cardinality(Slots(shots)) = written.contents
    /\ IsFiniteSet(CutShots(shots)) /\ Cardinality(CutShots(shots)) = written.cuts

Tally ==
    [cue : BOOLEAN, inScene : Nat, shots : Nat, contents : Nat, effects : Nat, cuts : Nat]

(* As long as nothing has been reported, everything written has its place, *)
(* and a written cue its frame.                                            *)
Accounted ==
    /\ written \in Tally
    /\ phase = "shots" /\ diagnostics = {} => (written.cue => events # {})
    /\ phase = "cues" => shots = <<>> /\ effects = <<>>
    /\ \/ phase = "cues" \/ (phase = "shots" /\ diagnostics = {}) \/ film # {} => Counted

LEMMA TallyAdds ==
    ASSUME NEW w \in Tally, NEW c \in Nat, NEW e \in Nat, NEW t \in Nat,
           NEW v, v = [w EXCEPT !.inScene = @ + 1, !.shots = @ + 1, !.contents = @ + c,
                                !.effects = @ + e, !.cuts = @ + t]
    PROVE  /\ v \in Tally
           /\ v = [cue |-> w.cue, inScene |-> w.inScene + 1, shots |-> w.shots + 1,
                   contents |-> w.contents + c, effects |-> w.effects + e, cuts |-> w.cuts + t]
<1>1. /\ w.cue \in BOOLEAN
      /\ {w.inScene, w.shots, w.contents, w.effects, w.cuts} \subseteq Nat
      /\ w = [cue |-> w.cue, inScene |-> w.inScene, shots |-> w.shots, contents |-> w.contents,
              effects |-> w.effects, cuts |-> w.cuts]
  BY DEF Tally
<1>2. v = [cue |-> w.cue, inScene |-> w.inScene + 1, shots |-> w.shots + 1,
           contents |-> w.contents + c, effects |-> w.effects + e, cuts |-> w.cuts + t]
  BY ONLY <1>1, v = [w EXCEPT !.inScene = @ + 1, !.shots = @ + 1, !.contents = @ + c,
                              !.effects = @ + e, !.cuts = @ + t]
<1>3. v \in Tally
  BY ONLY <1>1, <1>2, c \in Nat, e \in Nat, t \in Nat DEF Tally
<1> QED
  BY <1>2, <1>3

LEMMA AccountedInitial == Init => Accounted
<1> SUFFICES ASSUME Init PROVE Accounted
  OBVIOUS
<1>1. /\ shots = <<>> /\ effects = <<>> /\ phase = "cues"
      /\ written = [cue |-> FALSE, inScene |-> 0, shots |-> 0, contents |-> 0, effects |-> 0,
                    cuts |-> 0]
  BY DEF Init, SolveInit
<1>2. Slots(<<>>) = {} /\ CutShots(<<>>) = {} /\ Len(<<>>) = 0
  BY DEF Slots, CutShots
<1>3. IsFiniteSet({}) /\ Cardinality({}) = 0
  BY FS_EmptySet
<1> QED
  BY <1>1, <1>2, <1>3 DEF Accounted, Counted, Tally

(* A shot whose placement reports nothing is placed as it was written.     *)
LEMMA PlacedWhole ==
    ASSUME TInv, NEW authored \in AuthoredShots, NEW d \in ShotDuration(authored),
           phase = "shots", ~lost, Start(authored, d) + d <= MaxFrame,
           \A c \in Range(authored.content) : c.cued => events # {},
           PrepareFaults(authored) = {}, CutFaults(authored, d) = {},
           \A c \in Usable(authored) : ContentFaults(c, ShotAt(authored, d)) = {},
           \A e \in Range(authored.effects) :
             MediaFaults(e) = {} => EffectFaults(e, ShotAt(authored, d)) = {}
    PROVE  /\ Len(ShotOf(authored, d).content) = Len(authored.content)
           /\ Len(Lowered(authored.effects, EffectsAt(authored, d))) = Len(authored.effects)
           /\ \E S : Lowered(authored.effects, EffectsAt(authored, d)) \in Seq(S)
           /\ IsEmpty(ShotOf(authored, d).cut) <=> authored.cut = {}
<1>1. /\ \A c \in Range(authored.content) : IsPrimary(c) => MediaFaults(c) = {}
      /\ \A e \in Range(authored.effects) : MediaFaults(e) = {}
      /\ \A n \in authored.cut : Converts(n)
  <2> DEFINE P == UNION {MediaFaults(c) : c \in {x \in Range(authored.content) : IsPrimary(x)}}
             E == UNION {MediaFaults(e) : e \in Range(authored.effects)}
             R == Report(\E n \in authored.cut : ~Converts(n), Overflow)
  <2>1. PrepareFaults(authored) = P \cup E \cup DurationFaults(authored) \cup R
    BY DEF PrepareFaults
  <2> HIDE DEF P, E, R
  <2>2. P = {} /\ E = {} /\ R = {}
    BY <2>1
  <2>3. \A c \in Range(authored.content) : IsPrimary(c) => MediaFaults(c) = {}
    BY <2>2 DEF P
  <2>4. \A e \in Range(authored.effects) : MediaFaults(e) = {}
    BY <2>2 DEF E
  <2>5. \A n \in authored.cut : Converts(n)
    BY <2>2 DEF R, Report
  <2> QED
    BY <2>3, <2>4, <2>5
<1>2. /\ Laid(shots) /\ AtEnd /\ cursor \in 0 .. MaxFrame /\ IsOptional(events, 0 .. MaxFrame)
      /\ d \in Nat
  BY DurationBounds DEF TInv, Line, Control
<1>3. /\ Start(authored, d) \in 0 .. MaxFrame
      /\ Start(authored, d) # cursor <=> authored.cut # {}
  BY <1>1, <1>2, StartOfShot
<1>4. IsEmpty(ShotOf(authored, d).cut) <=> authored.cut = {}
  BY <1>3 DEF ShotOf, IsEmpty, Interval
<1>5. Len(ShotOf(authored, d).content) = Len(authored.content)
  <2> DEFINE lower == ContentAt(authored, d)
             S == {x \in UNION {lower[c] : c \in Usable(authored)} : TRUE}
  <2>1. authored.content \in Seq(Range(authored.content))
    BY AuthoredAssumption
  <2>2. Usable(authored) = Range(authored.content)
    BY <1>1 DEF Usable
  <2>3. ASSUME NEW c \in Range(authored.content)
        PROVE  c \in DOMAIN lower /\ \E x \in S : lower[c] = {x}
    <3>1. c \in DOMAIN lower /\ lower[c] = LowerContent(c, ShotAt(authored, d)) /\ c \in Usable(authored)
      BY <2>2 DEF ContentAt
    <3>2. Start(authored, d) \in Nat /\ IsOptional(events, Nat)
      BY <1>2, <1>3 DEF IsOptional
    <3>3. ContentFaults(c, ShotAt(authored, d)) = {} /\ (c.cued => events # {})
      BY <3>1
    <3>7. LowerContent(c, ShotAt(authored, d)) = {}
            \/ \E x : Within(x, ShotAt(authored, d)) /\ LowerContent(c, ShotAt(authored, d)) = {x}
      BY <3>1, <3>2, LoweredContent DEF ShotAt
    <3>8. LowerContent(c, ShotAt(authored, d)) # {}
      BY <3>1, <3>2, <3>3, LoweredContent DEF ShotAt
    <3>4. PICK x : LowerContent(c, ShotAt(authored, d)) = {x}
      BY <3>7, <3>8
    <3>5. x \in S
      BY <3>1, <3>4
    <3> QED
      BY <3>1, <3>4, <3>5
  <2>4. \A i \in DOMAIN authored.content : authored.content[i] \in Range(authored.content)
    BY DEF Range
  <2> HIDE DEF S, lower
  <2>5. \A i \in DOMAIN authored.content :
          authored.content[i] \in DOMAIN lower /\ \E x \in S : lower[authored.content[i]] = {x}
    BY <2>3, <2>4
  <2>6. Len(Lowered(authored.content, lower)) = Len(authored.content)
    BY ONLY <2>1, <2>5, LoweredAll, ZenonT(30)
  <2> QED
    BY <2>6 DEF ShotOf, lower
<1>6. /\ Len(Lowered(authored.effects, EffectsAt(authored, d))) = Len(authored.effects)
      /\ \E S : Lowered(authored.effects, EffectsAt(authored, d)) \in Seq(S)
  <2> DEFINE lower == EffectsAt(authored, d)
             S == {x \in UNION {lower[e] : e \in Range(authored.effects)} : TRUE}
  <2>1. authored.effects \in Seq(Range(authored.effects))
    BY AuthoredAssumption
  <2>2. ASSUME NEW e \in Range(authored.effects)
        PROVE  e \in DOMAIN lower /\ \E x \in S : lower[e] = {x}
    <3>1. e \in DOMAIN lower /\ lower[e] = LowerEffect(e, ShotAt(authored, d))
      BY <1>1 DEF EffectsAt
    <3>2. ShotAt(authored, d).start \in Nat /\ ShotAt(authored, d).end \in 0 .. MaxFrame
      BY <1>2, <1>3 DEF ShotAt, Interval
    <3>3. MediaFaults(e) = {} /\ EffectFaults(e, ShotAt(authored, d)) = {}
      BY <1>1
    <3>4. PICK x : LowerEffect(e, ShotAt(authored, d)) = {x}
      BY <3>2, <3>3, LoweredEffect
    <3>5. x \in S
      BY <3>1, <3>4
    <3> QED
      BY <3>1, <3>4, <3>5
  <2>3. \A i \in DOMAIN authored.effects : authored.effects[i] \in Range(authored.effects)
    BY DEF Range
  <2> HIDE DEF S, lower
  <2>4. \A i \in DOMAIN authored.effects :
          authored.effects[i] \in DOMAIN lower /\ \E x \in S : lower[authored.effects[i]] = {x}
    BY <2>2, <2>3
  <2>5. Len(Lowered(authored.effects, lower)) = Len(authored.effects)
    BY ONLY <2>1, <2>4, LoweredAll, ZenonT(30)
  <2>6. \A e \in DOMAIN lower : e \in Range(authored.effects)
    BY DEF lower, EffectsAt
  <2>7. Lowered(authored.effects, lower) \in Seq(S)
    BY <2>1, <2>2, <2>6, LoweredType
  <2> QED
    BY <2>5, <2>7 DEF lower
<1> QED
  BY <1>4, <1>5, <1>6

LEMMA AccountedPlace ==
    ASSUME TInv, TInv', Accounted, NEW authored \in AuthoredShots, PlaceShot(authored)
    PROVE  Accounted'
<1>1. /\ phase = "shots" /\ ~lost /\ film = {} /\ UNCHANGED <<phase, lost, events, film>>
      /\ \A c \in Range(authored.content) : c.cued => written.cue
      /\ written' = [written EXCEPT !.inScene = @ + 1, !.shots = @ + 1,
                                    !.contents = @ + Len(authored.content),
                                    !.effects = @ + Len(authored.effects),
                                    !.cuts = @ + Cardinality(authored.cut)]
  BY DEF PlaceShot, Authored, TInv, Kept
<1>2. PICK d \in ShotDuration(authored) :
        /\ Start(authored, d) + d <= MaxFrame
        /\ shots' = Append(shots, ShotOf(authored, d))
        /\ effects' = effects \o Lowered(authored.effects, EffectsAt(authored, d))
        /\ diagnostics \subseteq diagnostics'
        /\ diagnostics' = {} =>
             /\ PrepareFaults(authored) = {} /\ CutFaults(authored, d) = {}
             /\ \A c \in Usable(authored) : ContentFaults(c, ShotAt(authored, d)) = {}
             /\ \A e \in Range(authored.effects) :
                  MediaFaults(e) = {} => EffectFaults(e, ShotAt(authored, d)) = {}
  BY PlacesAShot
<1>3. /\ authored.content \in Seq(Range(authored.content))
      /\ authored.effects \in Seq(Range(authored.effects)) /\ IsOptional(authored.cut, Nat \ {0})
  BY AuthoredAssumption
<1>4. Len(authored.content) \in Nat /\ Len(authored.effects) \in Nat
  BY <1>3
<1>5. Cardinality(authored.cut) = IF authored.cut = {} THEN 0 ELSE 1
  <2>1. CASE authored.cut = {}
    BY <2>1, FS_EmptySet
  <2>2. CASE authored.cut # {}
    <3>1. PICK n : authored.cut = {n}
      BY <1>3, <2>2 DEF IsOptional
    <3> QED
      BY <3>1, FS_Singleton
  <2> QED
    BY <2>1, <2>2
<1>6. written' \in Tally
  <2>1. Cardinality(authored.cut) \in Nat /\ written \in Tally
    BY <1>5 DEF Accounted
  <2> QED
    BY <1>1, <1>4, <2>1, TallyAdds
<1>7. /\ written'.cue = written.cue /\ written'.shots = written.shots + 1
      /\ written'.contents = written.contents + Len(authored.content)
      /\ written'.effects = written.effects + Len(authored.effects)
      /\ written'.cuts = written.cuts + Cardinality(authored.cut)
  <2>1. Cardinality(authored.cut) \in Nat /\ written \in Tally
    BY <1>5 DEF Accounted
  <2>2. written' = [cue |-> written.cue, inScene |-> written.inScene + 1,
                    shots |-> written.shots + 1,
                    contents |-> written.contents + Len(authored.content),
                    effects |-> written.effects + Len(authored.effects),
                    cuts |-> written.cuts + Cardinality(authored.cut)]
    BY <1>1, <1>4, <2>1, TallyAdds
  <2> QED
    BY <2>2
<1>8. ASSUME diagnostics' = {} PROVE Counted'
  <2>1. diagnostics = {} /\ Counted /\ (written.cue => events # {})
    BY <1>1, <1>2, <1>8 DEF Accounted
  <2>2. \A c \in Range(authored.content) : c.cued => events # {}
    BY <1>1, <2>1
  <2>3. /\ Len(ShotOf(authored, d).content) = Len(authored.content)
        /\ Len(Lowered(authored.effects, EffectsAt(authored, d))) = Len(authored.effects)
        /\ \E S : Lowered(authored.effects, EffectsAt(authored, d)) \in Seq(S)
        /\ IsEmpty(ShotOf(authored, d).cut) <=> authored.cut = {}
    BY <1>1, <1>2, <1>8, <2>2, PlacedWhole
  <2> DEFINE s == ShotOf(authored, d)
             more == Lowered(authored.effects, EffectsAt(authored, d))
  <2> HIDE DEF s, more
  <2>4. shots \in Seq(Range(shots)) /\ s.content \in Seq(Range(s.content))
    <3>1. Laid(shots) /\ AtEnd /\ cursor \in 0 .. MaxFrame /\ IsOptional(events, 0 .. MaxFrame)
      BY <1>1 DEF TInv, Line, Control
    <3>2. IsShot(s)
      BY <1>2, <3>1, PlacedShot DEF s
    <3> QED
      BY <3>1, <3>2 DEF Laid, IsShot
  <2>5. shots' = Append(shots, s)
    BY <1>2 DEF s
  <2>6. Len(shots') = Len(shots) + 1 /\ Len(shots) \in Nat
    BY <2>4, <2>5, AppendedSequence
  <2>7. Len(effects') = Len(effects) + Len(authored.effects)
    <3>1. PICK S : more \in Seq(S)
      BY <2>3 DEF more
    <3>2. effects \in Seq(Range(effects))
      BY DEF TInv, Sounding
    <3>3. effects' = effects \o more /\ Len(more) = Len(authored.effects)
      BY <1>2, <2>3 DEF more
    <3>4. Len(effects \o more) = Len(effects) + Len(more)
      BY <3>1, <3>2
    <3> QED
      BY <3>3, <3>4
  <2>8. /\ IsFiniteSet(Slots(shots'))
        /\ Cardinality(Slots(shots')) = Cardinality(Slots(shots)) + Len(s.content)
    BY <2>1, <2>4, <2>5, SlotsAppend DEF Counted
  <2>9. /\ IsFiniteSet(CutShots(shots'))
        /\ Cardinality(CutShots(shots'))
             = Cardinality(CutShots(shots)) + IF IsEmpty(s.cut) THEN 0 ELSE 1
    BY <2>1, <2>4, <2>5, CutsAppend DEF Counted
  <2>10. Len(s.content) = Len(authored.content) /\ (IsEmpty(s.cut) <=> authored.cut = {})
    BY <2>3 DEF s
  <2>11. /\ Len(shots') = written'.shots /\ Len(effects') = written'.effects
         /\ Cardinality(Slots(shots')) = written'.contents
    BY <1>7, <2>1, <2>6, <2>7, <2>8, <2>10 DEF Counted
  <2>12. Cardinality(CutShots(shots')) = written'.cuts
    BY <1>5, <1>7, <2>1, <2>9, <2>10 DEF Counted
  <2> QED
    BY <2>8, <2>9, <2>11, <2>12 DEF Counted
<1>9. diagnostics' = {} => diagnostics = {}
  BY <1>2
<1> QED
  BY <1>1, <1>6, <1>7, <1>8, <1>9 DEF Accounted

LEMMA AccountedEvents ==
    ASSUME Accounted, NEW times \in CueTimes, SolveEvents(times)
    PROVE  Accounted'
<1>1. /\ phase = "cues" /\ phase' = "shots" /\ events' = {t \in times : Converts(t)}
      /\ diagnostics' = Report(events' # times, Overflow)
      /\ written' = [written EXCEPT !.cue = times # {}]
      /\ UNCHANGED <<shots, effects, film>>
  BY DEF SolveEvents
<1>2. diagnostics' = {} => events' = times
  BY <1>1 DEF Report
<1>3. /\ written' \in Tally
      /\ written'.cue = (times # {}) /\ written'.shots = written.shots
      /\ written'.contents = written.contents /\ written'.effects = written.effects
      /\ written'.cuts = written.cuts
  BY <1>1 DEF Accounted, Tally
<1>4. Counted'
  BY <1>1, <1>3 DEF Accounted, Counted
<1> QED
  BY <1>1, <1>2, <1>3, <1>4 DEF Accounted

LEMMA AccountedScene ==
    ASSUME TInv, Accounted, SolveScene
    PROVE  Accounted'
<1>1. /\ phase = "shots" /\ film = {} /\ written' = [written EXCEPT !.inScene = 0]
      /\ UNCHANGED <<phase, events, shots, effects, diagnostics, film>>
  BY DEF SolveScene, TInv, Kept
<1>2. /\ written' \in Tally
      /\ written'.cue = written.cue /\ written'.shots = written.shots
      /\ written'.contents = written.contents /\ written'.effects = written.effects
      /\ written'.cuts = written.cuts
  BY <1>1 DEF Accounted, Tally
<1> QED
  BY <1>1, <1>2 DEF Accounted, Counted

(* A shot that is not placed fails the pass or is reported.                *)
LEMMA AccountedLost ==
    ASSUME TInv, TInv', Accounted, NEW authored \in AuthoredShots,
           SolveFails(authored) \/ SkipShot(authored) \/ RejectShot(authored)
    PROVE  Accounted'
<1>1. /\ phase = "shots" /\ film' = {} /\ phase' \in {"shots", "failed"}
      /\ written' = [written EXCEPT !.inScene = @ + 1, !.shots = @ + 1,
                                    !.contents = @ + Len(authored.content),
                                    !.effects = @ + Len(authored.effects),
                                    !.cuts = @ + Cardinality(authored.cut)]
  BY DEF SolveFails, SkipShot, RejectShot, Authored, TInv, Kept
<1>2. phase' = "failed" \/ lost'
  BY DEF SolveFails, SkipShot, RejectShot
<1>3. phase' = "failed" \/ diagnostics' # {}
  BY <1>2 DEF TInv, Reported
<1>4. Len(authored.content) \in Nat /\ Len(authored.effects) \in Nat
  BY AuthoredAssumption
<1>5. Cardinality(authored.cut) \in Nat
  <2>1. IsOptional(authored.cut, Nat \ {0})
    BY AuthoredAssumption
  <2>2. authored.cut = {} \/ \E n : authored.cut = {n}
    BY <2>1 DEF IsOptional
  <2> QED
    BY <2>2, FS_EmptySet, FS_Singleton, SMTT(30)
<1>6. written' \in Tally
  BY <1>1, <1>4, <1>5, TallyAdds DEF Accounted
<1> QED
  BY <1>1, <1>3, <1>6 DEF Accounted

LEMMA AccountedFinish ==
    ASSUME TInv, Accounted, NEW tracks, Finish(tracks)
    PROVE  Accounted'
<1>1. /\ phase = "shots" /\ phase' \in {"solved", "rejected"} /\ film = {}
      /\ UNCHANGED <<events, shots, effects, written>>
      /\ film' # {} => diagnostics' = {}
  BY DEF Finish, TInv, Kept
<1>2. diagnostics \subseteq diagnostics'
  BY DEF Finish
<1>3. film' # {} => Counted
  BY <1>1, <1>2 DEF Accounted
<1> QED
  BY <1>1, <1>3 DEF Accounted, Counted

LEMMA AccountedLater ==
    ASSUME TInv, Accounted,
           \/ \E cues \in CaptionTracks : ImportCaptions(cues)
           \/ \E c \in Capabilities, b \in Behaviors : Plan(c, b)
           \/ \E f \in 0 .. MaxFrame : Snapshot(f)
           \/ UNCHANGED vars
    PROVE  Accounted'
<1>1. /\ UNCHANGED <<events, shots, effects, diagnostics, written>>
      /\ phase' = phase \/ phase' \notin {"cues", "shots"}
      /\ film' # {} => film # {}
  <2>1. ASSUME NEW cues, ImportCaptions(cues)
        PROVE  /\ UNCHANGED <<events, shots, effects, diagnostics, written>>
               /\ phase' \in {"failed", "timed"} /\ film # {}
    BY <2>1 DEF ImportCaptions, TInv, Kept
  <2>2. ASSUME NEW c, NEW b, Plan(c, b)
        PROVE  UNCHANGED <<events, shots, effects, diagnostics, written, film>> /\ phase' = "planned"
    BY <2>2 DEF Plan
  <2>3. ASSUME NEW f, Snapshot(f)
        PROVE  UNCHANGED <<events, shots, effects, diagnostics, written, film, phase>>
    BY <2>3 DEF Snapshot, solveVars
  <2>4. ASSUME UNCHANGED vars
        PROVE  UNCHANGED <<events, shots, effects, diagnostics, written, film, phase>>
    BY <2>4 DEF vars, solveVars
  <2> QED
    BY <2>1, <2>2, <2>3, <2>4
<1> QED
  BY <1>1 DEF Accounted, Counted

(* A film with a timeline holds all shots, contents, effects and           *)
(* transitions that were written: whatever the solver leaves out on any    *)
(* path, it has reported.                                                  *)
THEOREM NothingIsDroppedHolds == Spec => []NothingIsDropped
<1>1. ASSUME TInv, TInv', Accounted, [Next]_vars PROVE Accounted'
  <2>1. ASSUME SolveNext PROVE Accounted'
    BY <1>1, <2>1, AccountedEvents, AccountedScene, AccountedLost, AccountedPlace, AccountedFinish
       DEF SolveNext
  <2> QED
    BY <1>1, <2>1, AccountedLater DEF Next
<1>2. ASSUME TInv, Accounted PROVE NothingIsDropped
  <2> SUFFICES ASSUME NEW f \in film
               PROVE  /\ Len(f.shots) = written.shots
                      /\ Cardinality(UNION {Contents(f, kind) : kind \in {"video", "voice", "overlay"}})
                           = written.contents
                      /\ Len(f.effects) = written.effects
                      /\ Cardinality({i \in ShotIndexes(f) : HasCut(f, i)}) = written.cuts
    BY DEF NothingIsDropped
  <2>1. f.shots = shots /\ f.effects = effects
    BY <1>2 DEF TInv, Kept
  <2>2. Counted
    BY <1>2 DEF Accounted
  <2>3. Laid(f.shots)
    BY <1>2, <2>1 DEF TInv, Line
  <2>4. \A i \in DOMAIN f.shots : \A k \in DOMAIN f.shots[i].content :
          f.shots[i].content[k].kind \in {"video", "voice", "overlay"}
    BY <2>3 DEF Laid, IsShot, Within, Range
  <2>5. IsFiniteSet(Slots(f.shots)) /\ Cardinality(Slots(f.shots)) = written.contents
    BY <2>1, <2>2 DEF Counted
  <2>6. Cardinality(UNION {Contents(f, kind) : kind \in {"video", "voice", "overlay"}})
          = written.contents
    BY <2>3, <2>4, <2>5, ContentsAreSlots
  <2>7. {i \in ShotIndexes(f) : HasCut(f, i)} = CutShots(shots)
    BY <2>1 DEF ShotIndexes, HasCut, CutShots
  <2> QED
    BY <2>1, <2>2, <2>6, <2>7 DEF Counted
<1> QED
  BY <1>1, <1>2, AccountedInitial, SolverHolds, PTL DEF Spec

(***************************************************************************)
(* The partition.                                                          *)

(* A region of a film: not empty, exact at each of its frames, and         *)
(* evaluated over all of its shots.                                        *)
Exact(f, r) ==
    /\ ~IsEmpty(r.output)
    /\ \A g \in Frames(r.output) :
         r.shots = {i \in ShotIndexes(f) : Covers(f.shots[i].at, g)}
    /\ \A i \in r.shots : ContainsInterval(r.evaluation, f.shots[i].at)

(* Exact regions that tile the frames from a to b.                         *)
Tiles(f, regions, a, b) ==
    /\ regions \in Seq(Range(regions))
    /\ \A m \in DOMAIN regions :
         /\ Exact(f, regions[m])
         /\ regions[m].output.start = IF m = 1 THEN a ELSE regions[m - 1].output.end
    /\ b = IF regions = <<>> THEN a ELSE regions[Len(regions)].output.end

LEMMA TilesNothing == \A f, a : Tiles(f, <<>>, a, a)
<1>1. <<>> \in Seq(Range(<<>>)) /\ DOMAIN <<>> = {}
  OBVIOUS
<1> QED
  BY <1>1 DEF Tiles

LEMMA TilesOne ==
    ASSUME NEW f, NEW r, Exact(f, r)
    PROVE  Tiles(f, <<r>>, r.output.start, r.output.end)
<1>1. <<r>> \in Seq(Range(<<r>>)) /\ DOMAIN <<r>> = {1} /\ <<r>>[1] = r /\ Len(<<r>>) = 1 /\ <<r>> # <<>>
  BY DEF Range
<1> QED
  BY <1>1 DEF Tiles

LEMMA TilesJoin ==
    ASSUME NEW f, NEW r, NEW s, NEW a, NEW b, NEW c, Tiles(f, r, a, b), Tiles(f, s, b, c)
    PROVE  Tiles(f, r \o s, a, c)
<1> DEFINE T == Range(r) \cup Range(s)
           t == r \o s
<1>1. r \in Seq(T) /\ s \in Seq(T)
  BY DEF Tiles, Range
<1> HIDE DEF T
<1>2. /\ t \in Seq(T) /\ Len(r) \in Nat /\ Len(s) \in Nat /\ Len(t) = Len(r) + Len(s)
      /\ DOMAIN r = 1 .. Len(r) /\ DOMAIN s = 1 .. Len(s) /\ DOMAIN t = 1 .. Len(r) + Len(s)
      /\ \A m \in 1 .. Len(r) : t[m] = r[m]
      /\ \A m \in Len(r) + 1 .. Len(r) + Len(s) : t[m] = s[m - Len(r)]
      /\ r = <<>> <=> Len(r) = 0
      /\ s = <<>> <=> Len(s) = 0
      /\ t = <<>> <=> Len(r) + Len(s) = 0
  BY <1>1
<1> HIDE DEF t
<1>3. t \in Seq(Range(t))
  <2>1. \A u : u \in Seq(T) => u \in Seq(Range(u))
    BY DEF Range
  <2> QED
    BY <1>2, <2>1
<1>4. ASSUME NEW m \in 1 .. Len(r) + Len(s)
      PROVE  /\ Exact(f, t[m])
             /\ t[m].output.start = IF m = 1 THEN a ELSE t[m - 1].output.end
  <2>1. CASE m \in 1 .. Len(r)
    <3>1. t[m] = r[m] /\ Exact(f, r[m])
          /\ r[m].output.start = IF m = 1 THEN a ELSE r[m - 1].output.end
      BY <1>2, <2>1 DEF Tiles
    <3>2. m # 1 => m - 1 \in 1 .. Len(r)
      BY <2>1
    <3> QED
      BY <1>2, <3>1, <3>2
  <2>2. CASE m \notin 1 .. Len(r)
    <3> DEFINE k == m - Len(r)
    <3>1. k \in 1 .. Len(s) /\ m \in Len(r) + 1 .. Len(r) + Len(s) /\ Len(r) \in Nat
      BY <1>2, <2>2
    <3>2. t[m] = s[k] /\ Exact(f, s[k])
          /\ s[k].output.start = IF k = 1 THEN b ELSE s[k - 1].output.end
      BY <1>2, <3>1 DEF Tiles
    <3>3. CASE k # 1
      <4>1. m - 1 \in Len(r) + 1 .. Len(r) + Len(s) /\ (m - 1) - Len(r) = k - 1 /\ m # 1
        BY <1>2, <3>1, <3>3
      <4>2. t[m - 1] = s[k - 1]
        BY <1>2, <4>1
      <4> QED
        BY <3>2, <3>3, <4>1, <4>2
    <3>4. CASE k = 1 /\ Len(r) # 0
      <4>1. m - 1 = Len(r) /\ Len(r) \in 1 .. Len(r) /\ m # 1
        BY <1>2, <3>1, <3>4
      <4>2. t[m - 1] = r[Len(r)] /\ b = r[Len(r)].output.end
        BY <1>2, <3>4, <4>1 DEF Tiles
      <4> QED
        BY <3>2, <3>4, <4>1, <4>2
    <3>5. CASE k = 1 /\ Len(r) = 0
      <4>1. m = 1 /\ b = a
        BY <1>2, <3>1, <3>5 DEF Tiles
      <4> QED
        BY <3>2, <3>5, <4>1
    <3> QED
      BY <3>3, <3>4, <3>5
  <2> QED
    BY <2>1, <2>2
<1>5. c = IF t = <<>> THEN a ELSE t[Len(t)].output.end
  <2>1. CASE Len(s) = 0
    <3>1. c = b /\ Len(t) = Len(r) /\ (t = <<>> <=> r = <<>>)
      BY <1>2, <2>1 DEF Tiles
    <3>2. Len(r) # 0 => Len(r) \in 1 .. Len(r)
      BY <1>2
    <3> QED
      BY <1>2, <3>1, <3>2, ZenonT(30) DEF Tiles
  <2>2. CASE Len(s) # 0
    <3>1. /\ t # <<>> /\ Len(t) \in Len(r) + 1 .. Len(r) + Len(s) /\ Len(t) - Len(r) = Len(s)
          /\ s # <<>>
      BY <1>2, <2>2
    <3>2. t[Len(t)] = s[Len(s)]
      BY <1>2, <3>1
    <3> QED
      BY <3>1, <3>2 DEF Tiles
  <2> QED
    BY <2>1, <2>2
<1> QED
  BY <1>2, <1>3, <1>4, <1>5 DEF Tiles, t

(* What is known of the shots around shot i.                               *)
LEMMA Around ==
    ASSUME NEW line, Laid(line), NEW i \in DOMAIN line
    PROVE  /\ IsShot(line[i]) /\ i \in Nat
           /\ line[i].at.start \in Nat /\ line[i].at.end \in Nat /\ line[i].cut.end \in Nat
           /\ line[i].at.start <= line[i].cut.end /\ line[i].cut.end <= line[i].at.end
           /\ line[i].cut.start = line[i].at.start
           /\ \A j \in DOMAIN line : j < i => line[j].at.end <= line[i].cut.end
           /\ \A j \in DOMAIN line : i < j => line[i].cut.end <= line[j].at.start
           /\ i + 1 \in DOMAIN line => line[i].at.end = line[i + 1].cut.end
           /\ \A j \in DOMAIN line : i + 1 < j => line[i].at.end <= line[j].at.start
<1>1. DOMAIN line = 1 .. Len(line) /\ Len(line) \in Nat
  BY DEF Laid
<1>2. IsShot(line[i])
  BY DEF Laid
<1>3. \A j \in DOMAIN line : j < i => Precedes(line[j], line[i])
  BY DEF Laid
<1>4. \A j \in DOMAIN line : i < j => Precedes(line[i], line[j])
  BY DEF Laid
<1>5. i + 1 \in DOMAIN line => Adjoins(line[i], line[i + 1])
  BY DEF Laid
<1>6. \A j \in DOMAIN line : i + 1 < j => line[i].at.end <= line[j].at.start
  BY DEF Laid
<1> QED
  BY <1>1, <1>2, <1>3, <1>4, <1>5, <1>6 DEF IsShot, Precedes, Adjoins

LEMMA ShotRegionTiles ==
    ASSUME NEW f, Laid(f.shots), NEW i \in DOMAIN f.shots
    PROVE  Tiles(f, ShotRegion(f, i), f.shots[i].cut.end,
                 IF CutAfter(f, i) THEN f.shots[i + 1].cut.start ELSE f.shots[i].at.end)
<1> DEFINE line == f.shots
           e == IF CutAfter(f, i) THEN line[i + 1].cut.start ELSE line[i].at.end
           r == Region(line[i].at, ExclusiveOutput(f, i), {i})
<1>1. /\ r.output.start = line[i].cut.end /\ r.output.end = e
      /\ r.shots = {i} /\ r.evaluation = line[i].at
      /\ r.output = ExclusiveOutput(f, i)
  BY DEF Region, ExclusiveOutput, Interval
<1>2. ShotRegion(f, i) = IF IsEmpty(r.output) THEN <<>> ELSE <<r>>
  BY <1>1 DEF ShotRegion
<1> HIDE DEF r
<1>3. CASE IsEmpty(r.output)
  <2>1. line[i].cut.end = e
    BY <1>1, <1>3 DEF IsEmpty
  <2> HIDE DEF e, line
  <2>2. Tiles(f, <<>>, line[i].cut.end, e)
    BY <2>1, TilesNothing
  <2> QED
    BY <1>2, <1>3, <2>2 DEF e, line
<1>4. CASE ~IsEmpty(r.output)
  <2>1. /\ line[i].at.start \in Nat /\ line[i].at.end \in Nat /\ line[i].cut.end \in Nat
        /\ line[i].at.start <= line[i].cut.end /\ i \in Nat
        /\ \A j \in DOMAIN line : j < i => line[j].at.end <= line[i].cut.end
        /\ \A j \in DOMAIN line : i + 1 < j => line[i].at.end <= line[j].at.start
    BY Around
  <2>2. ASSUME NEW j \in DOMAIN line
        PROVE  j \in Nat /\ line[j].at.start \in Nat /\ line[j].at.end \in Nat
    BY Around
  <2>3. i + 1 \in DOMAIN line =>
          /\ line[i + 1].cut.start = line[i + 1].at.start
          /\ line[i + 1].cut.end = line[i].at.end
          /\ line[i + 1].at.start \in Nat /\ line[i + 1].at.start <= line[i + 1].cut.end
    <3>1. ASSUME i + 1 \in DOMAIN line
          PROVE  /\ line[i + 1].cut.start = line[i + 1].at.start
                 /\ line[i + 1].at.start \in Nat /\ line[i + 1].at.start <= line[i + 1].cut.end
      BY <3>1, Around
    <3>2. i + 1 \in DOMAIN line => line[i].at.end = line[i + 1].cut.end
      BY Around
    <3> QED
      BY <3>1, <3>2
  <2>4. e \in Nat /\ e <= line[i].at.end /\ (i + 1 \in DOMAIN line => e = line[i + 1].at.start)
    <3>1. CASE CutAfter(f, i)
      BY <2>1, <2>3, <3>1 DEF CutAfter, ShotIndexes
    <3>2. CASE ~CutAfter(f, i)
      <4>1. i + 1 \in DOMAIN line => IsEmpty(line[i + 1].cut)
        BY <3>2 DEF CutAfter, ShotIndexes, HasCut
      <4> QED
        BY <2>1, <2>3, <3>2, <4>1 DEF IsEmpty
    <3> QED
      BY <3>1, <3>2
  <2> HIDE DEF e
  <2>5. ASSUME NEW g \in Frames(r.output) PROVE r.shots = {j \in ShotIndexes(f) : Covers(line[j].at, g)}
    <3>1. g \in line[i].cut.end .. e - 1
      BY <1>1 DEF Frames
    <3>2. Covers(line[i].at, g)
      BY <2>1, <2>4, <3>1 DEF Covers
    <3>3. ASSUME NEW j \in DOMAIN line, j # i PROVE ~Covers(line[j].at, g)
      <4>1. CASE j < i
        BY <2>1, <2>2, <2>4, <3>1, <4>1 DEF Covers
      <4>2. CASE j = i + 1
        BY <2>1, <2>2, <2>4, <3>1, <4>2 DEF Covers
      <4>3. CASE i + 1 < j
        BY <2>1, <2>2, <2>4, <3>1, <4>3 DEF Covers
      <4> QED
        BY <2>1, <2>2, <3>3, <4>1, <4>2, <4>3
    <3> QED
      BY <1>1, <3>2, <3>3 DEF ShotIndexes
  <2>6. \A j \in r.shots : ContainsInterval(r.evaluation, line[j].at)
    BY <1>1, <2>1 DEF ContainsInterval
  <2>7. Exact(f, r)
    BY <1>4, <2>5, <2>6 DEF Exact
  <2>8. Tiles(f, <<r>>, r.output.start, r.output.end)
    BY <2>7, TilesOne
  <2> QED
    BY <1>1, <1>2, <1>4, <2>8 DEF e
<1> QED
  BY <1>3, <1>4

LEMMA TransitionRegionTiles ==
    ASSUME NEW f, Laid(f.shots), NEW i \in DOMAIN f.shots
    PROVE  Tiles(f, TransitionRegion(f, i),
                 IF CutAfter(f, i) THEN f.shots[i + 1].cut.start ELSE f.shots[i].at.end,
                 f.shots[i].at.end)
<1> DEFINE line == f.shots
           r == Region(Interval(line[i].at.start, line[i + 1].at.end), line[i + 1].cut, {i, i + 1})
<1>1. CASE ~CutAfter(f, i)
  <2>1. TransitionRegion(f, i) = <<>>
    BY <1>1 DEF TransitionRegion
  <2>2. Tiles(f, <<>>, line[i].at.end, line[i].at.end)
    BY TilesNothing
  <2> QED
    BY <1>1, <2>1, <2>2
<1>2. CASE CutAfter(f, i)
  <2>1. i + 1 \in DOMAIN line /\ ~IsEmpty(line[i + 1].cut) /\ TransitionRegion(f, i) = <<r>>
    BY <1>2 DEF CutAfter, ShotIndexes, HasCut, TransitionRegion
  <2>2. /\ r.output = line[i + 1].cut /\ r.shots = {i, i + 1}
        /\ r.evaluation.start = line[i].at.start /\ r.evaluation.end = line[i + 1].at.end
    BY DEF Region, Interval
  <2> HIDE DEF r
  <2>3. /\ i \in Nat /\ line[i].at.start \in Nat /\ line[i].at.end \in Nat /\ line[i].cut.end \in Nat
        /\ line[i].at.start <= line[i].cut.end
        /\ \A j \in DOMAIN line : i < j => line[i].cut.end <= line[j].at.start
        /\ line[i].at.end = line[i + 1].cut.end
    BY <2>1, Around
  <2>4. /\ line[i + 1].at.start \in Nat /\ line[i + 1].at.end \in Nat /\ line[i + 1].cut.end \in Nat
        /\ line[i + 1].at.start <= line[i + 1].cut.end /\ line[i + 1].cut.end <= line[i + 1].at.end
        /\ line[i + 1].cut.start = line[i + 1].at.start
        /\ \A j \in DOMAIN line : i + 1 < j => line[i + 1].cut.end <= line[j].at.start
    BY <2>1, Around
  <2>5. ASSUME NEW j \in DOMAIN line
        PROVE  /\ j \in Nat /\ line[j].at.start \in Nat /\ line[j].at.end \in Nat
               /\ j < i => line[j].at.end <= line[i + 1].at.start
    <3>1. /\ j \in Nat /\ line[j].at.start \in Nat /\ line[j].at.end \in Nat
          /\ \A k \in DOMAIN line : j + 1 < k => line[j].at.end <= line[k].at.start
      BY Around
    <3> QED
      BY <2>1, <2>3, <3>1
  <2>6. line[i].at.start <= line[i + 1].at.start
    BY <2>1, <2>3, <2>4
  <2>7. ASSUME NEW g \in Frames(r.output) PROVE r.shots = {j \in ShotIndexes(f) : Covers(line[j].at, g)}
    <3>1. g \in line[i + 1].at.start .. line[i + 1].cut.end - 1
      BY <2>2, <2>4 DEF Frames
    <3>2. Covers(line[i].at, g) /\ Covers(line[i + 1].at, g)
      BY <2>3, <2>4, <2>6, <3>1 DEF Covers
    <3>3. ASSUME NEW j \in DOMAIN line, j # i, j # i + 1 PROVE ~Covers(line[j].at, g)
      <4>1. CASE j < i
        BY <2>4, <2>5, <3>1, <4>1 DEF Covers
      <4>2. CASE i + 1 < j
        BY <2>4, <2>5, <3>1, <4>2 DEF Covers
      <4> QED
        BY <2>3, <2>5, <3>3, <4>1, <4>2
    <3> QED
      BY <2>1, <2>2, <3>2, <3>3 DEF ShotIndexes
  <2>8. \A j \in r.shots : ContainsInterval(r.evaluation, line[j].at)
    BY <2>2, <2>3, <2>4, <2>6 DEF ContainsInterval
  <2>9. Exact(f, r)
    BY <2>1, <2>2, <2>7, <2>8 DEF Exact
  <2>10. Tiles(f, <<r>>, r.output.start, r.output.end)
    BY <2>9, TilesOne
  <2>11. r.output.start = line[i + 1].cut.start /\ r.output.end = line[i].at.end
    BY <2>2, <2>3
  <2> QED
    BY <1>2, <2>1, <2>10, <2>11
<1> QED
  BY <1>1, <1>2

(* The regions of a film tile it.                                          *)
LEMMA RegionsTile ==
    ASSUME NEW f, Laid(f.shots)
    PROVE  Tiles(f, Regions(f), 0, IF f.shots = <<>> THEN 0 ELSE f.shots[Len(f.shots)].at.end)
<1> DEFINE line == f.shots
           n == Len(line)
           part(i) == ShotRegion(f, i) \o TransitionRegion(f, i)
           parts == [i \in ShotIndexes(f) |-> part(i)]
<1>1. line \in Seq(Range(line)) /\ DOMAIN line = 1 .. n /\ n \in Nat /\ (line = <<>> <=> n = 0)
  BY DEF Laid
<1>2. Regions(f) = FlattenSeq(parts)
  BY DEF Regions
<1>3. ASSUME NEW i \in 1 .. n PROVE Tiles(f, part(i), line[i].cut.end, line[i].at.end)
  <2>1. i \in DOMAIN f.shots
    BY <1>1
  <2> QED
    BY ONLY Laid(f.shots), <2>1, ShotRegionTiles, TransitionRegionTiles, TilesJoin
<1> HIDE DEF part
<1>4. parts = [i \in 1 .. n |-> part(i)]
  BY <1>1 DEF ShotIndexes
<1> HIDE DEF parts
<1>5. Len(parts) = n /\ \A i \in 1 .. n : parts[i] = part(i)
  BY <1>1, <1>4
<1>6. CASE n = 0
  <2>1. FlattenSeq(parts) = <<>>
    BY <1>4, <1>6 DEF FlattenSeq
  <2>2. Tiles(f, <<>>, 0, 0)
    BY TilesNothing
  <2> QED
    BY <1>1, <1>2, <1>6, <2>1, <2>2
<1>7. CASE n # 0
  <2>1. Len(parts) \in Nat \ {0}
    BY <1>1, <1>5, <1>7
  <2>2. PICK h : /\ h[1] = parts[1]
                 /\ \A i \in 2 .. Len(parts) : h[i] = h[i - 1] \o parts[i]
                 /\ FlattenSeq(parts) = h[Len(parts)]
    BY <2>1, Flattens
  <2> DEFINE P == {i \in 1 .. n : Tiles(f, h[i], 0, line[i].at.end)}
  <2>3. 1 \in P
    <3>1. 1 \in 1 .. n /\ h[1] = part(1) /\ line[1].cut.end = 0
      BY <1>1, <1>5, <1>7, <2>2 DEF Laid
    <3> QED
      BY <1>3, <3>1
  <2>4. ASSUME NEW i \in 1 .. n - 1, i \in P PROVE i + 1 \in P
    <3>1. i \in DOMAIN line /\ i + 1 \in DOMAIN line /\ i + 1 \in 1 .. n /\ i + 1 \in 2 .. Len(parts)
          /\ (i + 1) - 1 = i
      BY <1>1, <1>5
    <3>2. h[i + 1] = h[i] \o part(i + 1)
      BY <1>5, <2>2, <3>1
    <3>3. line[i].at.end = line[i + 1].cut.end
      BY <3>1, Around
    <3>4. Tiles(f, part(i + 1), line[i].at.end, line[i + 1].at.end)
      BY <1>3, <3>1, <3>3
    <3>5. Tiles(f, h[i], 0, line[i].at.end)
      BY <2>4
    <3>6. Tiles(f, h[i] \o part(i + 1), 0, line[i + 1].at.end)
      BY ONLY <3>4, <3>5, TilesJoin
    <3> QED
      BY <3>1, <3>2, <3>6
  <2>5. \A i \in 1 .. n - 1 : i \in P => i + 1 \in P
    BY <2>4
  <2> HIDE DEF P
  <2>6. 1 .. n \subseteq P
    BY ONLY <1>1, <2>3, <2>5, Positions
  <2>7. n \in P
    BY <1>1, <1>7, <2>6
  <2> QED
    BY <1>1, <1>2, <1>5, <1>7, <2>2, <2>7 DEF P
<1> QED
  BY <1>6, <1>7

(* The outputs of the regions tile the film in order, and each region      *)
(* selects exactly the shots that play at each of its frames and evaluates *)
(* them as a whole.                                                        *)
THEOREM PartitionIsExactHolds == Spec => []PartitionIsExact
<1>1. ASSUME TInv PROVE PartitionIsExact
  <2> SUFFICES ASSUME phase = "timed"
               PROVE  LET regions == Regions(TheFilm)
                          last(n) == IF n = 0 THEN 0 ELSE regions[n].output.end
                      IN /\ \A n \in DOMAIN regions :
                              LET r == regions[n] IN
                              /\ r.output.start = last(n - 1) /\ ~IsEmpty(r.output)
                              /\ \A f \in Frames(r.output) :
                                   r.shots = {i \in ShotIndexes(TheFilm) :
                                                Covers(TheFilm.shots[i].at, f)}
                              /\ \A i \in r.shots : ContainsInterval(r.evaluation, TheFilm.shots[i].at)
                         /\ last(Len(regions)) = TheFilm.end
    BY DEF PartitionIsExact
  <2> DEFINE regions == Regions(TheFilm)
             f == TheFilm
             end == IF f.shots = <<>> THEN 0 ELSE f.shots[Len(f.shots)].at.end
  <2>1. f \in film /\ diagnostics = {}
    BY <1>1 DEF TInv, Kept, TheFilm
  <2>2. f.shots = shots /\ f.end = cursor
    BY <1>1, <2>1 DEF TInv, Kept
  <2>3. Laid(shots) /\ AtEnd
    BY <1>1, <2>1 DEF TInv, Line, Reported
  <2>4. f.end = end
    BY <2>2, <2>3 DEF AtEnd
  <2>5. Tiles(f, regions, 0, end)
    BY <2>2, <2>3, RegionsTile
  <2> HIDE DEF regions, f, end
  <2>6. regions \in Seq(Range(regions))
    BY <2>5 DEF Tiles
  <2>7. Len(regions) \in Nat /\ DOMAIN regions = 1 .. Len(regions) /\ (regions = <<>> <=> Len(regions) = 0)
    BY <2>6
  <2>8. ASSUME NEW m \in DOMAIN regions
        PROVE  /\ regions[m].output.start = IF m - 1 = 0 THEN 0 ELSE regions[m - 1].output.end
               /\ ~IsEmpty(regions[m].output)
               /\ \A g \in Frames(regions[m].output) :
                    regions[m].shots = {i \in ShotIndexes(f) : Covers(f.shots[i].at, g)}
               /\ \A i \in regions[m].shots : ContainsInterval(regions[m].evaluation, f.shots[i].at)
    <3>1. m = 1 <=> m - 1 = 0
      BY <2>7
    <3> QED
      BY <2>5, <3>1 DEF Tiles, Exact
  <2>9. (IF Len(regions) = 0 THEN 0 ELSE regions[Len(regions)].output.end) = f.end
    BY <2>4, <2>5, <2>7 DEF Tiles
  <2> QED
    BY <2>8, <2>9 DEF regions, f
<1> QED
  BY <1>1, SolverHolds, PTL

(* What has been placed lies in the frame domain, and the later phases     *)
(* have what they work on.                                                 *)
THEOREM CompilationTypesHold == Spec => []CompilationTypeOK
<1>1. ASSUME TInv PROVE CompilationTypeOK
  <2>1. /\ phase \in {"cues", "shots", "solved", "rejected", "failed", "timed", "planned"}
        /\ cursor \in 0 .. MaxFrame /\ lost \in BOOLEAN /\ rejected \in BOOLEAN
        /\ events \subseteq 0 .. MaxFrame
        /\ scenes \in Seq(Intervals(0 .. MaxFrame))
        /\ \A e \in Range(effects) : e.at \in Intervals(0 .. MaxFrame)
        /\ phase = "rejected" => diagnostics # {}
    BY <1>1 DEF TInv, Control, Entered, Sounding, Reported, IsOptional
  <2>2. ASSUME NEW i \in DOMAIN shots
        PROVE  /\ {shots[i].at, shots[i].cut} \subseteq Intervals(0 .. MaxFrame)
               /\ shots[i].scene \in DOMAIN scenes
               /\ \A c \in Range(shots[i].content) : c.at \in Intervals(0 .. MaxFrame)
    <3>1. IsShot(shots[i]) /\ shots[i].scene \in DOMAIN scenes
      BY <1>1 DEF TInv, Line, Laid
    <3>2. \A a, b \in 0 .. MaxFrame : a <= b => Interval(a, b) \in Intervals(0 .. MaxFrame)
      BY DEF Interval, Intervals
    <3>3. ASSUME NEW c \in Range(shots[i].content) PROVE c.at \in Intervals(0 .. MaxFrame)
      <4>1. Within(c, shots[i].at)
        BY <3>1 DEF IsShot
      <4>2. /\ c.at.start \in 0 .. MaxFrame /\ c.at.end \in 0 .. MaxFrame /\ c.at.start <= c.at.end
            /\ c.at = Interval(c.at.start, c.at.end)
        BY <3>1, <4>1, SolveAssumption DEF IsShot, Within
      <4> QED
        BY <3>2, <4>2
    <3>4. shots[i].at \in Intervals(0 .. MaxFrame) /\ shots[i].cut \in Intervals(0 .. MaxFrame)
      <4>1. /\ shots[i].at = Interval(shots[i].at.start, shots[i].at.end)
            /\ shots[i].cut = Interval(shots[i].at.start, shots[i].cut.end)
            /\ {shots[i].at.start, shots[i].at.end, shots[i].cut.end} \subseteq 0 .. MaxFrame
            /\ shots[i].at.start <= shots[i].cut.end /\ shots[i].at.start <= shots[i].at.end
        BY <3>1, SolveAssumption DEF IsShot
      <4> HIDE DEF Interval
      <4>2. Interval(shots[i].at.start, shots[i].at.end) \in Intervals(0 .. MaxFrame)
        BY <3>2, <4>1
      <4>3. Interval(shots[i].at.start, shots[i].cut.end) \in Intervals(0 .. MaxFrame)
        BY <3>2, <4>1
      <4> QED
        BY <4>1, <4>2, <4>3
    <3> QED
      BY <3>1, <3>3, <3>4
  <2>3. Cardinality(film) = IF phase \in {"solved", "timed", "planned"} THEN 1 ELSE
                              IF phase = "failed" THEN Cardinality(film) ELSE 0
    <3>1. film = {} \/ \E f : film = {f}
      <4>1. \A f, g \in film : f = g
        BY <1>1 DEF TInv, Kept
      <4>2. ASSUME NEW f \in film PROVE film = {f}
        BY <4>1
      <4> QED
        BY <4>2
    <3>2. /\ phase \in {"solved", "timed", "planned"} => film # {}
          /\ phase \notin {"solved", "timed", "planned", "failed"} => film = {}
      BY <1>1 DEF TInv, Kept
    <3>3. Cardinality({}) = 0 /\ \A f : Cardinality({f}) = 1
      BY FS_EmptySet, FS_Singleton
    <3> QED
      BY <3>1, <3>2, <3>3
  <2> QED
    BY <2>1, <2>2, <2>3 DEF CompilationTypeOK
<1> QED
  BY <1>1, SolverHolds, PTL

(***************************************************************************)
(* Source frames.                                                          *)

(* What rounding down and up mean, without a quotient.                     *)
LEMMA RoundsDown ==
    ASSUME NEW a \in Int, NEW b \in Nat \ {0}, NEW n \in Int
    PROVE  a \div b \in Int /\ (n <= a \div b <=> n * b <= a)
<1> DEFINE q == a \div b
<1>1. q \in Int /\ q * b <= a /\ a < q * b + b
  OBVIOUS
<1> HIDE DEF q
<1>2. CASE n <= q
  <2>1. n * b <= q * b
    BY <1>1, <1>2
  <2> QED
    BY <1>1, <1>2, <2>1 DEF q
<1>3. CASE q + 1 <= n
  <2>1. q * b + b <= n * b
    BY <1>1, <1>3
  <2> QED
    BY <1>1, <1>3, <2>1 DEF q
<1> QED
  BY <1>1, <1>2, <1>3

(* The quotient rounded up is the least integer that reaches the          *)
(* fraction.                                                              *)
LEMMA RoundsUp ==
    ASSUME NEW a \in Int, NEW b \in Nat \ {0}, NEW n \in Int
    PROVE  CeilDiv(a, b) \in Int /\ (CeilDiv(a, b) <= n <=> a <= n * b)
<1>1. CeilDiv(a, b) = (a + b - 1) \div b /\ a + b - 1 \in Int /\ n + 1 \in Int
  BY DEF CeilDiv
<1>2. CeilDiv(a, b) \in Int /\ (n + 1 <= CeilDiv(a, b) <=> (n + 1) * b <= a + b - 1)
  BY <1>1, RoundsDown
<1>3. (n + 1) * b = n * b + b /\ n * b \in Int
  OBVIOUS
<1> QED
  BY <1>2, <1>3

(* What a treatment's arithmetic is in terms of five products: an output   *)
(* frame, the plays, a source frame and the nanosecond, in common units.   *)
Source(t) == IsTreatment(t) /\ t.start < t.end /\ t.plays = 1

Elapsed(t, k) == (2 * k + 1) * PlaybackDenominator(t)
Pass(t) == (t.end - t.start) * TimeDenominator(t)
FrameUnit(t) == TimeDenominator(t) * NanosPerSecond * t.rate.den

(* Positive factors have a positive product.                              *)
LEMMA Products == \A a, b \in Nat \ {0} : a * b \in Nat \ {0}
  OBVIOUS

(* The numbers of a source, and what the three parties compute from them. *)
LEMMA SourceTypes ==
    ASSUME NEW t, Source(t)
    PROVE  /\ {t.start, t.end, t.frames} \subseteq Nat
           /\ {t.rate.num, t.rate.den, t.speed.num, t.speed.den} \subseteq Nat \ {0}
           /\ {NanosPerSecond, OutputRate.num, OutputRate.den} \subseteq Nat \ {0}
           /\ PlaybackDenominator(t) \in Nat \ {0}
           /\ TimeDenominator(t) \in Nat \ {0}
           /\ NanosPerSecond * t.rate.den \in Nat \ {0}
           /\ FrameUnit(t) \in Nat \ {0}
<1>1. /\ {t.start, t.end, t.frames} \subseteq Nat
      /\ {t.rate.num, t.rate.den, t.speed.num, t.speed.den} \subseteq Nat \ {0}
      /\ {NanosPerSecond, OutputRate.num, OutputRate.den} \subseteq Nat \ {0}
  BY MediaTimeAssumption DEF Source, IsTreatment
<1>2. PlaybackDenominator(t) \in Nat \ {0}
  BY ONLY <1>1, Products, Zenon DEF PlaybackDenominator
<1>3. TimeDenominator(t) \in Nat \ {0}
  <2>1. 2 \in Nat \ {0}
    OBVIOUS
  <2> QED
    BY ONLY <1>1, <2>1, Products, Zenon DEF TimeDenominator
<1>4. NanosPerSecond * t.rate.den \in Nat \ {0}
  BY ONLY <1>1, Products, Zenon
<1>5. FrameUnit(t) \in Nat \ {0}
  BY ONLY <1>1, <1>3, Products, Zenon DEF FrameUnit
<1> QED
  BY <1>1, <1>2, <1>3, <1>4, <1>5

(* An output frame is before the hold if its midpoint is in the plays.     *)
LEMMA BeforeHold ==
    ASSUME NEW t, Source(t), NEW k \in Nat
    PROVE  k < FramesBeforeHold(t) <=> Elapsed(t, k) < Pass(t)
<1> DEFINE D == PlaybackDenominator(t)
           P == Pass(t)
           distance == 2 * PlaybackNumerator(t) - D
<1>1. D \in Nat \ {0} /\ P \in Nat
  <2>1. t.end - t.start \in Nat /\ TimeDenominator(t) \in Nat /\ D \in Nat \ {0}
    BY SourceTypes DEF Source
  <2> QED
    BY <2>1 DEF Pass
<1>2. 2 * PlaybackNumerator(t) = P
  <2>1. /\ t.plays = 1 /\ t.end - t.start \in Nat /\ t.speed.den \in Nat /\ OutputRate.num \in Nat
    BY SourceTypes DEF Source
  <2>2. \A a, b, c \in Nat : 2 * (a * b * 1 * c) = a * (2 * c * b)
    OBVIOUS
  <2> QED
    BY <2>1, <2>2 DEF PlaybackNumerator, Pass, TimeDenominator
<1>3. FramesBeforeHold(t) = IF distance < 0 THEN 0 ELSE CeilDiv(distance, 2 * D)
  BY DEF FramesBeforeHold
<1>4. distance = P - D /\ distance \in Int
  BY <1>1, <1>2
<1>5. Elapsed(t, k) = k * (2 * D) + D
  <2>1. \A d \in Nat : (2 * k + 1) * d = k * (2 * d) + d
    OBVIOUS
  <2> QED
    BY <1>1, <2>1 DEF Elapsed
<1>6. 2 * D \in Nat \ {0} /\ k * (2 * D) \in Nat
  BY <1>1
<1> DEFINE E == 2 * D
<1> HIDE DEF D, P, distance, E
<1>7. CeilDiv(distance, 2 * D) \in Int /\ (CeilDiv(distance, 2 * D) <= k <=> distance <= k * (2 * D))
  <2>1. distance \in Int /\ E \in Nat \ {0} /\ k \in Int
    BY <1>4, <1>6 DEF E
  <2>2. CeilDiv(distance, E) \in Int /\ (CeilDiv(distance, E) <= k <=> distance <= k * E)
    BY ONLY <2>1, RoundsUp
  <2> QED
    BY <2>2 DEF E
<1> QED
  BY <1>1, <1>3, <1>4, <1>5, <1>6, <1>7 DEF P

(* The page shows source frame n or a later one before the hold.           *)
Begun(t, n, k) ==
    n * FrameUnit(t) <= t.rate.num * (t.start * TimeDenominator(t) + Elapsed(t, k))

(* Before the hold the page shows the last source frame that has begun at *)
(* the midpoint.                                                          *)
LEMMA BrowserBeforeHold ==
    ASSUME NEW t, Source(t), NEW k \in Nat, k < FramesBeforeHold(t)
    PROVE  /\ BrowserFrame(t, k) \in Nat
           /\ \A n \in Int : n <= BrowserFrame(t, k) <=> Begun(t, n, k)
<1> DEFINE D == TimeDenominator(t)
           B == FrameUnit(t)
           R == t.rate.num
           N == NanosPerSecond * t.rate.den
           e == Elapsed(t, k)
           T == t.start * D + e
           last == ExclusiveEnd(t)
<1>1. /\ D \in Nat \ {0} /\ B \in Nat \ {0} /\ R \in Nat \ {0} /\ N \in Nat \ {0}
      /\ t.start \in Nat /\ t.end \in Nat /\ t.start < t.end /\ t.plays = 1
  BY SourceTypes DEF Source
<1>2. B = D * N
  <2>1. NanosPerSecond \in Nat /\ t.rate.den \in Nat
    BY SourceTypes
  <2>2. \A a, b, c \in Nat : a * b * c = a * (b * c)
    OBVIOUS
  <2> QED
    BY <1>1, <2>1, <2>2 DEF FrameUnit
<1>3. e \in Nat /\ e < Pass(t) /\ Pass(t) = (t.end - t.start) * D
  <2>1. PlaybackDenominator(t) \in Nat /\ 2 * k + 1 \in Nat
    BY SourceTypes
  <2>2. e \in Nat
    BY <2>1 DEF Elapsed
  <2> QED
    BY <2>2, BeforeHold DEF Pass
<1>4. TimeNumerator(t, k) = T
  <2>1. e = (2 * k + 1) * OutputRate.den * t.speed.num * NanosPerSecond
    <3>1. \A m, a, b, c \in Nat : m * (a * b * c) = m * b * c * a
      OBVIOUS
    <3>2. 2 * k + 1 \in Nat /\ {NanosPerSecond, OutputRate.den, t.speed.num} \subseteq Nat
      BY SourceTypes
    <3> QED
      BY <3>1, <3>2 DEF Elapsed, PlaybackDenominator
  <2>2. Pass(t) \in Nat
    BY <1>1, <1>3
  <2>3. e % Pass(t) = e /\ Pass(t) * t.plays = Pass(t)
    BY <1>1, <1>3, <2>2
  <2> QED
    BY <1>3, <2>1, <2>3 DEF TimeNumerator, Pass
<1>5. T \in Nat /\ T < t.end * D
  BY <1>1, <1>3
<1> DEFINE selected == (T * R) \div B
<1> HIDE DEF D, B, R, N, e, T, last
<1>6. T * R \in Nat
  BY <1>1, <1>5
<1>7. \A n \in Int : selected \in Int /\ (n <= selected <=> n * B <= T * R)
  BY ONLY <1>1, <1>6, RoundsDown
<1> HIDE DEF selected
<1>8. selected \in Nat
  <2>1. 0 <= selected <=> 0 * B <= T * R
    BY <1>7
  <2> QED
    BY <1>1, <1>6, <1>7, <2>1
<1>9. last \in Int /\ selected < last
  <2>1. t.end * R \in Int
    BY <1>1
  <2>2. last = CeilDiv(t.end * R, N)
    BY DEF ExclusiveEnd, last, R, N
  <2>3. \A n \in Int : last \in Int /\ (last <= n <=> t.end * R <= n * N)
    BY ONLY <1>1, <2>1, <2>2, RoundsUp
  <2>4. ~(t.end * R <= selected * N)
    <3>1. selected * B <= T * R
      BY <1>7, <1>8
    <3>2. T * R < t.end * D * R
      BY <1>1, <1>5
    <3>3. selected * B = (selected * N) * D /\ t.end * D * R = (t.end * R) * D
      BY <1>1, <1>2, <1>8
    <3>4. selected * N \in Nat
      BY <1>1, <1>8
    <3>5. \A a, b \in Int : a <= b => a * D <= b * D
      BY <1>1
    <3>6. (t.end * R) * D \in Int /\ (selected * N) * D \in Int
      BY <1>1, <2>1, <3>4
    <3> QED
      BY ONLY <1>6, <2>1, <3>1, <3>2, <3>3, <3>4, <3>5, <3>6, SMT
  <2> QED
    BY <1>8, <2>3, <2>4
<1>10. BrowserFrame(t, k) = selected
  BY <1>4, <1>9 DEF BrowserFrame, selected, last, R, B, FrameUnit
<1> QED
  <2>1. T * R = R * T
    BY <1>1, <1>5
  <2> QED
    BY <1>7, <1>8, <1>10, <2>1 DEF Begun, T, R, B, e, D

(* FFmpeg has begun source frame n.                                        *)
LEMMA NativeBeforeHold ==
    ASSUME NEW t, Source(t), NEW k \in Nat, NEW n \in Nat
    PROVE  PresentedFrom(t, n) <= k <=> Begun(t, n, k)
<1> DEFINE R == t.rate.num
           D == PlaybackDenominator(t)
           unit == R * NanosPerSecond * OutputRate.den * t.speed.num
           at == (n * t.rate.den * NanosPerSecond - t.start * R) * OutputRate.num * t.speed.den
<1>1. /\ {n, k, R, t.rate.den, NanosPerSecond, t.start, OutputRate.num, t.speed.den, OutputRate.den,
          t.speed.num} \subseteq Nat
      /\ D \in Nat \ {0} /\ R \in Nat \ {0} /\ TimeDenominator(t) \in Nat
  BY SourceTypes
<1>2. unit = R * D /\ unit \in Nat \ {0}
  <2>1. \A r, a, b, c \in Nat : r * a * b * c = r * (a * b * c)
    OBVIOUS
  <2>2. unit = R * D
    BY <1>1, <2>1 DEF PlaybackDenominator
  <2> QED
    BY <1>1, <2>2
<1>3. 2 * at = n * FrameUnit(t) - t.start * R * TimeDenominator(t)
  <2>1. \A i, r, d, s, p, q, b \in Nat :
          2 * ((i * d * b - s * r) * p * q) = i * (2 * p * q * b * d) - s * r * (2 * p * q)
    OBVIOUS
  <2> QED
    BY <1>1, <2>1 DEF FrameUnit, TimeDenominator
<1>4. PresentedFrom(t, n) = CeilDiv(2 * at - unit, 2 * unit)
  BY DEF PresentedFrom
<1>5. at \in Int
  <2>1. n * t.rate.den * NanosPerSecond - t.start * R \in Int
    BY <1>1
  <2>2. \A a \in Int, b, c \in Nat : a * b * c \in Int
    OBVIOUS
  <2> QED
    BY <1>1, <2>1, <2>2
<1> DEFINE x == 2 * at - unit
           y == 2 * unit
<1>6. x \in Int /\ y \in Nat \ {0} /\ k \in Int
  BY <1>2, <1>5
<1> HIDE DEF at, unit
<1>7. PresentedFrom(t, n) <= k <=> x <= k * y
  <2> HIDE DEF x, y
  <2>1. CeilDiv(x, y) <= k <=> x <= k * y
    BY ONLY <1>6, RoundsUp
  <2> QED
    BY <1>4, <2>1 DEF x, y
<1>8. k * y = 2 * k * unit
  BY <1>1, <1>2
<1>9. R * (t.start * TimeDenominator(t) + Elapsed(t, k))
        = t.start * R * TimeDenominator(t) + 2 * k * unit + unit
  <2> DEFINE s == t.start
             d == TimeDenominator(t)
  <2>1. R \in Nat /\ s \in Nat /\ d \in Nat /\ D \in Nat
    BY <1>1
  <2> HIDE DEF R, s, d, D
  <2>2. R * (s * d + (2 * k + 1) * D) = s * R * d + 2 * k * (R * D) + R * D
    BY ONLY <2>1, k \in Nat, SMT
  <2> QED
    BY ONLY <1>2, <2>2, Zenon DEF Elapsed, D, s, d
<1>10. t.start * R * TimeDenominator(t) \in Nat /\ 2 * k * unit \in Nat /\ n * FrameUnit(t) \in Nat
  <2>1. \A a, b, c \in Nat : a * b * c \in Nat
    OBVIOUS
  <2>2. FrameUnit(t) \in Nat
    BY SourceTypes
  <2> QED
    BY <1>1, <1>2, <2>1, <2>2
<1> QED
  BY <1>2, <1>3, <1>5, <1>7, <1>8, <1>9, <1>10 DEF Begun, x, R

(* The two places where page and FFmpeg round differently: the source must *)
(* have the frames the page selects before the hold, and the page must     *)
(* find the last frame of the selection in the instant before its end.     *)
RoundsAlike(t) ==
    /\ \A k \in 0 .. FramesBeforeHold(t) - 1 : BrowserFrame(t, k) < t.frames
    /\ (ExclusiveEnd(t) - 1) * FrameUnit(t) <= (t.end * TimeDenominator(t) - 1) * t.rate.num

(* While the source is held the page shows the last frame of the          *)
(* selection.                                                             *)
LEMMA BrowserHolds ==
    ASSUME NEW t, Source(t), RoundsAlike(t), NEW k \in Nat, ~(k < FramesBeforeHold(t))
    PROVE  BrowserFrame(t, k) = ExclusiveEnd(t) - 1
<1> DEFINE D == TimeDenominator(t)
           B == FrameUnit(t)
           R == t.rate.num
           T == t.end * D - 1
           selected == (T * R) \div B
<1>1. D \in Nat \ {0} /\ B \in Nat \ {0} /\ R \in Nat \ {0} /\ t.end \in Nat /\ t.plays = 1
  BY SourceTypes DEF Source
<1>2. Elapsed(t, k) = (2 * k + 1) * OutputRate.den * t.speed.num * NanosPerSecond
  <2>1. \A m, a, b, c \in Nat : m * (a * b * c) = m * b * c * a
    OBVIOUS
  <2>2. 2 * k + 1 \in Nat /\ {NanosPerSecond, OutputRate.den, t.speed.num} \subseteq Nat
    BY SourceTypes
  <2> QED
    BY <2>1, <2>2 DEF Elapsed, PlaybackDenominator
<1>3. ~(Elapsed(t, k) < Pass(t)) /\ Pass(t) * t.plays = Pass(t)
  <2>1. t.end - t.start \in Nat
    BY SourceTypes DEF Source
  <2>2. Pass(t) \in Nat
    BY <1>1, <2>1 DEF Pass
  <2> QED
    BY <1>1, <2>2, BeforeHold
<1>4. TimeNumerator(t, k) = T
  BY <1>2, <1>3 DEF TimeNumerator, Pass
<1>5. T \in Int /\ T * R \in Int
  BY <1>1
<1>6. ExclusiveEnd(t) - 1 \in Int /\ ExclusiveEnd(t) \in Int
  <2>1. NanosPerSecond * t.rate.den \in Nat \ {0} /\ t.end * t.rate.num \in Int
    BY <1>1, SourceTypes
  <2> QED
    BY <2>1, RoundsUp DEF ExclusiveEnd
<1>7. selected \in Int /\ ExclusiveEnd(t) - 1 <= selected
  <2>1. (ExclusiveEnd(t) - 1) * B <= T * R
    BY DEF RoundsAlike
  <2> HIDE DEF B, T, R
  <2> QED
    BY <1>1, <1>5, <1>6, <2>1, RoundsDown
<1> HIDE DEF selected, T
<1>8. BrowserFrame(t, k) = IF selected < ExclusiveEnd(t) THEN selected ELSE ExclusiveEnd(t) - 1
  BY <1>4 DEF BrowserFrame, FrameUnit, selected
<1> QED
  BY <1>6, <1>7, <1>8

(* At each of its frames a video that is scheduled natively shows the      *)
(* source frame that the page would show.                                  *)
THEOREM FramesAgree ==
    ASSUME NEW t, Source(t), RoundsAlike(t), NEW k \in Nat
    PROVE  NativeFrame(t, k) = BrowserFrame(t, k)
<1>1. CASE ~(k < FramesBeforeHold(t))
  BY <1>1, BrowserHolds DEF NativeFrame
<1>2. CASE k < FramesBeforeHold(t)
  <2> DEFINE b == BrowserFrame(t, k)
  <2>1. b \in Nat /\ \A n \in Int : n <= b <=> Begun(t, n, k)
    BY <1>2, BrowserBeforeHold
  <2>2. FramesBeforeHold(t) \in Int
    <3>1. PlaybackDenominator(t) \in Nat \ {0} /\ PlaybackNumerator(t) \in Int
      <4>1. \A x, y, z, w \in Int : x * y * z * w \in Int
        OBVIOUS
      <4>2. {t.end, t.start, t.speed.den, t.plays, OutputRate.num} \subseteq Int
        BY SourceTypes DEF Source
      <4>3. t.end - t.start \in Int
        BY <4>2
      <4> QED
        BY <4>1, <4>2, <4>3, SourceTypes DEF PlaybackNumerator
    <3>2. 2 * PlaybackDenominator(t) \in Nat \ {0}
          /\ 2 * PlaybackNumerator(t) - PlaybackDenominator(t) \in Int
      BY <3>1
    <3> QED
      BY <3>2, RoundsUp, SMTT(30) DEF FramesBeforeHold
  <2>3. b < t.frames
    BY <1>2, <2>2 DEF RoundsAlike
  <2>4. t.frames \in Nat
    BY SourceTypes
  <2> HIDE DEF b
  <2>5. b \in 0 .. t.frames - 1
    BY <2>1, <2>3, <2>4
  <2>6. \A n \in 0 .. t.frames - 1 : PresentedFrom(t, n) <= k <=> n <= b
    BY <2>1, NativeBeforeHold
  <2>7. \A n \in 0 .. t.frames - 1 : PresentedFrom(t, n) \in Int
    <3> SUFFICES ASSUME NEW n \in 0 .. t.frames - 1 PROVE PresentedFrom(t, n) \in Int
      OBVIOUS
    <3> DEFINE unit == t.rate.num * NanosPerSecond * OutputRate.den * t.speed.num
               at == (n * t.rate.den * NanosPerSecond - t.start * t.rate.num)
                       * OutputRate.num * t.speed.den
    <3>1. {n, t.start} \subseteq Nat
          /\ {NanosPerSecond, OutputRate.den, OutputRate.num, t.rate.den, t.rate.num,
              t.speed.den, t.speed.num} \subseteq Nat \ {0}
      BY SourceTypes
    <3>2. unit \in Nat \ {0}
      BY ONLY <3>1, Products, Zenon
    <3>3. at \in Int
      <4>1. \A x, y, z \in Int : x * y * z \in Int
        OBVIOUS
      <4>2. n * t.rate.den * NanosPerSecond - t.start * t.rate.num \in Int
        BY <3>1
      <4> QED
        BY <3>1, <4>1, <4>2
    <3> HIDE DEF unit, at
    <3>4. 2 * at - unit \in Int /\ 2 * unit \in Nat \ {0}
      BY <3>2, <3>3
    <3> QED
      BY <3>4, RoundsUp DEF PresentedFrom, unit, at
  <2>8. Retimed(t, k) = b
    <3>1. PresentedFrom(t, b) <= k /\ \A m \in b + 1 .. t.frames - 1 : PresentedFrom(t, m) > k
      <4>1. ASSUME NEW m \in b + 1 .. t.frames - 1 PROVE PresentedFrom(t, m) > k
        <5>1. m \in 0 .. t.frames - 1 /\ ~(m <= b)
          BY <2>1, <2>4
        <5> QED
          BY <2>6, <2>7, <5>1
      <4> QED
        BY <2>1, <2>5, <2>6, <4>1
    <3>2. ASSUME NEW n \in 0 .. t.frames - 1, PresentedFrom(t, n) <= k,
                 \A m \in n + 1 .. t.frames - 1 : PresentedFrom(t, m) > k
          PROVE  n = b
      <4>1. n <= b
        BY <2>6, <3>2
      <4>2. ~(n < b)
        <5>1. ASSUME n < b PROVE FALSE
          <6>1. b \in n + 1 .. t.frames - 1
            BY <2>5, <5>1
          <6> QED
            BY <2>5, <2>7, <3>1, <3>2, <6>1
        <5> QED
          BY <5>1
      <4> QED
        BY <2>5, <4>1, <4>2
    <3> QED
      BY <2>5, <3>1, <3>2 DEF Retimed
  <2> QED
    BY <1>2, <2>8 DEF NativeFrame, b
<1> QED
  BY <1>1, <1>2

(***************************************************************************)
(* Where FFmpeg draws.                                                     *)

(* Max and Min of two integers.                                           *)
LEMMA MaxMinOfTwo ==
    ASSUME NEW a \in Int, NEW b \in Int
    PROVE  /\ a <= b => Max({a, b}) = b /\ Max({b, a}) = b
           /\ a <= b => Min({a, b}) = a /\ Min({b, a}) = a
  BY DEF Max, Min

(* One axis on which the whole picture shows: its extent on the canvas is  *)
(* `size`, and the room left is divided by the position.                   *)
LEMMA StandsWhole ==
    ASSUME NEW x \in Nat, NEW width \in Nat, NEW n \in Nat, NEW k,
           k.num \in Nat \ {0}, k.den \in Nat \ {0}, NEW position \in 0 .. PositionScale,
           NEW size \in Nat, size * k.den = n * k.num, size <= width,
           NEW by \in Nat, by * PositionScale = (width - size) * position
    PROVE  StandsOn(x, width, n, k, position, 0, n, x + by, size)
<1> DEFINE P == PositionScale
           d == k.den
           m == k.num
<1>1. P \in Nat \ {0} /\ d \in Nat \ {0} /\ m \in Nat \ {0}
  BY LayoutAssumption
<1> HIDE DEF P, d, m
<1> DEFINE left == x * d * P + (width * d - n * m) * position
           image(p) == left + p * m * P
           edge(p) == p * d * P
<1>2. size * d = n * m /\ by * P = (width - size) * position /\ position \in Nat /\ position <= P
  BY DEF P, d, m
<1>3. left = (x + by) * d * P
  <2>1. left = x * d * P + (width * d - size * d) * position
    BY <1>2
  <2>2. (width * d - size * d) * position = d * ((width - size) * position)
    BY <1>1, <1>2
  <2>3. d * (by * P) = by * d * P
    BY <1>1
  <2>4. (x + by) * d * P = x * d * P + by * d * P
    BY <1>1
  <2> QED
    BY <1>2, <2>1, <2>2, <2>3, <2>4
<1>4. image(0) = edge(x + by)
  BY <1>1, <1>3
<1>5. image(0 + n) = edge(x + by + size)
  <2>1. n * m * P = size * d * P
    BY <1>2
  <2>2. (x + by + size) * d * P = (x + by) * d * P + size * d * P
    BY <1>1
  <2> QED
    BY <1>1, <1>3, <2>1, <2>2
<1>6. by <= width - size
  <2>1. (width - size) * position <= (width - size) * P
    BY <1>1, <1>2
  <2>2. by * P <= (width - size) * P
    BY <1>2, <2>1
  <2>3. \A a, b \in Nat : a * P <= b * P => a <= b
    BY <1>1
  <2> QED
    BY <2>2, <2>3
<1>7. \A a, b \in Nat : a <= b => edge(a) \in Nat /\ edge(b) \in Nat /\ edge(a) <= edge(b)
  BY <1>1
<1> HIDE DEF left, image, edge
<1>8. edge(x + by) = Max({edge(x), image(0)})
  <2>1. x \in Nat /\ x + by \in Nat /\ x <= x + by
    OBVIOUS
  <2>2. edge(x) \in Int /\ edge(x + by) \in Int /\ edge(x) <= edge(x + by)
    BY ONLY <1>7, <2>1
  <2>3. edge(x + by) = Max({edge(x), edge(x + by)})
    BY ONLY <2>2, MaxMinOfTwo
  <2> QED
    BY <1>4, <2>3
<1>9. edge(x + by + size) = Min({edge(x + width), image(n)})
  <2>1. x + by + size \in Nat /\ x + width \in Nat /\ x + by + size <= x + width
    BY <1>6
  <2>2. image(n) = edge(x + by + size)
    BY <1>5
  <2> DEFINE a == edge(x + by + size)
             b == edge(x + width)
  <2>3. a \in Int /\ b \in Int /\ a <= b
    BY ONLY <1>7, <2>1
  <2> HIDE DEF a, b
  <2>4. a = Min({b, a})
    BY ONLY <2>3, MaxMinOfTwo
  <2> QED
    BY <2>2, <2>4 DEF a, b
<1> QED
  BY <1>4, <1>5, <1>8, <1>9 DEF StandsOn, edge, image, left, P, d, m

(* One axis on which the picture fills the element: `length` of its n      *)
(* pixels show, and those cut off are divided by the position.             *)
LEMMA StandsCropped ==
    ASSUME NEW x \in Nat, NEW width \in Nat, NEW n \in Nat, NEW k,
           k.num \in Nat \ {0}, k.den \in Nat \ {0}, NEW position \in 0 .. PositionScale,
           NEW length \in Nat, width * k.den = length * k.num, length <= n,
           NEW by \in Nat, by * PositionScale = (n - length) * position
    PROVE  StandsOn(x, width, n, k, position, by, length, x, width)
<1> DEFINE P == PositionScale
           d == k.den
           m == k.num
<1>1. P \in Nat \ {0} /\ d \in Nat \ {0} /\ m \in Nat \ {0}
  BY LayoutAssumption
<1> HIDE DEF P, d, m
<1> DEFINE left == x * d * P + (width * d - n * m) * position
           image(p) == left + p * m * P
           edge(p) == p * d * P
<1>2. width * d = length * m /\ by * P = (n - length) * position /\ position \in Nat /\ position <= P
  BY DEF P, d, m
<1>3. left = x * d * P - by * m * P
  <2>1. left = x * d * P + (length * m - n * m) * position
    BY <1>2
  <2>2. (length * m - n * m) * position = 0 - m * ((n - length) * position)
    BY <1>1, <1>2
  <2>3. m * (by * P) = by * m * P
    BY <1>1
  <2>4. x * d * P \in Nat /\ by * m * P \in Nat
    BY <1>1
  <2> QED
    BY <1>2, <2>1, <2>2, <2>3, <2>4
<1>4. left \in Int
  BY <1>1, <1>3
<1>5. image(by) = edge(x)
  BY <1>1, <1>3
<1>6. image(by + length) = edge(x + width)
  <2>1. length * m * P = width * d * P
    BY <1>2
  <2>2. (x + width) * d * P = x * d * P + width * d * P
    BY <1>1
  <2>3. (by + length) * m * P = by * m * P + length * m * P
    BY <1>1
  <2> QED
    BY <1>1, <1>3, <2>1, <2>2, <2>3
<1>7. by <= n - length
  <2>1. (n - length) * position <= (n - length) * P
    BY <1>1, <1>2
  <2>2. by * P <= (n - length) * P
    BY <1>2, <2>1
  <2>3. \A a, b \in Nat : a * P <= b * P => a <= b
    BY <1>1
  <2> QED
    BY <2>2, <2>3
<1>8. \A a, b \in Nat : a <= b => image(a) \in Int /\ image(b) \in Int /\ image(a) <= image(b)
  <2>1. \A a, b \in Nat : a <= b => a * m * P \in Int /\ b * m * P \in Int /\ a * m * P <= b * m * P
    BY <1>1
  <2> HIDE DEF left
  <2> QED
    BY <1>4, <2>1
<1> HIDE DEF left, image, edge
<1>9. edge(x) = Max({edge(x), image(0)})
  BY <1>5, <1>8, MaxMinOfTwo
<1>10. edge(x + width) = Min({edge(x + width), image(n)})
  <2>1. by + length \in Nat /\ by + length <= n
    BY <1>7
  <2> DEFINE a == image(by + length)
             b == image(n)
  <2>2. a \in Int /\ b \in Int /\ a <= b
    BY ONLY <1>8, <2>1, n \in Nat
  <2> HIDE DEF a, b
  <2>3. a = Min({a, b})
    BY ONLY <2>2, MaxMinOfTwo
  <2> QED
    BY <1>6, <2>3 DEF a, b
<1> QED
  BY <1>5, <1>6, <1>9, <1>10 DEF StandsOn, edge, image, left, P, d, m

(* A crop or an extent without a rest.                                     *)
LEMMA ExactDivision ==
    ASSUME NEW a \in Nat, NEW b \in Nat \ {0}, a % b = 0
    PROVE  a \div b \in Nat /\ (a \div b) * b = a
<1>1. a \div b \in Int /\ a = (b * (a \div b)) + (a % b)
  OBVIOUS
<1>2. 0 <= a \div b
  BY 0 * b <= a, RoundsDown
<1> DEFINE q == a \div b
<1> HIDE DEF q
<1>3. q \in Int /\ a = b * q
  BY <1>1 DEF q
<1>4. b * q = q * b
  BY <1>3
<1> QED
  BY <1>2, <1>3, <1>4 DEF q

Pixels(r) == {r.width, r.height} \subseteq Nat \ {0}

(* The largest extent of a's ratio within b, if it has whole pixels: one   *)
(* side is b's, the other in proportion.                                   *)
LEMMA InscribedFits ==
    ASSUME NEW a, Pixels(a), NEW b, Pixels(b), Inscribed(a, b).exact
    PROVE  LET i == Inscribed(a, b) IN
           /\ i.width \in Nat /\ i.height \in Nat
           /\ i.width <= b.width /\ i.height <= b.height
           /\ i.width * a.height = i.height * a.width
           /\ a.width * b.height > b.width * a.height => i.width = b.width
           /\ a.width * b.height < b.width * a.height => i.height = b.height
           /\ a.width * b.height = b.width * a.height => i.width = b.width /\ i.height = b.height
<1> DEFINE i == Inscribed(a, b)
           wide == a.width * b.height
           high == b.width * a.height
<1>1. /\ a.width \in Nat \ {0} /\ a.height \in Nat \ {0} /\ b.width \in Nat \ {0} /\ b.height \in Nat \ {0}
      /\ wide \in Nat /\ high \in Nat
  BY DEF Pixels
<1>2. high = a.height * b.width
  BY <1>1
<1>3. CASE wide > high
  <2>1. /\ i.width = b.width /\ i.height = (a.height * b.width) \div a.width
        /\ (a.height * b.width) % a.width = 0
    BY <1>3 DEF Inscribed
  <2>2. i.height \in Nat /\ i.height * a.width = a.height * b.width
    BY <1>1, <2>1, ExactDivision
  <2>3. i.height <= b.height
    <3>1. i.height * a.width <= b.height * a.width
      BY <1>1, <1>2, <1>3, <2>2
    <3>2. \A x, y \in Nat, z \in Nat \ {0} : x * z <= y * z => x <= y
      OBVIOUS
    <3> QED
      BY <1>1, <2>2, <3>1, <3>2
  <2>4. i.width * a.height = i.height * a.width
    BY <1>1, <2>1, <2>2
  <2> HIDE DEF i, wide, high
  <2>5. i.width \in Nat /\ i.width <= b.width
    BY <1>1, <2>1
  <2> QED
    BY <1>1, <1>3, <2>1, <2>2, <2>3, <2>4, <2>5 DEF i, wide, high
<1>4. CASE ~(wide > high)
  <2>1. /\ i.height = b.height /\ i.width = (a.width * b.height) \div a.height
        /\ (a.width * b.height) % a.height = 0
    BY <1>4 DEF Inscribed
  <2>2. i.width \in Nat /\ i.width * a.height = a.width * b.height
    BY <1>1, <2>1, ExactDivision, SMTT(30)
  <2>3. i.width <= b.width /\ (wide = high => i.width = b.width)
    <3>1. i.width * a.height <= b.width * a.height
          /\ (wide = high => i.width * a.height = b.width * a.height)
      BY <1>1, <1>4, <2>2
    <3>2. \A x, y \in Nat, z \in Nat \ {0} : (x * z <= y * z => x <= y) /\ (x * z = y * z => x = y)
      OBVIOUS
    <3> QED
      BY <1>1, <2>2, <3>1, <3>2
  <2>4. i.width * a.height = i.height * a.width
    BY <1>1, <2>1, <2>2
  <2> HIDE DEF i, wide, high
  <2>5. i.height \in Nat /\ i.height <= b.height
    BY <1>1, <2>1
  <2> QED
    BY <1>1, <1>4, <2>1, <2>2, <2>3, <2>4, <2>5 DEF i, wide, high
<1> QED
  BY <1>3, <1>4

(* A position without a rest divides the room left in each direction.      *)
LEMMA PositionedExactly ==
    ASSUME NEW extent, NEW region, NEW box, Positioned(extent, region, box).exact,
           {region.width, region.height, extent.width, extent.height, region.x, region.y} \subseteq Nat,
           extent.width <= region.width, extent.height <= region.height,
           {box.px, box.py} \subseteq 0 .. PositionScale
    PROVE  \E bx, by \in Nat :
             /\ bx * PositionScale = (region.width - extent.width) * box.px
             /\ by * PositionScale = (region.height - extent.height) * box.py
             /\ Positioned(extent, region, box).region
                  = PixelRegion(region.x + bx, region.y + by, extent)
             /\ extent.exact
<1> DEFINE wx == (region.width - extent.width) * box.px
           wy == (region.height - extent.height) * box.py
<1>1. wx \in Nat /\ wy \in Nat /\ PositionScale \in Nat \ {0}
  <2>1. /\ region.width - extent.width \in Nat /\ region.height - extent.height \in Nat
        /\ box.px \in Nat /\ box.py \in Nat
    OBVIOUS
  <2> QED
    BY <2>1, LayoutAssumption
<1>2. /\ wx % PositionScale = 0 /\ wy % PositionScale = 0 /\ extent.exact
      /\ Positioned(extent, region, box).region
           = PixelRegion(region.x + wx \div PositionScale, region.y + wy \div PositionScale, extent)
  BY DEF Positioned, Offset
<1> HIDE DEF wx, wy
<1>3. /\ wx \div PositionScale \in Nat /\ (wx \div PositionScale) * PositionScale = wx
      /\ wy \div PositionScale \in Nat /\ (wy \div PositionScale) * PositionScale = wy
  BY <1>1, <1>2, ExactDivision
<1> QED
  BY <1>2, <1>3 DEF wx, wy

(* What an exact placement draws is what CSS shows, and where.             *)
THEOREM DrawnWhereItStands ==
    ASSUME NEW v, v.asset \in DOMAIN Rasters, MeasureFaults(Box(v)) = {}, Placement(v).exact,
           NEW drawn, drawn.video = v,
           drawn.source = Placement(v).source, drawn.destination = Placement(v).destination
    PROVE  StandsAsTheBrowserDraws(drawn)
<1> DEFINE box == Box(v)
           raster == Rasters[v.asset]
           source == Raster(raster)
           element == Element(box)
           sx == [num |-> box.width, den |-> raster.width]
           sy == [num |-> box.height, den |-> raster.height]
           less == sx.num * sy.den < sy.num * sx.den
           one == IF (box.fit = "contain") <=> less THEN sx ELSE sy
           scale(own) == IF box.fit = "fill" THEN own ELSE one
           X(u, length, at, size) ==
             StandsOn(box.x, box.width, raster.width, scale(sx), box.px, u, length, at, size)
           Y(u, length, at, size) ==
             StandsOn(box.y, box.height, raster.height, scale(sy), box.py, u, length, at, size)
<1>1. /\ box.x \in Nat /\ box.y \in Nat /\ box.width \in Nat \ {0} /\ box.height \in Nat \ {0}
      /\ box.fit \in {"fill", "contain", "cover"}
      /\ box.px \in 0 .. PositionScale /\ box.py \in 0 .. PositionScale
  BY DEF MeasureFaults, Fails
<1>2. raster.width \in Nat \ {0} /\ raster.height \in Nat \ {0}
  BY LayoutAssumption
<1>3. Placement(v) = Geometry(raster, box)
  BY DEF Placement
<1>4. /\ source = [x |-> 0, y |-> 0, width |-> raster.width, height |-> raster.height]
      /\ element = [x |-> box.x, y |-> box.y, width |-> box.width, height |-> box.height]
  BY DEF Raster, Element, PixelRegion
<1>5. Pixels(source) /\ Pixels(element)
  BY <1>1, <1>2, <1>4 DEF Pixels
<1>6. SUFFICES /\ X(drawn.source.x, drawn.source.width, drawn.destination.x, drawn.destination.width)
               /\ Y(drawn.source.y, drawn.source.height, drawn.destination.y, drawn.destination.height)
  BY DEF StandsAsTheBrowserDraws
<1> HIDE DEF source, element, box, raster
<1>7. CASE box.fit = "fill"
  <2>1. drawn.source = source /\ drawn.destination = element
    BY <1>3, <1>7 DEF Geometry, source, element
  <2>2. scale(sx) = sx /\ scale(sy) = sy
    BY <1>7
  <2>3. StandsOn(box.x, box.width, raster.width, sx, box.px, 0, raster.width, box.x, box.width)
    <3> DEFINE none == 0
    <3>1. sx.num \in Nat \ {0} /\ sx.den \in Nat \ {0} /\ box.x \in Nat
          /\ box.width \in Nat /\ raster.width \in Nat /\ box.px \in 0 .. PositionScale
      BY <1>1, <1>2
    <3>2. box.width * sx.den = raster.width * sx.num
      BY <1>1, <1>2
    <3>3. none \in Nat /\ none * PositionScale = (raster.width - raster.width) * box.px
          /\ raster.width <= raster.width
      BY <3>1, LayoutAssumption
    <3> HIDE DEF sx, none
    <3>4. StandsOn(box.x, box.width, raster.width, sx, box.px, none, raster.width, box.x, box.width)
      BY ONLY <3>1, <3>2, <3>3, StandsCropped
    <3> QED
      BY <3>4 DEF none
  <2>4. StandsOn(box.y, box.height, raster.height, sy, box.py, 0, raster.height, box.y, box.height)
    <3> DEFINE none == 0
    <3>1. sy.num \in Nat \ {0} /\ sy.den \in Nat \ {0} /\ box.y \in Nat
          /\ box.height \in Nat /\ raster.height \in Nat /\ box.py \in 0 .. PositionScale
      BY <1>1, <1>2
    <3>2. box.height * sy.den = raster.height * sy.num
      BY <1>1, <1>2
    <3>3. none \in Nat /\ none * PositionScale = (raster.height - raster.height) * box.py
          /\ raster.height <= raster.height
      BY <3>1, LayoutAssumption
    <3> HIDE DEF sy, none
    <3>4. StandsOn(box.y, box.height, raster.height, sy, box.py, none, raster.height, box.y, box.height)
      BY ONLY <3>1, <3>2, <3>3, StandsCropped
    <3> QED
      BY <3>4 DEF none
  <2> QED
    BY <1>4, <2>1, <2>2, <2>3, <2>4
<1>8. CASE box.fit = "contain"
  <2> DEFINE i == Inscribed(source, element)
  <2>1. /\ drawn.source = source /\ drawn.destination = Positioned(i, element, box).region
        /\ Positioned(i, element, box).exact
    BY <1>3, <1>8 DEF Geometry, source, element
  <2>2. i.exact
    BY <2>1 DEF Positioned
  <2>3. /\ i.width \in Nat /\ i.height \in Nat /\ i.width <= box.width /\ i.height <= box.height
        /\ i.width * raster.height = i.height * raster.width
        /\ raster.width * box.height > box.width * raster.height => i.width = box.width
        /\ ~(raster.width * box.height > box.width * raster.height) => i.height = box.height
    <3>1. raster.width * box.height \in Nat /\ box.width * raster.height \in Nat
      BY <1>1, <1>2
    <3> QED
      BY <1>4, <1>5, <2>2, <3>1, InscribedFits
  <2> HIDE DEF i
  <2>4. PICK bx \in Nat, by \in Nat :
               /\ bx * PositionScale = (box.width - i.width) * box.px
               /\ by * PositionScale = (box.height - i.height) * box.py
               /\ drawn.destination = PixelRegion(box.x + bx, box.y + by, i)
    BY <1>1, <1>4, <2>1, <2>3, PositionedExactly
  <2>5. /\ one.num \in Nat \ {0} /\ one.den \in Nat \ {0}
        /\ i.width * one.den = raster.width * one.num
        /\ i.height * one.den = raster.height * one.num
    <3>1. CASE less
      <4>1. one = sx
        BY <1>8, <3>1
      <4>2. i.width = box.width
        BY <1>1, <1>2, <2>3, <3>1
      <4> QED
        BY <1>1, <1>2, <2>3, <4>1, <4>2
    <3>2. CASE ~less
      <4>1. one = sy
        BY <1>8, <3>2
      <4>2. i.height = box.height
        BY <1>1, <1>2, <2>3, <3>2
      <4> QED
        BY <1>1, <1>2, <2>3, <4>1, <4>2
    <3> QED
      BY <3>1, <3>2
  <2>6. scale(sx) = one /\ scale(sy) = one
    BY <1>8
  <2> HIDE DEF one
  <2>7. StandsOn(box.x, box.width, raster.width, one, box.px, 0, raster.width, box.x + bx, i.width)
    BY <1>1, <1>2, <2>3, <2>4, <2>5, StandsWhole
  <2>8. StandsOn(box.y, box.height, raster.height, one, box.py, 0, raster.height, box.y + by, i.height)
    BY <1>1, <1>2, <2>3, <2>4, <2>5, StandsWhole
  <2> QED
    BY <1>4, <2>1, <2>4, <2>6, <2>7, <2>8 DEF PixelRegion
<1>9. CASE box.fit = "cover"
  <2> DEFINE i == Inscribed(element, source)
  <2>1. /\ drawn.destination = element /\ drawn.source = Positioned(i, source, box).region
        /\ Positioned(i, source, box).exact
    BY <1>3, <1>9 DEF Geometry, source, element
  <2>2. i.exact
    BY <2>1 DEF Positioned
  <2>3. /\ i.width \in Nat /\ i.height \in Nat /\ i.width <= raster.width /\ i.height <= raster.height
        /\ i.width * box.height = i.height * box.width
        /\ box.width * raster.height < raster.width * box.height => i.height = raster.height
        /\ ~(box.width * raster.height < raster.width * box.height) => i.width = raster.width
    <3>1. raster.width * box.height \in Nat /\ box.width * raster.height \in Nat
      BY <1>1, <1>2
    <3> QED
      BY <1>4, <1>5, <2>2, <3>1, InscribedFits
  <2> HIDE DEF i
  <2>4. PICK bx \in Nat, by \in Nat :
               /\ bx * PositionScale = (raster.width - i.width) * box.px
               /\ by * PositionScale = (raster.height - i.height) * box.py
               /\ drawn.source = PixelRegion(0 + bx, 0 + by, i)
    BY <1>1, <1>2, <1>4, <2>1, <2>3, PositionedExactly
  <2>5. /\ one.num \in Nat \ {0} /\ one.den \in Nat \ {0}
        /\ box.width * one.den = i.width * one.num
        /\ box.height * one.den = i.height * one.num
    <3>1. CASE less
      <4>1. one = sy
        BY <1>9, <3>1
      <4>2. i.height = raster.height
        BY <1>1, <1>2, <2>3, <3>1
      <4> QED
        BY <1>1, <1>2, <2>3, <4>1, <4>2
    <3>2. CASE ~less
      <4>1. one = sx
        BY <1>9, <3>2
      <4>2. i.width = raster.width
        BY <1>1, <1>2, <2>3, <3>2
      <4> QED
        BY <1>1, <1>2, <2>3, <4>1, <4>2
    <3> QED
      BY <3>1, <3>2
  <2>6. scale(sx) = one /\ scale(sy) = one
    BY <1>9
  <2> HIDE DEF one
  <2>7. StandsOn(box.x, box.width, raster.width, one, box.px, bx, i.width, box.x, box.width)
    BY <1>1, <1>2, <2>3, <2>4, <2>5, StandsCropped
  <2>8. StandsOn(box.y, box.height, raster.height, one, box.py, by, i.height, box.y, box.height)
    BY <1>1, <1>2, <2>3, <2>4, <2>5, StandsCropped
  <2>9. 0 + bx = bx /\ 0 + by = by
    OBVIOUS
  <2> QED
    BY <1>4, <2>1, <2>4, <2>6, <2>7, <2>8, <2>9 DEF PixelRegion
<1> QED
  BY <1>1, <1>7, <1>8, <1>9

(***************************************************************************)
(* What a planner finds in a film.                                         *)

(* A treatment that was authored and accepted.                             *)
Plays(t) ==
    \E a \in AuthoredShots : \E c \in Range(a.content) :
      c.kind = "video" /\ MediaFaults(c) = {} /\ t = c.treatment

PlaysAuthored(x) == x.kind = "video" => Plays(x.treatment)

(* A scene is what its shots fill.                                         *)
Filled ==
    /\ \A i \in DOMAIN shots : ContainsInterval(scenes[shots[i].scene], shots[i].at)
    /\ \A k \in DOMAIN scenes : \A f \in Nat :
         Covers(scenes[k], f) => \E i \in DOMAIN shots : shots[i].scene = k /\ Covers(shots[i].at, f)
    /\ ~lost /\ scenes # <<>> => scenes[Len(scenes)].end = cursor

Treated == \A i \in DOMAIN shots : \A x \in Range(shots[i].content) : PlaysAuthored(x)

(* A caption lies in the film.                                             *)
Captioned ==
    \A f \in film : \A c \in f.captions :
      {c.at.start, c.at.end} \subseteq Nat /\ c.at.start < c.at.end /\ c.at.end <= f.end

Composed(f, regions, p) ==
    [i \in DOMAIN regions |-> Compose(f, regions[i], p.capability, p.behavior)]

(* The units of a film are its regions, composed and normalized.           *)
PlannedAs(f, u, r, p) ==
    LET regions == Regions(f) IN
    /\ p.capability \in Capabilities /\ p.behavior \in Behaviors
    /\ u = Normalize(Composed(f, regions, p), p.behavior)
    /\ r = GraphFaults(f)
             \cup UNION {UnitFaults(f, regions[i], Composed(f, regions, p)[i]) : i \in DOMAIN regions}

Planned == phase = "planned" => PlannedAs(TheFilm, units, refused, presentation)

Plannable == Filled /\ Treated /\ Captioned /\ Planned

(* At first nothing is placed.                                            *)
LEMMA PlannableInitial == Init => Plannable
<1> SUFFICES ASSUME Init PROVE Plannable
  OBVIOUS
<1>1. phase = "cues" /\ shots = <<>> /\ scenes = <<>> /\ film = {}
  BY DEF Init, SolveInit
<1>2. DOMAIN <<>> = {}
  OBVIOUS
<1> QED
  BY <1>1, <1>2 DEF Plannable, Filled, Treated, Captioned, Planned

(* Steps that place nothing.                                               *)
LEMMA PlannableWaits ==
    ASSUME Plannable, UNCHANGED <<scenes, shots, film>>, phase' # "planned",
           lost' \/ UNCHANGED <<cursor, lost>>
    PROVE  Plannable'
<1>1. Treated' /\ Captioned' /\ Planned'
  BY DEF Plannable, Treated, Captioned, Planned
<1>2. Filled'
  BY DEF Plannable, Filled
<1> QED
  BY <1>1, <1>2 DEF Plannable

(* A scene begins empty, at the cursor.                                   *)
LEMMA PlannableScene ==
    ASSUME TInv, Plannable, SolveScene
    PROVE  Plannable'
<1>1. /\ phase = "shots" /\ scenes' = Append(scenes, Interval(cursor, cursor))
      /\ UNCHANGED <<phase, cursor, lost, shots, film>>
  BY DEF SolveScene
<1>2. scenes \in Seq(Intervals(0 .. MaxFrame)) /\ cursor \in Nat
  BY DEF TInv, Entered, Control
<1>3. /\ scenes' # <<>> /\ Len(scenes') = Len(scenes) + 1 /\ DOMAIN scenes \subseteq DOMAIN scenes'
      /\ \A k \in DOMAIN scenes' : k \in DOMAIN scenes \/ k = Len(scenes) + 1
      /\ \A k \in DOMAIN scenes : scenes'[k] = scenes[k]
      /\ scenes'[Len(scenes) + 1] = Interval(cursor, cursor)
  <2>1. Interval(cursor, cursor) \in [start : Nat, end : Nat] /\ scenes \in Seq([start : Nat, end : Nat])
    <3>1. Intervals(0 .. MaxFrame) \subseteq [start : Nat, end : Nat]
      BY DEF Intervals
    <3>2. \A S, T : S \subseteq T => Seq(S) \subseteq Seq(T)
      OBVIOUS
    <3>3. scenes \in Seq([start : Nat, end : Nat])
      BY ONLY <1>2, <3>1, <3>2
    <3>4. Interval(cursor, cursor) \in [start : Nat, end : Nat]
      BY <1>2 DEF Interval
    <3> QED
      BY <3>3, <3>4
  <2> QED
    BY <1>1, <2>1
<1>4. \A f \in Nat : ~Covers(Interval(cursor, cursor), f)
  BY <1>2 DEF Covers, Interval
<1>5. Filled'
  <2>1. \A i \in DOMAIN shots : shots[i].scene \in DOMAIN scenes
    BY DEF TInv, Line
  <2>2. \A i \in DOMAIN shots' : ContainsInterval(scenes'[shots'[i].scene], shots'[i].at)
    BY <1>1, <1>3, <2>1 DEF Plannable, Filled
  <2>3. \A k \in DOMAIN scenes' : \A f \in Nat : Covers(scenes'[k], f) =>
          \E i \in DOMAIN shots' : shots'[i].scene = k /\ Covers(shots'[i].at, f)
    BY <1>1, <1>3, <1>4 DEF Plannable, Filled
  <2>4. scenes'[Len(scenes')].end = cursor'
    BY <1>1, <1>3 DEF Interval
  <2> QED
    BY <2>2, <2>3, <2>4 DEF Filled
<1>6. Treated' /\ Captioned' /\ Planned'
  BY <1>1 DEF Plannable, Treated, Captioned, Planned
<1> QED
  BY <1>5, <1>6 DEF Plannable

(* The contents of a placed shot play what was authored.                   *)
LEMMA PlacedTreatments ==
    ASSUME TInv, phase = "shots", ~lost,
           NEW authored \in AuthoredShots, NEW d \in ShotDuration(authored)
    PROVE  \A x \in Range(ShotOf(authored, d).content) : PlaysAuthored(x)
<1> DEFINE S == {x \in UNION {ContentAt(authored, d)[c] : c \in Usable(authored)} : PlaysAuthored(x)}
<1>1. Start(authored, d) \in Nat /\ IsOptional(events, Nat)
  <2>1. /\ Laid(shots) /\ AtEnd /\ cursor \in 0 .. MaxFrame /\ IsOptional(events, 0 .. MaxFrame)
        /\ d \in Nat
    BY DurationBounds DEF TInv, Line, Control
  <2>2. Start(authored, d) \in 0 .. MaxFrame
    BY <2>1, StartOfShot
  <2> QED
    BY <2>1, <2>2 DEF IsOptional
<1>2. ASSUME NEW c \in Usable(authored), NEW x \in LowerContent(c, ShotAt(authored, d))
      PROVE  PlaysAuthored(x)
  <2>1. x.kind = c.kind /\ x.treatment = c.treatment
    BY <1>2 DEF LowerContent, Placed
  <2>2. c \in Range(authored.content) /\ (c.kind = "video" => MediaFaults(c) = {})
    BY DEF Usable, IsPrimary
  <2> QED
    BY <2>1, <2>2 DEF PlaysAuthored, Plays
<1>3. \A c \in DOMAIN ContentAt(authored, d) :
        ContentAt(authored, d)[c] = {} \/ \E x \in S : ContentAt(authored, d)[c] = {x}
  <2> SUFFICES ASSUME NEW c \in Usable(authored), ContentAt(authored, d)[c] # {}
               PROVE  \E x \in S : ContentAt(authored, d)[c] = {x}
    BY DEF ContentAt
  <2>1. ContentAt(authored, d)[c] = LowerContent(c, ShotAt(authored, d))
    BY DEF ContentAt
  <2>2. PICK x : LowerContent(c, ShotAt(authored, d)) = {x}
    BY <1>1, <2>1, LoweredContent DEF ShotAt
  <2>3. PlaysAuthored(x)
    BY <1>2, <2>2
  <2>4. x \in S
    BY <2>1, <2>2, <2>3
  <2> QED
    BY <2>1, <2>2, <2>4
<1>4. \A x \in S : PlaysAuthored(x)
  OBVIOUS
<1>5. authored.content \in Seq(Range(authored.content))
  BY AuthoredAssumption
<1> HIDE DEF S
<1>6. Lowered(authored.content, ContentAt(authored, d)) \in Seq(S)
  BY ONLY <1>3, <1>5, LoweredType
<1>7. ShotOf(authored, d).content = Lowered(authored.content, ContentAt(authored, d))
  BY DEF ShotOf
<1> QED
  BY <1>4, <1>6, <1>7 DEF Range

(* A placed shot extends its scene and the cursor with it.                *)
LEMMA PlannablePlace ==
    ASSUME TInv, Plannable, NEW authored \in AuthoredShots, PlaceShot(authored)
    PROVE  Plannable'
<1>1. /\ phase = "shots" /\ ~lost /\ scenes # <<>> /\ UNCHANGED <<phase, lost, film>>
  BY DEF PlaceShot, Authored
<1>2. PICK d \in ShotDuration(authored) :
        /\ cursor' = Start(authored, d) + d
        /\ shots' = Append(shots, ShotOf(authored, d))
        /\ scenes' = [scenes EXCEPT ![Len(scenes)].end = Start(authored, d) + d]
  BY PlacesAShot
<1> DEFINE s == ShotOf(authored, d)
           start == Start(authored, d)
           n == Len(scenes)
<1>3. Laid(shots) /\ AtEnd /\ cursor \in 0 .. MaxFrame /\ d \in Nat
  BY <1>1, DurationBounds DEF TInv, Line, Control
<1>4. /\ start \in Nat /\ start <= cursor /\ cursor <= start + d
      /\ start # cursor => /\ shots # <<>> /\ shots[Len(shots)].scene = n
                           /\ shots[Len(shots)].cut.end <= start
  <2>1. /\ start \in 0 .. MaxFrame /\ start <= cursor /\ cursor <= start + d
        /\ shots # <<>> => shots[Len(shots)].cut.end <= start
        /\ start # cursor => shots # <<>> /\ shots[Len(shots)].scene = Len(scenes)
    BY <1>3, StartOfShot
  <2> HIDE DEF start
  <2> QED
    BY <2>1
<1>5. \A x \in Range(s.content) : PlaysAuthored(x)
  BY <1>1, PlacedTreatments
<1>6. s.at.start = start /\ s.at.end = start + d /\ s.scene = n
  BY DEF ShotOf, ShotAt, Interval
<1> HIDE DEF s, start
<1>7. /\ Len(shots) \in Nat /\ DOMAIN shots = 1 .. Len(shots)
      /\ DOMAIN shots' = 1 .. Len(shots) + 1
      /\ \A i \in 1 .. Len(shots) : shots'[i] = shots[i]
      /\ shots'[Len(shots) + 1] = s
      /\ \A i \in 1 .. Len(shots) + 1 : i \in 1 .. Len(shots) \/ i = Len(shots) + 1
      /\ shots = <<>> <=> Len(shots) = 0
  BY <1>2, <1>3, AppendedSequence DEF Laid, s
<1>8. /\ n \in DOMAIN scenes /\ DOMAIN scenes' = DOMAIN scenes /\ scenes # <<>> /\ scenes' # <<>>
      /\ Len(scenes') = n
      /\ \A k \in DOMAIN scenes : k # n => scenes'[k] = scenes[k]
      /\ scenes'[n].start = scenes[n].start /\ scenes'[n].end = cursor'
      /\ scenes[n].end = cursor /\ scenes[n].start \in Nat /\ scenes[n].start <= cursor
  <2> DEFINE I == [start : Nat, end : Nat]
  <2>1. scenes \in Seq(Intervals(0 .. MaxFrame)) /\ scenes[n].end = cursor
    BY <1>1 DEF TInv, Entered, Plannable, Filled
  <2>2. n \in DOMAIN scenes /\ n \in Nat /\ DOMAIN scenes = 1 .. n
    BY <1>1, <2>1
  <2>3. scenes[n] \in Intervals(0 .. MaxFrame)
    BY <2>1, <2>2
  <2>4. scenes[n] \in I /\ scenes[n].start <= scenes[n].end
    BY <2>3 DEF Intervals
  <2>5. scenes' = [scenes EXCEPT ![n] = [scenes[n] EXCEPT !.end = cursor']]
    BY <1>2
  <2>6. /\ DOMAIN scenes' = DOMAIN scenes /\ Len(scenes') = n /\ scenes' # <<>>
        /\ \A k \in DOMAIN scenes : k # n => scenes'[k] = scenes[k]
        /\ scenes'[n] = [scenes[n] EXCEPT !.end = cursor']
    <3>1. scenes' = [k \in 1 .. n |-> IF k = n THEN [scenes[n] EXCEPT !.end = cursor'] ELSE scenes[k]]
      BY <2>2, <2>5
    <3> QED
      BY <1>1, <2>2, <3>1
  <2>7. scenes'[n].start = scenes[n].start /\ scenes'[n].end = cursor'
    BY <2>4, <2>6
  <2> QED
    BY <1>1, <2>1, <2>2, <2>4, <2>6, <2>7
<1>9. cursor' = start + d /\ cursor \in Nat /\ cursor <= cursor'
  BY <1>2, <1>3, <1>4 DEF start
<1>10. \A i \in DOMAIN shots : /\ shots[i].scene \in DOMAIN scenes
                               /\ ContainsInterval(scenes[shots[i].scene], shots[i].at)
                               /\ {shots[i].at.start, shots[i].at.end, shots[i].cut.end} \subseteq Nat
                               /\ shots[i].at.start <= shots[i].cut.end
  <2>1. \A i \in DOMAIN shots : IsShot(shots[i])
    BY <1>3 DEF Laid
  <2> QED
    BY <2>1 DEF TInv, Line, Plannable, Filled, IsShot
<1> HIDE DEF n
<1>11. scenes[n].start <= start
  <2>1. CASE start = cursor
    BY <1>8, <2>1
  <2>2. CASE start # cursor
    <3> DEFINE final == shots[Len(shots)]
    <3>1. Len(shots) \in DOMAIN shots /\ final.scene = n /\ final.cut.end <= start
      BY <1>4, <1>7, <2>2
    <3>2. scenes[n].start <= final.at.start /\ final.at.start <= final.cut.end
          /\ {final.at.start, final.cut.end} \subseteq Nat
      BY <1>10, <3>1 DEF ContainsInterval
    <3> QED
      BY <1>4, <1>8, <3>1, <3>2
  <2> QED
    BY <2>1, <2>2
<1>12. ASSUME NEW i \in DOMAIN shots' PROVE ContainsInterval(scenes'[shots'[i].scene], shots'[i].at)
  <2>1. CASE i = Len(shots) + 1
    BY <1>4, <1>6, <1>7, <1>8, <1>9, <1>11, <2>1 DEF ContainsInterval
  <2>2. CASE i \in DOMAIN shots
    <3>1. /\ shots'[i] = shots[i] /\ shots[i].scene \in DOMAIN scenes
          /\ ContainsInterval(scenes[shots[i].scene], shots[i].at) /\ shots[i].at.end \in Nat
      BY <1>7, <1>10, <2>2
    <3> QED
      BY <1>8, <1>9, <3>1 DEF ContainsInterval
  <2> QED
    BY <1>7, <2>1, <2>2
<1>13. ASSUME NEW k \in DOMAIN scenes', NEW f \in Nat, Covers(scenes'[k], f)
       PROVE  \E i \in DOMAIN shots' : shots'[i].scene = k /\ Covers(shots'[i].at, f)
  <2>1. CASE Covers(scenes[k], f)
    <3>1. PICK i \in DOMAIN shots : shots[i].scene = k /\ Covers(shots[i].at, f)
      BY <1>8, <2>1 DEF Plannable, Filled
    <3> QED
      BY <1>7, <3>1
  <2>2. CASE ~Covers(scenes[k], f)
    <3>1. k = n /\ cursor <= f /\ f < cursor'
      BY <1>8, <1>9, <1>13, <2>2 DEF Covers
    <3>2. Covers(s.at, f)
      BY <1>4, <1>6, <1>9, <3>1 DEF Covers
    <3>3. Len(shots) + 1 \in DOMAIN shots'
      BY <1>7
    <3> QED
      BY <1>6, <1>7, <3>1, <3>2, <3>3
  <2> QED
    BY <2>1, <2>2
<1>14. Filled'
  BY <1>8, <1>12, <1>13 DEF Filled
<1>15. Treated'
  BY <1>5, <1>7 DEF Plannable, Treated
<1>16. Captioned' /\ Planned'
  BY <1>1 DEF Plannable, Captioned, Planned
<1> QED
  BY <1>14, <1>15, <1>16 DEF Plannable

(* The remaining steps of the solver.                                     *)
LEMMA PlannableSolves ==
    ASSUME TInv, Plannable,
           \/ \E times \in CueTimes : SolveEvents(times)
           \/ \E a \in AuthoredShots : SolveFails(a) \/ SkipShot(a) \/ RejectShot(a)
    PROVE  Plannable'
<1>1. /\ UNCHANGED <<scenes, shots, film>> /\ phase' # "planned"
      /\ lost' \/ UNCHANGED <<cursor, lost>>
  BY DEF SolveEvents, SolveFails, SkipShot, RejectShot, Authored
<1> QED
  BY <1>1, PlannableWaits

(* A finished film has no captions yet.                                   *)
LEMMA PlannableFinish ==
    ASSUME TInv, Plannable, NEW tracks, Finish(tracks)
    PROVE  Plannable'
<1>1. /\ phase' \in {"solved", "rejected"} /\ UNCHANGED <<cursor, lost, scenes, shots>>
      /\ \A f \in film' : f.captions = {}
  BY DEF Finish
<1>2. Filled' /\ Treated' /\ Planned'
  BY <1>1 DEF Plannable, Filled, Treated, Planned
<1>3. Captioned'
  BY <1>1 DEF Captioned
<1> QED
  BY <1>2, <1>3 DEF Plannable

(* Imported captions are clipped to the film.                             *)
LEMMA PlannableCaptions ==
    ASSUME TInv, Plannable, NEW cues \in CaptionTracks, ImportCaptions(cues)
    PROVE  Plannable'
<1>1. /\ phase = "solved" /\ phase' # "planned" /\ UNCHANGED <<cursor, lost, scenes, shots>>
      /\ film' = film \/ film' = {[TheFilm EXCEPT !.captions = Clipped(cues, TheFilm.end)]}
  BY DEF ImportCaptions
<1>2. Filled' /\ Treated' /\ Planned'
  BY <1>1 DEF Plannable, Filled, Treated, Planned
<1>3. Captioned'
  <2>1. CASE film' = film
    BY <2>1 DEF Plannable, Captioned
  <2>2. CASE film' = {[TheFilm EXCEPT !.captions = Clipped(cues, TheFilm.end)]}
    <3>1. TheFilm \in film
      BY <1>1 DEF TInv, Kept, TheFilm
    <3>2. TheFilm.end \in Nat /\ \A x : [TheFilm EXCEPT !.captions = x].captions = x
      BY <3>1 DEF TInv, Kept, Control
    <3>3. \A c \in cues : c.start \in Nat /\ c.end \in Nat
      BY CaptionAssumption
    <3>4. \A c \in Clipped(cues, TheFilm.end) :
            {c.at.start, c.at.end} \subseteq Nat /\ c.at.start < c.at.end /\ c.at.end <= TheFilm.end
      BY <3>2, <3>3 DEF Clipped, Intersection, Interval
    <3> DEFINE cs == Clipped(cues, TheFilm.end)
               f == [TheFilm EXCEPT !.captions = cs]
    <3>5. f.captions = cs /\ f.end = TheFilm.end
      BY <3>1 DEF TInv, Kept
    <3>6. \A c \in f.captions :
            {c.at.start, c.at.end} \subseteq Nat /\ c.at.start < c.at.end /\ c.at.end <= f.end
      BY <3>4, <3>5
    <3> HIDE DEF f
    <3>7. film' = {f}
      BY <2>2 DEF f
    <3> QED
      BY <3>6, <3>7 DEF Captioned
  <2> QED
    BY <1>1, <2>1, <2>2
<1> QED
  BY <1>2, <1>3 DEF Plannable

(* A plan consists of the composed and normalized regions.                *)
LEMMA PlannablePlan ==
    ASSUME Plannable, NEW c \in Capabilities, NEW b \in Behaviors, Plan(c, b)
    PROVE  Plannable'
<1>1. UNCHANGED <<cursor, lost, scenes, shots, film>>
  BY DEF Plan
<1>2. Filled' /\ Treated' /\ Captioned'
  BY <1>1 DEF Plannable, Filled, Treated, Captioned
<1>3. Planned'
  <2>1. TheFilm' = TheFilm
    BY <1>1 DEF TheFilm
  <2>2. presentation'.capability = c /\ presentation'.behavior = b
    BY DEF Plan
  <2>3. Composed(TheFilm, Regions(TheFilm), presentation')
          = [i \in DOMAIN Regions(TheFilm) |-> Compose(TheFilm, Regions(TheFilm)[i], c, b)]
    BY <2>2 DEF Composed
  <2>4. PlannedAs(TheFilm, units', refused', presentation')
    BY <2>2, <2>3 DEF Plan, PlannedAs
  <2> QED
    BY <2>1, <2>4 DEF Planned
<1> QED
  BY <1>2, <1>3 DEF Plannable

(* A planned film stays as it is.                                         *)
LEMMA PlannableLater ==
    ASSUME Plannable, (\E f \in 0 .. MaxFrame : Snapshot(f)) \/ UNCHANGED vars
    PROVE  Plannable'
<1>1. UNCHANGED <<phase, cursor, lost, scenes, shots, film, presentation, units, refused>>
  BY DEF Snapshot, vars, solveVars
<1>2. TheFilm' = TheFilm
  BY <1>1 DEF TheFilm
<1>3. Filled' /\ Treated' /\ Captioned' /\ Planned'
  BY <1>1, <1>2 DEF Plannable, Filled, Treated, Captioned, Planned
<1> QED
  BY <1>3 DEF Plannable

(* At every moment scenes are what their shots fill, videos play what was *)
(* authored and accepted, captions lie in the film, and the units of a    *)
(* planned film are its regions, composed and normalized.                 *)
THEOREM PlannableHolds == Spec => []Plannable
<1>1. ASSUME TInv, Plannable, [Next]_vars PROVE Plannable'
  <2>1. ASSUME SolveNext PROVE Plannable'
    BY <1>1, <2>1, PlannableSolves, PlannableScene, PlannablePlace, PlannableFinish DEF SolveNext
  <2> QED
    BY <1>1, <2>1, PlannableCaptions, PlannablePlan, PlannableLater DEF Next
<1> QED
  BY <1>1, PlannableInitial, SolverHolds, PTL DEF Spec

(***************************************************************************)
(* The page.                                                               *)

(* A solved film, and what a planner may rely on.                          *)
Timeline(f) ==
    /\ Laid(f.shots) /\ f.end \in 0 .. MaxFrame
    /\ f.end = IF f.shots = <<>> THEN 0 ELSE f.shots[Len(f.shots)].at.end
    /\ \A g \in 0 .. f.end - 1 : \E i \in DOMAIN f.shots : Covers(f.shots[i].at, g)
    /\ \A k \in DOMAIN f.scenes : {f.scenes[k].start, f.scenes[k].end} \subseteq Nat
    /\ \A i \in DOMAIN f.shots : /\ f.shots[i].scene \in DOMAIN f.scenes
                                 /\ ContainsInterval(f.scenes[f.shots[i].scene], f.shots[i].at)
                                 /\ \A x \in Range(f.shots[i].content) : PlaysAuthored(x)
    /\ \A k \in DOMAIN f.scenes : \A g \in Nat :
         Covers(f.scenes[k], g) => \E i \in DOMAIN f.shots : f.shots[i].scene = k /\ Covers(f.shots[i].at, g)
    /\ \A c \in f.captions :
         {c.at.start, c.at.end} \subseteq Nat /\ c.at.start < c.at.end /\ c.at.end <= f.end

(* What the solver leaves behind is a timeline.                           *)
LEMMA SolvedFilm ==
    ASSUME TInv, Plannable, phase \in {"solved", "timed", "planned"}
    PROVE  TheFilm \in film /\ Timeline(TheFilm)
<1> DEFINE f == TheFilm
<1>1. f \in film
  BY DEF TInv, Kept, TheFilm
<1>2. /\ f.end = cursor /\ f.scenes = scenes /\ f.shots = shots /\ diagnostics = {}
      /\ \A c \in f.captions :
           {c.at.start, c.at.end} \subseteq Nat /\ c.at.start < c.at.end /\ c.at.end <= f.end
  BY <1>1 DEF TInv, Kept, Plannable, Captioned
<1>3. ~lost /\ Laid(shots) /\ AtEnd /\ cursor \in 0 .. MaxFrame
  BY <1>2 DEF TInv, Reported, Line, Control
<1>4. \A k \in DOMAIN scenes : {scenes[k].start, scenes[k].end} \subseteq Nat
  <2>1. scenes \in Seq(Intervals(0 .. MaxFrame))
    BY DEF TInv, Entered
  <2>2. \A k \in DOMAIN scenes : scenes[k] \in Intervals(0 .. MaxFrame)
    BY <2>1
  <2> QED
    BY <2>2 DEF Intervals
<1> HIDE DEF f
<1>5. Timeline(f)
  BY <1>2, <1>3, <1>4 DEF Timeline, TInv, Line, Plannable, Filled, Treated, AtEnd
<1> QED
  BY <1>1, <1>5 DEF f

(* A content of a film is one of a shot, and lies in it.                   *)
LEMMA ContentsLie ==
    ASSUME NEW f, Timeline(f), NEW kind, NEW c \in Contents(f, kind)
    PROVE  /\ c.shot \in DOMAIN f.shots /\ c.at.start \in Nat /\ c.at.end \in Nat
           /\ f.shots[c.shot].at.start <= c.at.start /\ c.at.end <= f.shots[c.shot].at.end
           /\ c.at.start <= c.at.end
           /\ kind = "video" => Plays(c.treatment)
<1>1. PICK i \in DOMAIN f.shots : \E k \in DOMAIN f.shots[i].content :
        /\ f.shots[i].content[k].kind = kind
        /\ c.shot = i /\ c.at = f.shots[i].content[k].at
        /\ c.treatment = f.shots[i].content[k].treatment
  BY DEF Contents, ShotIndexes
<1>2. PICK k \in DOMAIN f.shots[i].content :
        /\ f.shots[i].content[k].kind = kind
        /\ c.shot = i /\ c.at = f.shots[i].content[k].at
        /\ c.treatment = f.shots[i].content[k].treatment
  BY <1>1
<1> DEFINE x == f.shots[i].content[k]
<1>3. x \in Range(f.shots[i].content)
  BY DEF Range
<1>4. Within(x, f.shots[i].at) /\ PlaysAuthored(x)
  BY <1>3 DEF Timeline, Laid, IsShot
<1> QED
  BY <1>2, <1>4 DEF Within, PlaysAuthored

(* What the film shows at a frame, whoever plans it.                       *)
Seen(f, g) ==
  [scenes      |-> {k \in DOMAIN f.scenes : Covers(f.scenes[k], g)},
   shots       |-> {i \in ShotIndexes(f) : Covers(f.shots[i].at, g)},
   transitions |-> {i \in ShotIndexes(f) : Covers(f.shots[i].cut, g)},
   videos      |-> {v \in Contents(f, "video") : Covers(v.at, g)},
   overlays    |-> {o \in Contents(f, "overlay") : Covers(o.at, g)},
   captions    |-> {c \in f.captions : Covers(c.at, g)}]

(* A plan that evaluates a frame, with the shots that play at it, shows it.*)
LEMMA VisibleIsSeen ==
    ASSUME NEW f, Timeline(f), NEW g \in Nat, NEW ev, ev.start \in Nat, ev.end \in Nat,
           Covers(ev, g), NEW out, NEW sel, NEW fields,
           \A i \in ShotIndexes(f) : Covers(f.shots[i].at, g) =>
             /\ ShotSelected(f, ev, sel, i) /\ SceneSelected(f, ev, sel, f.shots[i].scene)
             /\ ContainsInterval(ev, f.shots[i].at)
    PROVE  Visible(f, Project(f, ev, out, sel, fields), g) = Seen(f, g)
<1> DEFINE p == Project(f, ev, out, sel, fields)
           selected == {i \in ShotIndexes(f) :
                          /\ f.shots[i].scene \in {k \in DOMAIN f.scenes : SceneSelected(f, ev, sel, k)}
                          /\ ShotSelected(f, ev, sel, i)}
           evaluated(kind) == {c \in Contents(f, kind) : c.shot \in selected /\ Intersects(c.at, ev)}
<1>1. /\ p.scenes = {k \in DOMAIN f.scenes : SceneSelected(f, ev, sel, k)}
      /\ p.shots = selected
      /\ p.transitions = {i \in selected : i - 1 \in selected /\ HasCut(f, i)}
      /\ p.videos = evaluated("video") /\ p.overlays = evaluated("overlay")
      /\ p.captions = {c \in f.captions : Intersects(c.at, ev)}
  BY DEF Project
<1> HIDE DEF p
<1>2. ASSUME NEW i \in ShotIndexes(f), Covers(f.shots[i].at, g) PROVE i \in selected
  BY <1>2 DEF Timeline, ShotIndexes
<1>3. \A k \in DOMAIN f.scenes : Covers(f.scenes[k], g) => SceneSelected(f, ev, sel, k)
  BY DEF Timeline, ShotIndexes
<1>4. ASSUME NEW kind, NEW c \in Contents(f, kind), Covers(c.at, g) PROVE c \in evaluated(kind)
  <2>1. /\ c.shot \in DOMAIN f.shots /\ c.at.start \in Nat /\ c.at.end \in Nat
        /\ f.shots[c.shot].at.start <= c.at.start /\ c.at.end <= f.shots[c.shot].at.end
    BY ContentsLie
  <2>2. f.shots[c.shot].at.start \in Nat /\ f.shots[c.shot].at.end \in Nat
    BY <2>1, Around DEF Timeline
  <2>3. Covers(f.shots[c.shot].at, g)
    BY <1>4, <2>1, <2>2 DEF Covers
  <2>4. c.shot \in selected
    BY <1>2, <2>1, <2>3 DEF ShotIndexes
  <2>5. Intersects(c.at, ev)
    BY <1>4, <2>1 DEF Covers, Intersects, IsEmpty
  <2> QED
    BY <2>4, <2>5
<1>5. ASSUME NEW i \in ShotIndexes(f), Covers(f.shots[i].cut, g)
      PROVE  i \in selected /\ i - 1 \in selected /\ HasCut(f, i)
  <2>1. i \in DOMAIN f.shots
    BY DEF ShotIndexes
  <2>2. /\ i \in Nat /\ f.shots[i].at.start \in Nat /\ f.shots[i].cut.end \in Nat /\ f.shots[i].at.end \in Nat
        /\ f.shots[i].cut.start = f.shots[i].at.start /\ f.shots[i].cut.end <= f.shots[i].at.end
        /\ \A j \in DOMAIN f.shots : j < i => f.shots[j].at.end <= f.shots[i].cut.end
    BY <2>1, Around DEF Timeline
  <2>3. Covers(f.shots[i].at, g) /\ HasCut(f, i) /\ f.shots[i].cut.end # 0
    BY <1>5, <2>2 DEF Covers, HasCut, IsEmpty
  <2>4. i # 1 /\ DOMAIN f.shots = 1 .. Len(f.shots) /\ Len(f.shots) \in Nat
    <3>1. f.shots \in Seq(Range(f.shots)) /\ (f.shots # <<>> => f.shots[1].cut.end = 0)
      BY DEF Timeline, Laid
    <3> QED
      BY <2>1, <2>3, <3>1
  <2>5. i - 1 \in DOMAIN f.shots /\ (i - 1) + 1 = i
    BY <2>1, <2>2, <2>4
  <2> DEFINE j == i - 1
  <2>6. /\ f.shots[j].at.start \in Nat /\ f.shots[j].at.end \in Nat /\ f.shots[j].cut.end \in Nat
        /\ f.shots[j].at.start <= f.shots[j].cut.end
        /\ j + 1 \in DOMAIN f.shots => f.shots[j].at.end = f.shots[j + 1].cut.end
        /\ \A m \in DOMAIN f.shots : j < m => f.shots[j].cut.end <= f.shots[m].at.start
    BY <2>5, Around DEF Timeline
  <2>7. j < i
    BY <2>2
  <2>8. f.shots[j].at.start <= f.shots[i].at.start /\ f.shots[j].at.end = f.shots[i].cut.end
    BY <2>1, <2>2, <2>5, <2>6, <2>7
  <2>9. Covers(f.shots[j].at, g)
    BY <1>5, <2>2, <2>6, <2>8 DEF Covers
  <2>10. j \in selected
    BY <1>2, <2>5, <2>9 DEF ShotIndexes
  <2>11. i \in selected
    BY <1>2, <2>3
  <2> QED
    BY <2>3, <2>10, <2>11
<1>6. \A c \in f.captions : Covers(c.at, g) => Intersects(c.at, ev)
  BY DEF Timeline, Covers, Intersects, IsEmpty
<1>7. selected \subseteq ShotIndexes(f) /\ \A kind : evaluated(kind) \subseteq Contents(f, kind)
  OBVIOUS
<1>8. /\ \A i \in ShotIndexes(f) : Covers(f.shots[i].at, g) => i \in selected
      /\ \A i \in ShotIndexes(f) : Covers(f.shots[i].cut, g) =>
           i \in selected /\ i - 1 \in selected /\ HasCut(f, i)
      /\ \A v \in Contents(f, "video") : Covers(v.at, g) => v \in evaluated("video")
      /\ \A o \in Contents(f, "overlay") : Covers(o.at, g) => o \in evaluated("overlay")
  BY <1>2, <1>4, <1>5
<1> HIDE DEF selected, evaluated
<1>9. /\ {k \in p.scenes : Covers(f.scenes[k], g)} = {k \in DOMAIN f.scenes : Covers(f.scenes[k], g)}
      /\ {i \in p.shots : Covers(f.shots[i].at, g)} = {i \in ShotIndexes(f) : Covers(f.shots[i].at, g)}
      /\ {i \in p.transitions : Covers(f.shots[i].cut, g)}
           = {i \in ShotIndexes(f) : Covers(f.shots[i].cut, g)}
      /\ {v \in p.videos : Covers(v.at, g)} = {v \in Contents(f, "video") : Covers(v.at, g)}
      /\ {o \in p.overlays : Covers(o.at, g)} = {o \in Contents(f, "overlay") : Covers(o.at, g)}
      /\ {c \in p.captions : Covers(c.at, g)} = {c \in f.captions : Covers(c.at, g)}
  <2>1. {k \in p.scenes : Covers(f.scenes[k], g)} = {k \in DOMAIN f.scenes : Covers(f.scenes[k], g)}
    BY <1>1, <1>3
  <2>2. {i \in p.shots : Covers(f.shots[i].at, g)} = {i \in ShotIndexes(f) : Covers(f.shots[i].at, g)}
    BY <1>1, <1>7, <1>8
  <2>3. {i \in p.transitions : Covers(f.shots[i].cut, g)}
          = {i \in ShotIndexes(f) : Covers(f.shots[i].cut, g)}
    BY <1>1, <1>7, <1>8
  <2>4. {v \in p.videos : Covers(v.at, g)} = {v \in Contents(f, "video") : Covers(v.at, g)}
    BY <1>1, <1>7, <1>8
  <2>5. {o \in p.overlays : Covers(o.at, g)} = {o \in Contents(f, "overlay") : Covers(o.at, g)}
    BY <1>1, <1>7, <1>8
  <2>6. {c \in p.captions : Covers(c.at, g)} = {c \in f.captions : Covers(c.at, g)}
    BY <1>1, <1>6
  <2> QED
    BY <2>1, <2>2, <2>3, <2>4, <2>5, <2>6
<1> QED
  BY <1>9 DEF Visible, Seen, p

(* A shot ends with the film at the latest.                                *)
LEMMA ShotEnds ==
    ASSUME NEW f, Timeline(f), NEW i \in DOMAIN f.shots
    PROVE  f.shots[i].at.end <= f.end
<1> DEFINE n == Len(f.shots)
<1>1. DOMAIN f.shots = 1 .. n /\ n \in Nat
  BY DEF Timeline, Laid
<1>2. n \in DOMAIN f.shots /\ f.end = f.shots[n].at.end
  BY <1>1 DEF Timeline
<1>3. f.shots[i].at.end \in Nat
  BY Around DEF Timeline
<1>4. CASE i = n
  BY <1>2, <1>3, <1>4
<1>5. CASE i # n
  <2>1. i < n
    BY <1>1, <1>5
  <2>2. /\ f.shots[i].at.end <= f.shots[n].cut.end /\ f.shots[n].cut.end <= f.shots[n].at.end
        /\ f.shots[n].cut.end \in Nat /\ f.shots[n].at.end \in Nat
    BY <1>2, <2>1, Around DEF Timeline
  <2> QED
    BY <1>2, <1>3, <2>2
<1> QED
  BY <1>4, <1>5

(* So does the plan of the whole film.                                     *)
LEMMA FilmIsSeen ==
    ASSUME NEW f, Timeline(f), NEW g \in 0 .. f.end - 1, NEW fields
    PROVE  Visible(f, Project(f, Film(f), Film(f), {}, fields), g) = Seen(f, g)
<1> DEFINE ev == Film(f)
<1>1. f.end \in Nat /\ g \in Nat /\ g < f.end
  BY SolveAssumption DEF Timeline
<1>2. ev.start = 0 /\ ev.end = f.end
  BY DEF Film, Interval
<1>3. ASSUME NEW i \in ShotIndexes(f), Covers(f.shots[i].at, g)
      PROVE  /\ ShotSelected(f, ev, {}, i) /\ SceneSelected(f, ev, {}, f.shots[i].scene)
             /\ ContainsInterval(ev, f.shots[i].at)
  <2> DEFINE at == f.shots[i].at
             k == f.shots[i].scene
  <2>1. i \in DOMAIN f.shots /\ at.start \in Nat /\ at.end \in Nat
    BY <1>3, Around DEF Timeline, ShotIndexes
  <2>2. at.end <= f.end
    BY <2>1, ShotEnds
  <2>3. /\ {f.scenes[k].start, f.scenes[k].end} \subseteq Nat
        /\ f.scenes[k].start <= at.start /\ at.end <= f.scenes[k].end
    BY <2>1 DEF Timeline, ContainsInterval
  <2>4. Intersects(at, ev)
    BY <1>1, <1>2, <1>3, <2>1 DEF Covers, Intersects, IsEmpty
  <2>5. Intersects(f.scenes[k], ev)
    BY <1>1, <1>2, <1>3, <2>1, <2>3 DEF Covers, Intersects, IsEmpty
  <2> QED
    BY <1>2, <2>1, <2>2, <2>4, <2>5 DEF ShotSelected, SceneSelected, ContainsInterval
<1>4. ev.start \in Nat /\ ev.end \in Nat /\ Covers(ev, g)
  BY <1>1, <1>2 DEF Covers
<1> HIDE DEF ev
<1>5. Visible(f, Project(f, ev, ev, {}, fields), g) = Seen(f, g)
  BY ONLY <1>1, <1>3, <1>4, Timeline(f), VisibleIsSeen
<1> QED
  BY <1>5 DEF ev

(* The regions of a film have intervals of frames.                         *)
Framed(r) ==
    /\ {r.evaluation.start, r.evaluation.end, r.output.start, r.output.end} \subseteq Nat
    /\ r.output.start <= r.output.end

(* No region has an output that ends before it starts.                    *)
LEMMA RegionsFramed ==
    ASSUME NEW f, Laid(f.shots), NEW m \in DOMAIN Regions(f)
    PROVE  Framed(Regions(f)[m])
<1> DEFINE S == {r \in {ShotRegion(f, i)[1] : i \in DOMAIN f.shots}
                         \cup {TransitionRegion(f, i)[1] : i \in DOMAIN f.shots} : Framed(r)}
           part(i) == ShotRegion(f, i) \o TransitionRegion(f, i)
<1>1. ASSUME NEW i \in DOMAIN f.shots PROVE part(i) \in Seq(S)
  <2>1. /\ f.shots[i].at.start \in Nat /\ f.shots[i].at.end \in Nat /\ f.shots[i].cut.end \in Nat
        /\ f.shots[i].cut.end <= f.shots[i].at.end
    BY Around
  <2>2. i + 1 \in DOMAIN f.shots =>
          /\ f.shots[i + 1].at.start \in Nat /\ f.shots[i + 1].at.end \in Nat
          /\ f.shots[i + 1].cut.start = f.shots[i + 1].at.start
          /\ f.shots[i + 1].cut.end \in Nat /\ f.shots[i + 1].at.start <= f.shots[i + 1].cut.end
          /\ f.shots[i].cut.end <= f.shots[i + 1].at.start
    <3> DEFINE j == i + 1
    <3>1. i < j
      BY Around
    <3> QED
      BY <3>1, Around
  <2>3. ShotRegion(f, i) = <<>> \/ \E r \in S : ShotRegion(f, i) = <<r>>
    <3> DEFINE e == IF CutAfter(f, i) THEN f.shots[i + 1].cut.start ELSE f.shots[i].at.end
               r == Region(f.shots[i].at, Interval(f.shots[i].cut.end, e), {i})
    <3>1. e \in Nat /\ f.shots[i].cut.end <= e
      BY <2>1, <2>2 DEF CutAfter, ShotIndexes
    <3>2. ShotRegion(f, i) = <<>> \/ ShotRegion(f, i) = <<r>>
      BY DEF ShotRegion, ExclusiveOutput
    <3> HIDE DEF e
    <3>3. Framed(r)
      BY <2>1, <3>1 DEF Framed, Region, Interval
    <3> HIDE DEF r
    <3>4. ShotRegion(f, i) = <<r>> => r \in S
      BY <3>3
    <3> QED
      BY <3>2, <3>4
  <2>4. TransitionRegion(f, i) = <<>> \/ \E r \in S : TransitionRegion(f, i) = <<r>>
    <3> DEFINE j == i + 1
               r == Region(Interval(f.shots[i].at.start, f.shots[j].at.end), f.shots[j].cut, {i, j})
    <3>1. TransitionRegion(f, i) = <<>> \/ (CutAfter(f, i) /\ TransitionRegion(f, i) = <<r>>)
      BY DEF TransitionRegion
    <3>2. CutAfter(f, i) => Framed(r)
      BY <2>1, <2>2 DEF Framed, Region, Interval, CutAfter, ShotIndexes
    <3> HIDE DEF r
    <3>3. CutAfter(f, i) /\ TransitionRegion(f, i) = <<r>> => r \in S
      BY <3>2
    <3> QED
      BY <3>1, <3>3
  <2> HIDE DEF S
  <2>5. ASSUME NEW s, s = <<>> \/ (\E r \in S : s = <<r>>) PROVE s \in Seq(S)
    <3>1. CASE s = <<>>
      BY <3>1
    <3>2. CASE \E r \in S : s = <<r>>
      BY <3>2
    <3> QED
      BY <2>5, <3>1, <3>2
  <2>6. ShotRegion(f, i) \in Seq(S) /\ TransitionRegion(f, i) \in Seq(S)
    BY ONLY <2>3, <2>4, <2>5
  <2> QED
    BY <2>6
<1>2. DOMAIN f.shots = 1 .. Len(f.shots) /\ Len(f.shots) \in Nat
  BY DEF Laid
<1> HIDE DEF S, part
<1>3. [i \in ShotIndexes(f) |-> part(i)] \in Seq(Seq(S))
  BY <1>1, <1>2 DEF ShotIndexes
<1>4. Regions(f) \in Seq(S)
  BY <1>3, FlattenType DEF Regions, part
<1>5. Regions(f)[m] \in S
  BY <1>4
<1> QED
  BY <1>5 DEF S

(* The regions of a solved film.                                           *)
LEMMA RegionsOfFilm ==
    ASSUME NEW f, Timeline(f)
    PROVE  /\ Tiles(f, Regions(f), 0, f.end)
           /\ DOMAIN Regions(f) = 1 .. Len(Regions(f)) /\ Len(Regions(f)) \in Nat
           /\ \A m \in DOMAIN Regions(f) : Framed(Regions(f)[m]) /\ Exact(f, Regions(f)[m])
<1>1. Tiles(f, Regions(f), 0, f.end)
  BY RegionsTile DEF Timeline
<1>2. \A m \in DOMAIN Regions(f) : Framed(Regions(f)[m])
  BY RegionsFramed DEF Timeline
<1> QED
  BY <1>1, <1>2 DEF Tiles

(* The regions cover each frame of the film, and no two of them the same.  *)
LEMMA RegionsCover ==
    ASSUME NEW f, Timeline(f), NEW g \in 0 .. f.end - 1
    PROVE  /\ \E m \in DOMAIN Regions(f) : Covers(Regions(f)[m].output, g)
           /\ \A m, n \in DOMAIN Regions(f) :
                Covers(Regions(f)[m].output, g) /\ Covers(Regions(f)[n].output, g) => m = n
<1> DEFINE regions == Regions(f)
           out(m) == regions[m].output
           N == Len(regions)
<1>1. /\ Tiles(f, regions, 0, f.end) /\ DOMAIN regions = 1 .. N /\ N \in Nat
      /\ \A m \in 1 .. N : out(m).start \in Nat /\ out(m).end \in Nat
  BY RegionsOfFilm DEF Framed
<1>2. /\ \A m \in 1 .. N : out(m).start = IF m = 1 THEN 0 ELSE out(m - 1).end
      /\ f.end = IF regions = <<>> THEN 0 ELSE out(N).end
      /\ regions \in Seq(Range(regions))
  BY <1>1 DEF Tiles
<1>3. \A m \in 1 .. N : out(m).start <= out(m).end
  BY <1>1, RegionsOfFilm DEF Framed
<1>4. f.end \in Nat /\ g \in Nat /\ g < f.end
  BY SolveAssumption DEF Timeline
<1> HIDE DEF regions
<1>5. N # 0 <=> regions # <<>>
  BY <1>2
<1> DEFINE start(m) == out(m).start
           end(m) == out(m).end
<1>6. /\ \A m \in 1 .. N : start(m) \in Nat /\ end(m) \in Nat /\ start(m) <= end(m)
      /\ \A m \in 1 .. N : start(m) = IF m = 1 THEN 0 ELSE end(m - 1)
      /\ f.end = IF N = 0 THEN 0 ELSE end(N)
  <2>1. \A m \in 1 .. N : start(m) \in Nat /\ end(m) \in Nat /\ start(m) <= end(m)
    BY <1>1, <1>3
  <2>2. \A m \in 1 .. N : start(m) = IF m = 1 THEN 0 ELSE end(m - 1)
    BY <1>2
  <2>3. f.end = IF N = 0 THEN 0 ELSE end(N)
    BY <1>2, <1>5
  <2> QED
    BY <2>1, <2>2, <2>3
<1>7. \A m \in 1 .. N : Covers(out(m), g) <=> start(m) <= g /\ g < end(m)
  BY DEF Covers
<1> HIDE DEF start, end, out
<1>8. \A m \in 1 .. N - 1 : m \in 1 .. N /\ m + 1 \in 1 .. N /\ start(m + 1) = end(m)
  BY <1>1, <1>6
<1>9. \E m \in 1 .. N : Covers(out(m), g)
  <2> SUFFICES ASSUME \A m \in 1 .. N : ~Covers(out(m), g) PROVE FALSE
    OBVIOUS
  <2> DEFINE P == {m \in 1 .. N : end(m) <= g}
  <2>1. N \in Nat \ {0}
    BY <1>1, <1>4, <1>6
  <2>2. 1 \in P
    BY <1>4, <1>6, <1>7, <2>1
  <2>3. \A m \in 1 .. N - 1 : m \in P => m + 1 \in P
    BY <1>4, <1>6, <1>7, <1>8
  <2> HIDE DEF P
  <2>4. 1 .. N \subseteq P
    BY ONLY <1>1, <2>2, <2>3, Positions
  <2>5. N \in P
    BY <2>1, <2>4
  <2> QED
    BY <1>4, <1>6, <2>1, <2>5 DEF P
<1>10. ASSUME NEW m \in 1 .. N, NEW n \in 1 .. N, m < n PROVE end(m) <= start(n)
  <2> DEFINE P == {j \in 1 .. N : m < j => end(m) <= start(j)}
  <2>1. 1 \in P
    BY <1>1
  <2>2. ASSUME NEW j \in 1 .. N - 1, j \in P PROVE j + 1 \in P
    <3>1. j \in 1 .. N /\ j + 1 \in 1 .. N /\ start(j + 1) = end(j)
      BY <1>8
    <3>2. CASE m = j
      BY <1>6, <3>1, <3>2
    <3>3. CASE m < j
      BY <1>6, <2>2, <3>1, <3>3
    <3>4. CASE j < m
      BY <3>1, <3>4
    <3> QED
      BY <3>1, <3>2, <3>3, <3>4
  <2> HIDE DEF P
  <2>3. 1 .. N \subseteq P
    BY ONLY <1>1, <2>1, <2>2, Positions
  <2> QED
    BY <1>10, <2>3 DEF P
<1>11. \A m, n \in 1 .. N : Covers(out(m), g) /\ Covers(out(n), g) => m = n
  <2> SUFFICES ASSUME NEW m \in 1 .. N, NEW n \in 1 .. N, m < n, Covers(out(m), g), Covers(out(n), g)
               PROVE  FALSE
    BY <1>1
  <2>1. end(m) <= start(n)
    BY <1>10
  <2> QED
    BY <1>4, <1>6, <1>7, <2>1
<1> QED
  BY <1>1, <1>9, <1>11 DEF out, regions

(* And the plan of a region, at each frame of its output.                  *)
LEMMA RegionIsSeen ==
    ASSUME NEW f, Timeline(f), NEW m \in DOMAIN Regions(f), NEW g \in 0 .. f.end - 1,
           Covers(Regions(f)[m].output, g), NEW out, NEW fields
    PROVE  LET r == Regions(f)[m] IN
           Visible(f, Project(f, r.evaluation, out, {r.shots}, fields), g) = Seen(f, g)
<1> DEFINE r == Regions(f)[m]
           ev == r.evaluation
<1>1. Framed(r) /\ Exact(f, r) /\ g \in Nat
  BY RegionsOfFilm, SolveAssumption DEF Timeline
<1>2. g \in Frames(r.output)
  BY <1>1 DEF Framed, Frames, Covers
<1>3. r.shots = {i \in ShotIndexes(f) : Covers(f.shots[i].at, g)}
  BY <1>1, <1>2 DEF Exact
<1>4. \A i \in r.shots : /\ ContainsInterval(ev, f.shots[i].at)
                         /\ f.shots[i].at.start \in Nat /\ f.shots[i].at.end \in Nat
  BY <1>1, <1>3, Around DEF Exact, ShotIndexes, Timeline
<1>5. Covers(ev, g)
  <2>1. PICK i \in DOMAIN f.shots : Covers(f.shots[i].at, g)
    BY DEF Timeline
  <2> QED
    BY <1>1, <1>3, <1>4, <2>1 DEF Covers, ContainsInterval, Framed, ShotIndexes
<1>6. ASSUME NEW i \in ShotIndexes(f), Covers(f.shots[i].at, g)
      PROVE  /\ ShotSelected(f, ev, {r.shots}, i) /\ SceneSelected(f, ev, {r.shots}, f.shots[i].scene)
             /\ ContainsInterval(ev, f.shots[i].at)
  <2>1. i \in r.shots /\ {r.shots} # {} /\ UNION {r.shots} = r.shots
    BY <1>3, <1>6
  <2> QED
    BY <1>4, <1>6, <2>1 DEF ShotSelected, SceneSelected
<1>7. ev.start \in Nat /\ ev.end \in Nat
  BY <1>1 DEF Framed
<1> HIDE DEF r, ev
<1>8. Visible(f, Project(f, ev, out, {r.shots}, fields), g) = Seen(f, g)
  BY ONLY <1>1, <1>5, <1>6, <1>7, Timeline(f), VisibleIsSeen
<1> QED
  BY <1>8 DEF r, ev

(* Between two boundaries of a plan nothing comes or goes.                 *)
LEMMA SameUntilABoundary ==
    ASSUME NEW f, Timeline(f), NEW ev, NEW out, NEW sel, NEW fields, NEW p,
           p.scenes = Project(f, ev, out, sel, fields).scenes,
           p.shots = Project(f, ev, out, sel, fields).shots,
           p.transitions = Project(f, ev, out, sel, fields).transitions,
           p.videos = Project(f, ev, out, sel, fields).videos,
           p.overlays = Project(f, ev, out, sel, fields).overlays,
           p.captions = Project(f, ev, out, sel, fields).captions,
           NEW g \in Nat, NEW h \in Nat, g <= h,
           \A b \in g + 1 .. h : b \notin Boundaries(f, p)
    PROVE  Visible(f, p, g) = Visible(f, p, h)
<1>1. /\ p.scenes \subseteq DOMAIN f.scenes /\ p.shots \subseteq DOMAIN f.shots
      /\ p.transitions \subseteq DOMAIN f.shots
      /\ p.videos \subseteq Contents(f, "video") /\ p.overlays \subseteq Contents(f, "overlay")
      /\ p.captions \subseteq f.captions
  BY DEF Project, ShotIndexes
<1>2. ASSUME NEW at, at.start \in Nat, at.end \in Nat, {at.start, at.end} \subseteq Boundaries(f, p)
      PROVE  Covers(at, g) <=> Covers(at, h)
  <2>1. at.start \notin g + 1 .. h /\ at.end \notin g + 1 .. h
    BY <1>2
  <2> QED
    BY <1>2, <2>1 DEF Covers
<1>3. \A at : at \in Structures(f, p) \/ (\E v \in p.videos : at = v.at) =>
        {at.start, at.end} \subseteq Boundaries(f, p)
  BY DEF Boundaries
<1>4. ASSUME NEW k \in p.scenes PROVE Covers(f.scenes[k], g) <=> Covers(f.scenes[k], h)
  <2>1. f.scenes[k].start \in Nat /\ f.scenes[k].end \in Nat
    BY <1>1 DEF Timeline
  <2>2. {f.scenes[k].start, f.scenes[k].end} \subseteq Boundaries(f, p)
    BY <1>3 DEF Structures
  <2> QED
    BY <1>2, <2>1, <2>2
<1>5. ASSUME NEW i \in p.shots PROVE Covers(f.shots[i].at, g) <=> Covers(f.shots[i].at, h)
  <2>1. f.shots[i].at.start \in Nat /\ f.shots[i].at.end \in Nat
    BY <1>1, Around DEF Timeline
  <2>2. {f.shots[i].at.start, f.shots[i].at.end} \subseteq Boundaries(f, p)
    BY <1>3 DEF Structures
  <2> QED
    BY <1>2, <2>1, <2>2
<1>6. ASSUME NEW i \in p.transitions PROVE Covers(f.shots[i].cut, g) <=> Covers(f.shots[i].cut, h)
  <2>1. f.shots[i].cut.start \in Nat /\ f.shots[i].cut.end \in Nat
    BY <1>1, Around, SMTT(30) DEF Timeline
  <2>2. {f.shots[i].cut.start, f.shots[i].cut.end} \subseteq Boundaries(f, p)
    BY <1>3 DEF Structures
  <2> QED
    BY <1>2, <2>1, <2>2
<1>7. ASSUME NEW v \in p.videos PROVE Covers(v.at, g) <=> Covers(v.at, h)
  <2>1. v.at.start \in Nat /\ v.at.end \in Nat
    BY <1>1, ContentsLie
  <2>2. {v.at.start, v.at.end} \subseteq Boundaries(f, p)
    BY <1>3
  <2> QED
    BY <1>2, <2>1, <2>2
<1>8. ASSUME NEW o \in p.overlays PROVE Covers(o.at, g) <=> Covers(o.at, h)
  <2>1. o.at.start \in Nat /\ o.at.end \in Nat
    BY <1>1, ContentsLie
  <2>2. {o.at.start, o.at.end} \subseteq Boundaries(f, p)
    BY <1>3 DEF Structures
  <2> QED
    BY <1>2, <2>1, <2>2
<1>9. ASSUME NEW c \in p.captions PROVE Covers(c.at, g) <=> Covers(c.at, h)
  <2>1. c.at.start \in Nat /\ c.at.end \in Nat
    BY <1>1 DEF Timeline
  <2>2. {c.at.start, c.at.end} \subseteq Boundaries(f, p)
    BY <1>3 DEF Structures
  <2> QED
    BY <1>2, <2>1, <2>2
<1> QED
  BY <1>4, <1>5, <1>6, <1>7, <1>8, <1>9 DEF Visible

(* The capture a frame repeats.                                            *)
LEMMA LastCapture ==
    ASSUME NEW f, NEW u, u.plan.output.start \in Nat, u.plan.output.end \in 0 .. MaxFrame,
           NEW g \in Nat, Covers(u.plan.output, g)
    PROVE  LET l == LastCaptured(f, u, g) IN
           /\ l \in Nat /\ Covers(u.plan.output, l) /\ l <= g /\ Captured(f, u, l)
           /\ \A h \in l + 1 .. g : ~Captured(f, u, h)
<1> DEFINE out == u.plan.output
           S == {h \in Frames(out) : h <= g /\ Captured(f, u, h)}
<1>1. out.start <= g /\ g < out.end /\ MaxFrame \in Nat /\ out.end <= MaxFrame /\ out.end \in Nat
  BY SolveAssumption DEF Covers
<1>2. out.start \in S
  BY <1>1 DEF Captured, Frames
<1>3. S \subseteq 0 .. MaxFrame
  BY <1>1 DEF Frames
<1>4. PICK l \in S : \A n \in S : n <= l
  BY <1>2, <1>3, LastFrame
<1>5. \A h \in l + 1 .. g : ~Captured(f, u, h)
  <2> SUFFICES ASSUME NEW h \in l + 1 .. g, Captured(f, u, h) PROVE FALSE
    OBVIOUS
  <2>1. l \in Nat /\ out.start <= l
    BY <1>3, <1>4 DEF Frames
  <2>2. h \in Frames(out) /\ h <= g /\ l < h
    BY <1>1, <2>1 DEF Frames
  <2>3. h <= l
    BY <1>4, <2>2
  <2> QED
    BY <2>1, <2>2, <2>3
<1> HIDE DEF S
<1>6. \E n \in Frames(out) : /\ n <= g /\ Captured(f, u, n)
                             /\ \A h \in n + 1 .. g : ~Captured(f, u, h)
  <2>1. l \in Frames(out) /\ l <= g /\ Captured(f, u, l)
    BY <1>4 DEF S
  <2> QED
    BY <1>5, <2>1
<1> DEFINE L == LastCaptured(f, u, g)
<1>7. L \in Frames(out) /\ L <= g /\ Captured(f, u, L) /\ \A h \in L + 1 .. g : ~Captured(f, u, h)
  BY <1>6 DEF LastCaptured
<1> HIDE DEF L
<1>8. L \in Nat /\ Covers(out, L)
  BY <1>1, <1>7 DEF Frames, Covers
<1> QED
  BY <1>7, <1>8 DEF L

(***************************************************************************)
(* The units.                                                              *)

IsUnit(u) ==
    /\ DOMAIN u = {"plan", "audio", "execution"}
    /\ DOMAIN u.plan = {"evaluation", "output", "fields", "scenes", "shots", "transitions", "videos",
                        "overlays", "captions"}

(* A unit of a region: on the path it chose, or on the browser's.          *)
Unit(f, r, c, b, u) ==
    /\ IsUnit(u)
    /\ u.plan = Project(f, r.evaluation, r.output, {r.shots}, VariantFields(f, r))
    /\ \/ u.execution = Select(c, b, u.plan, VideoAssets(f, r.shots))
       \/ u.execution = Execution(b, "BrowserComposite", {}, u.plan)

(* Each region has one unit, on its own path or, when they disagree, on   *)
(* the path of the browser; a film that is not refused selects media that *)
(* can be drawn natively.                                                 *)
LEMMA UnitsOfRegions ==
    ASSUME NEW f, NEW u, NEW r, NEW p, PlannedAs(f, u, r, p)
    PROVE  /\ DOMAIN u = DOMAIN Regions(f)
           /\ \A i \in DOMAIN Regions(f) :
                /\ Unit(f, Regions(f)[i], p.capability, p.behavior, u[i])
                /\ r = {} => SelectFaults(u[i].execution) = {}
<1> DEFINE regions == Regions(f)
           composed == Composed(f, regions, p)
           c == p.capability
           b == p.behavior
           own(i) == Compose(f, regions[i], c, b)
<1>1. /\ u = Normalize(composed, b)
      /\ r = GraphFaults(f) \cup UNION {UnitFaults(f, regions[i], composed[i]) : i \in DOMAIN regions}
  BY DEF PlannedAs
<1>2. composed = [i \in DOMAIN regions |-> own(i)]
  BY DEF Composed
<1>3. \/ u = composed
      \/ u = [i \in DOMAIN composed |->
                [composed[i] EXCEPT !.execution =
                   Execution(b, "BrowserComposite", {}, composed[i].plan)]]
  BY <1>1 DEF Normalize
<1>4. \A i : /\ own(i).plan = Project(f, regions[i].evaluation, regions[i].output,
                                     {regions[i].shots}, VariantFields(f, regions[i]))
             /\ own(i).execution = Select(c, b, own(i).plan, VideoAssets(f, regions[i].shots))
             /\ \A x : /\ [own(i) EXCEPT !.execution = x].plan = own(i).plan
                       /\ [own(i) EXCEPT !.execution = x].execution = x
             /\ IsUnit(own(i)) /\ \A x : IsUnit([own(i) EXCEPT !.execution = x])
  <2> SUFFICES ASSUME NEW i
               PROVE  /\ own(i).plan = Project(f, regions[i].evaluation, regions[i].output,
                                               {regions[i].shots}, VariantFields(f, regions[i]))
                      /\ own(i).execution = Select(c, b, own(i).plan, VideoAssets(f, regions[i].shots))
                      /\ \A x : /\ [own(i) EXCEPT !.execution = x].plan = own(i).plan
                                /\ [own(i) EXCEPT !.execution = x].execution = x
                      /\ IsUnit(own(i)) /\ \A x : IsUnit([own(i) EXCEPT !.execution = x])
    OBVIOUS
  <2> DEFINE plan == Project(f, regions[i].evaluation, regions[i].output,
                             {regions[i].shots}, VariantFields(f, regions[i]))
             audio == AudioPlan(f, regions[i].output)
             execution == Select(c, b, plan, VideoAssets(f, regions[i].shots))
  <2>1. own(i) = [plan |-> plan, audio |-> audio, execution |-> execution]
    BY DEF Compose
  <2>2. DOMAIN plan = {"evaluation", "output", "fields", "scenes", "shots", "transitions", "videos",
                       "overlays", "captions"}
    BY DEF Project
  <2> HIDE DEF plan, audio, execution
  <2>3. /\ own(i).plan = plan /\ own(i).execution = execution
        /\ DOMAIN own(i) = {"plan", "audio", "execution"}
    BY <2>1
  <2>4. ASSUME NEW x
        PROVE  /\ [own(i) EXCEPT !.execution = x].plan = plan
               /\ [own(i) EXCEPT !.execution = x].execution = x
               /\ DOMAIN [own(i) EXCEPT !.execution = x] = {"plan", "audio", "execution"}
    BY <2>1
  <2> HIDE DEF own
  <2>5. IsUnit(own(i)) /\ \A x : IsUnit([own(i) EXCEPT !.execution = x])
    BY <2>2, <2>3, <2>4 DEF IsUnit
  <2> QED
    BY <2>3, <2>4, <2>5 DEF plan, execution
<1>5. \A i \in DOMAIN regions : r = {} => SelectFaults(composed[i].execution) = {}
  <2> SUFFICES ASSUME NEW i \in DOMAIN regions, r = {} PROVE SelectFaults(composed[i].execution) = {}
    OBVIOUS
  <2>1. SelectFaults(composed[i].execution) \subseteq UnitFaults(f, regions[i], composed[i])
    BY DEF UnitFaults
  <2>2. UnitFaults(f, regions[i], composed[i]) \subseteq r
    BY <1>1
  <2> QED
    BY <2>1, <2>2
<1>6. \A m : SelectFaults(Execution(b, "BrowserComposite", {}, m)) = {}
  BY DEF SelectFaults, Execution, Fails
<1> HIDE DEF own, composed, regions
<1>7. DOMAIN composed = DOMAIN regions /\ \A i \in DOMAIN regions : composed[i] = own(i)
  BY <1>2
<1>8. DOMAIN u = DOMAIN regions
  BY <1>3, <1>7
<1>9. ASSUME NEW i \in DOMAIN regions
      PROVE  /\ Unit(f, regions[i], c, b, u[i]) /\ (r = {} => SelectFaults(u[i].execution) = {})
  <2>1. CASE u = composed
    <3>1. u[i] = own(i) /\ composed[i] = own(i)
      BY <1>7, <2>1
    <3>2. /\ u[i].plan = own(i).plan /\ IsUnit(u[i])
          /\ u[i].execution = own(i).execution
      BY <1>4, <3>1
    <3>3. r = {} => SelectFaults(u[i].execution) = {}
      BY <1>5, <3>1
    <3> QED
      BY <1>4, <3>2, <3>3 DEF Unit
  <2>2. CASE u = [j \in DOMAIN composed |->
                    [composed[j] EXCEPT !.execution =
                       Execution(b, "BrowserComposite", {}, composed[j].plan)]]
    <3>1. u[i] = [own(i) EXCEPT !.execution = Execution(b, "BrowserComposite", {}, own(i).plan)]
      BY <1>7, <2>2
    <3>2. /\ u[i].plan = own(i).plan /\ IsUnit(u[i])
          /\ u[i].execution = Execution(b, "BrowserComposite", {}, own(i).plan)
      BY <1>4, <3>1
    <3> QED
      BY <1>4, <1>6, <3>2 DEF Unit
  <2> QED
    BY <1>3, <2>1, <2>2
<1> QED
  BY <1>8, <1>9 DEF regions

(* Who draws the videos of a unit, and when.                               *)
Draws(u) ==
    /\ u.execution.media = {} \/ u.execution.media = u.plan.videos
    /\ u.execution.media = {} /\ u.execution.cadence # "EveryFrame"
         => \A v \in u.plan.videos : ~Intersects(v.at, u.plan.output)
    /\ u.execution.media # {} =>
         \/ /\ u.execution.mode = "SeparableOverlay" /\ LayeredFits(u.plan)
            /\ \A v \in u.plan.videos : DrawsNatively(v)
         \/ u.execution.mode = "SeparableBackdrop" /\ PublishesVideo(u.plan)

(* A unit has either no native media or all of its videos.                *)
LEMMA UnitDraws ==
    ASSUME NEW f, NEW r, NEW c \in Capabilities, NEW b, NEW u, Unit(f, r, c, b, u)
    PROVE  Draws(u)
<1> DEFINE p == u.plan
           x == u.execution
<1>1. ASSUME x = Execution(b, "BrowserComposite", {}, p) PROVE Draws(u)
  BY <1>1 DEF Execution, Cadence, Draws
<1>2. CASE c = "SeparableBackdrop" /\ PublishesVideo(p) /\ x = Execution(b, "SeparableBackdrop", p.videos, p)
  <2>1. p.videos # {} /\ x.media = p.videos /\ x.mode = "SeparableBackdrop"
    BY <1>2 DEF PublishesVideo, Execution
  <2> QED
    BY <1>2, <2>1 DEF Draws
<1>3. CASE c = "SeparableBackdrop" /\ ~PublishesVideo(p) /\ x = Execution(b, "SeparableBackdrop", {}, p)
  BY <1>3 DEF PublishesVideo, Execution, Draws
<1>4. CASE /\ LayeredFits(p) /\ \A v \in p.videos : DrawsNatively(v)
           /\ x = Execution(b, "SeparableOverlay", p.videos, p)
  <2>1. p.videos # {} /\ x.media = p.videos /\ x.mode = "SeparableOverlay"
    BY <1>4 DEF LayeredFits, Execution
  <2> QED
    BY <1>4, <2>1 DEF Draws
<1>5. \/ x = Execution(b, "BrowserComposite", {}, p)
      \/ c = "SeparableBackdrop" /\ PublishesVideo(p) /\ x = Execution(b, "SeparableBackdrop", p.videos, p)
      \/ c = "SeparableBackdrop" /\ ~PublishesVideo(p) /\ x = Execution(b, "SeparableBackdrop", {}, p)
      \/ /\ LayeredFits(p) /\ \A v \in p.videos : DrawsNatively(v)
         /\ x = Execution(b, "SeparableOverlay", p.videos, p)
  BY DEF Unit, Select, Capabilities
<1> QED
  BY <1>1, <1>2, <1>3, <1>4, <1>5

(* A unit captured alone lacks no media.                                   *)
LEMMA UnitAlone ==
    ASSUME NEW u, Draws(u),
           \A v \in u.plan.videos : {v.at.start, v.at.end} \subseteq Nat /\ v.at.start <= v.at.end,
           {u.plan.output.start, u.plan.output.end} \subseteq Nat,
           u.plan.output.start <= u.plan.output.end
    PROVE  NativeFaults(<<u>>) = {}
<1> DEFINE s == <<u>>
<1>1. DOMAIN s = {1} /\ s[1] = u
  OBVIOUS
<1> HIDE DEF s
<1>2. VisualPath(s) = "Layered" => u.plan.videos = u.execution.media /\ LayeredFits(u.plan)
  BY <1>1 DEF VisualPath, UsesNativeMedia, Draws
<1>3. VisualPath(s) = "Backdrop" => \E v \in u.execution.media : Intersection(v.at, u.plan.output) # {}
  <2> SUFFICES ASSUME VisualPath(s) = "Backdrop"
               PROVE  \E v \in u.execution.media : Intersection(v.at, u.plan.output) # {}
    OBVIOUS
  <2>1. u.execution.mode = "SeparableBackdrop" /\ u.execution.media # {}
    BY <1>1 DEF VisualPath, UsesNativeMedia
  <2>2. PublishesVideo(u.plan) /\ u.execution.media = u.plan.videos
    BY <2>1 DEF Draws
  <2>3. PICK v \in u.plan.videos : Intersects(v.at, u.plan.output)
    BY <2>2 DEF PublishesVideo
  <2> DEFINE i == v.at
             j == u.plan.output
  <2>4. {i.start, i.end, j.start, j.end} \subseteq Nat /\ Intersects(i, j) /\ i.start <= i.end /\ j.start <= j.end
    BY <2>3
  <2> HIDE DEF i, j
  <2>5. (IF i.start >= j.start THEN i.start ELSE j.start) < (IF i.end <= j.end THEN i.end ELSE j.end)
    BY <2>4 DEF Intersects, IsEmpty
  <2>6. Intersection(i, j) # {}
    BY <2>5 DEF Intersection
  <2> QED
    BY <2>2, <2>6 DEF i, j
<1>4. NativeFaults(s) = {}
  BY <1>1, <1>2, <1>3 DEF NativeFaults, Fails
<1> QED
  BY <1>4 DEF s

(***************************************************************************)
(* The picture of a frame.                                                 *)

(* Where FFmpeg draws a video of a unit, and what it draws at a frame.     *)
On(u, v) ==
    IF u.execution.mode = "SeparableOverlay"
    THEN [source |-> Raster(Canvas), destination |-> Raster(Canvas)] ELSE Placement(v)

Drawing(u, v, g) ==
    [video |-> v, frame |-> NativeFrame(v.treatment, g - v.at.start),
     source |-> On(u, v).source, destination |-> On(u, v).destination]

Drawn(u, g) == {Drawing(u, v, g) : v \in {w \in u.execution.media : Covers(w.at, g)}}

(* The frames of an intersection are those of both intervals.             *)
LEMMA SharedFrames ==
    ASSUME NEW i, NEW j, {i.start, i.end, j.start, j.end} \subseteq Nat, NEW g \in Nat
    PROVE  /\ \A at \in Intersection(i, j) :
                /\ at.start \in Nat /\ at.end \in Nat
                /\ Covers(at, g) => Covers(i, g) /\ Covers(j, g)
           /\ Covers(i, g) /\ Covers(j, g) => \E at \in Intersection(i, j) : Covers(at, g)
<1> DEFINE a == IF i.start >= j.start THEN i.start ELSE j.start
           b == IF i.end <= j.end THEN i.end ELSE j.end
<1>1. a \in Nat /\ b \in Nat /\ (a <= g /\ g < b <=> Covers(i, g) /\ Covers(j, g))
  BY DEF Covers
<1>2. Intersection(i, j) = IF a < b THEN {Interval(a, b)} ELSE {}
  BY DEF Intersection
<1> HIDE DEF a, b
<1>3. Interval(a, b).start = a /\ Interval(a, b).end = b
  BY DEF Interval
<1>4. Covers(Interval(a, b), g) <=> a <= g /\ g < b
  BY <1>3 DEF Covers
<1>5. a <= g /\ g < b => a < b
  BY <1>1
<1> HIDE DEF Interval
<1> QED
  BY <1>1, <1>2, <1>3, <1>4, <1>5

(* In a sequence of units one of which publishes the frame, FFmpeg draws   *)
(* what that unit has it draw, wherever the sequence starts.               *)
LEMMA NativeIsDrawn ==
    ASSUME NEW s, NEW i \in DOMAIN s, NEW g \in Nat, NEW origin \in Nat,
           \A n \in DOMAIN s :
             /\ s[n].plan.output.start \in Nat /\ s[n].plan.output.end \in Nat
             /\ \A v \in s[n].execution.media : v.at.start \in Nat /\ v.at.end \in Nat
             /\ Covers(s[n].plan.output, g) <=> n = i
    PROVE  Native(UNION {NativeInputs(s[n], origin) : n \in DOMAIN s}, g, origin) = Drawn(s[i], g)
<1> DEFINE inputs == UNION {NativeInputs(s[n], origin) : n \in DOMAIN s}
           active(n) == n.start <= g - origin /\ g - origin < n.start + n.frames
           draw(n) == [video |-> n.video,
                       frame |-> NativeFrame(n.video.treatment, n.skip + (g - origin - n.start)),
                       source |-> n.source, destination |-> n.destination]
           shared(n, v) == Intersection(v.at, s[n].plan.output)
           input(n, v, at) == NativeInput(v, On(s[n], v), at, origin)
<1>1. Native(inputs, g, origin) = {draw(n) : n \in {m \in inputs : active(m)}}
  BY DEF Native
<1>2. \A n \in DOMAIN s : NativeInputs(s[n], origin)
        = UNION {{input(n, v, at) : at \in shared(n, v)} : v \in s[n].execution.media}
  BY DEF NativeInputs, On
<1>3. ASSUME NEW n \in DOMAIN s, NEW v \in s[n].execution.media, NEW at \in shared(n, v)
      PROVE  /\ active(input(n, v, at)) <=> Covers(at, g)
             /\ draw(input(n, v, at)) = Drawing(s[n], v, g)
             /\ Covers(at, g) => Covers(v.at, g) /\ n = i
  <2>1. at.start \in Nat /\ at.end \in Nat
        /\ (Covers(at, g) => Covers(v.at, g) /\ Covers(s[n].plan.output, g))
    BY SharedFrames
  <2>2. /\ active(input(n, v, at)) <=> Covers(at, g)
        /\ input(n, v, at).video = v /\ input(n, v, at).source = On(s[n], v).source
        /\ input(n, v, at).destination = On(s[n], v).destination
        /\ input(n, v, at).skip + (g - origin - input(n, v, at).start) = g - v.at.start
    <3> DEFINE m == input(n, v, at)
    <3>1. /\ m.video = v /\ m.source = On(s[n], v).source /\ m.destination = On(s[n], v).destination
          /\ m.start = at.start - origin /\ m.frames = at.end - at.start
          /\ m.skip = at.start - v.at.start
      BY DEF NativeInput, Span
    <3> HIDE DEF m
    <3>2. v.at.start \in Nat
      OBVIOUS
    <3>3. active(m) <=> Covers(at, g)
      BY <2>1, <3>1 DEF Covers
    <3>4. m.skip + (g - origin - m.start) = g - v.at.start
      BY <2>1, <3>1, <3>2
    <3> QED
      BY <3>1, <3>3, <3>4 DEF m
  <2> HIDE DEF input
  <2>3. draw(input(n, v, at)) = Drawing(s[n], v, g)
    BY <2>2 DEF Drawing
  <2> QED
    BY <2>1, <2>2, <2>3
<1>4. ASSUME NEW v \in s[i].execution.media, Covers(v.at, g) PROVE \E at \in shared(i, v) : Covers(at, g)
  <2>1. Covers(s[i].plan.output, g)
    OBVIOUS
  <2> QED
    BY <1>4, <2>1, SharedFrames
<1> HIDE DEF active, draw, input, shared
<1>5. ASSUME NEW x \in {draw(n) : n \in {m \in inputs : active(m)}} PROVE x \in Drawn(s[i], g)
  <2>1. PICK m \in inputs : active(m) /\ x = draw(m)
    BY <1>5
  <2>2. PICK n \in DOMAIN s : m \in NativeInputs(s[n], origin)
    OBVIOUS
  <2>3. PICK v \in s[n].execution.media : \E at \in shared(n, v) : m = input(n, v, at)
    BY <1>2, <2>2
  <2>4. PICK at \in shared(n, v) : m = input(n, v, at)
    BY <2>3
  <2>5. n = i /\ Covers(v.at, g) /\ x = Drawing(s[n], v, g)
    BY <1>3, <2>1, <2>4
  <2> QED
    BY <2>5 DEF Drawn
<1>6. ASSUME NEW x \in Drawn(s[i], g) PROVE x \in {draw(n) : n \in {m \in inputs : active(m)}}
  <2>1. PICK v \in s[i].execution.media : Covers(v.at, g) /\ x = Drawing(s[i], v, g)
    BY DEF Drawn
  <2>2. PICK at \in shared(i, v) : Covers(at, g)
    BY <1>4, <2>1
  <2>3. active(input(i, v, at)) /\ draw(input(i, v, at)) = x
    BY <1>3, <2>1, <2>2
  <2>4. input(i, v, at) \in NativeInputs(s[i], origin)
    BY <1>2
  <2>5. input(i, v, at) \in inputs
    BY <2>4
  <2> QED
    BY <2>3, <2>5
<1> QED
  BY <1>1, <1>5, <1>6

(* Plans with the same elements.                                           *)
Shares(p, q) ==
    /\ p.scenes = q.scenes /\ p.shots = q.shots /\ p.transitions = q.transitions
    /\ p.videos = q.videos /\ p.overlays = q.overlays /\ p.captions = q.captions

(* A unit of a region, or of a part of its output.                         *)
OfRegion(f, r, u) ==
    /\ Shares(u.plan, Project(f, r.evaluation, r.output, {r.shots}, VariantFields(f, r)))
    /\ {u.plan.output.start, u.plan.output.end} \subseteq Nat
    /\ u.plan.output.start <= u.plan.output.end
    /\ ContainsInterval(r.output, u.plan.output)
    /\ u.execution.media = {} \/ u.execution.media = u.plan.videos
    /\ u.execution.media = {} /\ u.execution.cadence # "EveryFrame" =>
         \A v \in u.plan.videos : \A h \in Nat : Covers(u.plan.output, h) => ~Covers(v.at, h)

Played(f, g) ==
    {[video |-> v, frame |-> BrowserFrame(v.treatment, g - v.at.start)] : v \in Seen(f, g).videos}

PictureOf(f, u, g) ==
    [page |-> [Seen(f, g) EXCEPT !.videos = {}],
     browser |-> IF u.execution.media = {} THEN Played(f, g) ELSE {},
     native |-> Drawn(u, g)]

(* A region ends with the film at the latest.                              *)
LEMMA RegionEnds ==
    ASSUME NEW f, Timeline(f), NEW m \in DOMAIN Regions(f)
    PROVE  Regions(f)[m].output.end <= f.end
<1> DEFINE regions == Regions(f)
           N == Len(regions)
           end(n) == regions[n].output.end
<1>1. Tiles(f, regions, 0, f.end) /\ DOMAIN regions = 1 .. N /\ N \in Nat
      /\ \A n \in DOMAIN regions : Framed(regions[n])
  BY RegionsOfFilm
<1>2. /\ \A n \in 1 .. N : regions[n].output.start = IF n = 1 THEN 0 ELSE regions[n - 1].output.end
      /\ regions \in Seq(Range(regions)) /\ m \in 1 .. N
      /\ f.end = IF regions = <<>> THEN 0 ELSE regions[N].output.end
  BY <1>1 DEF Tiles
<1> HIDE DEF regions, N
<1>3. f.end = end(N) /\ \A n \in 1 .. N : end(n) \in Nat
  BY <1>1, <1>2 DEF Framed, N
<1>4. ASSUME NEW n \in 1 .. N - 1 PROVE n \in 1 .. N /\ n + 1 \in 1 .. N /\ end(n) <= end(n + 1)
  <2> DEFINE k == n + 1
  <2>1. k \in 1 .. N /\ k # 1 /\ k - 1 = n /\ n \in 1 .. N
    BY <1>1
  <2> HIDE DEF k
  <2>2. regions[k].output.start = regions[n].output.end /\ Framed(regions[k])
    BY <1>1, <1>2, <2>1
  <2>3. end(n) <= end(k)
    BY <2>2 DEF Framed
  <2> QED
    BY <2>1, <2>3 DEF k
<1> HIDE DEF end
<1> DEFINE P == {n \in 1 .. N : m <= n => end(m) <= end(n)}
<1>5. 1 \in P
  BY <1>1, <1>2, <1>3
<1>6. ASSUME NEW n \in 1 .. N - 1, n \in P PROVE n + 1 \in P
  <2>1. n \in Nat /\ m \in Nat /\ end(m) \in Nat /\ end(n) \in Nat /\ end(n + 1) \in Nat
        /\ n \in 1 .. N /\ n + 1 \in 1 .. N /\ end(n) <= end(n + 1)
    BY <1>1, <1>2, <1>3, <1>4
  <2>2. CASE m <= n
    BY <1>6, <2>1, <2>2
  <2>3. CASE m = n + 1
    BY <2>1, <2>3
  <2>4. CASE n + 1 < m
    BY <2>1, <2>4
  <2> QED
    BY <2>1, <2>2, <2>3, <2>4
<1> HIDE DEF P
<1>7. 1 .. N \subseteq P
  BY ONLY <1>1, <1>5, <1>6, Positions
<1> QED
  BY <1>1, <1>2, <1>3, <1>7 DEF P, end, regions

(* The page shows the frame, also where an earlier capture is repeated.    *)
LEMMA CaptureShows ==
    ASSUME NEW f, Timeline(f), NEW m \in DOMAIN Regions(f), NEW u, OfRegion(f, Regions(f)[m], u),
           NEW g \in 0 .. f.end - 1, Covers(u.plan.output, g)
    PROVE  /\ Visible(f, u.plan, LastCaptured(f, u, g)) = Seen(f, g)
           /\ u.execution.media = {} => LastCaptured(f, u, g) = g \/ Seen(f, g).videos = {}
<1> DEFINE r == Regions(f)[m]
           p == Project(f, r.evaluation, r.output, {r.shots}, VariantFields(f, r))
           out == u.plan.output
           l == LastCaptured(f, u, g)
<1>1. g \in Nat /\ f.end \in Nat /\ f.end <= MaxFrame
  BY SolveAssumption DEF Timeline
<1>2. {out.start, out.end} \subseteq Nat /\ Framed(r) /\ ContainsInterval(r.output, out)
  BY RegionsOfFilm DEF OfRegion
<1>3. Covers(r.output, g)
  BY <1>1, <1>2 DEF Covers, ContainsInterval, Framed
<1>4. Visible(f, p, g) = Seen(f, g)
  BY <1>3, RegionIsSeen
<1>5. Shares(u.plan, p)
  BY DEF OfRegion
<1>6. \A h : Visible(f, u.plan, h) = Visible(f, p, h)
  BY <1>5 DEF Visible, Shares
<1>7. out.end \in 0 .. MaxFrame
  <2>1. r.output.end <= f.end
    BY RegionEnds
  <2>2. out.end <= r.output.end /\ r.output.end \in Nat
    BY <1>2 DEF ContainsInterval, Framed
  <2> HIDE DEF out, r
  <2> QED
    BY <1>1, <1>2, <2>1, <2>2, SolveAssumption
<1>8. /\ l \in Nat /\ Covers(out, l) /\ l <= g
      /\ \A h \in l + 1 .. g : ~Captured(f, u, h)
  BY <1>1, <1>2, <1>7, LastCapture
<1>9. \A h \in l + 1 .. g : h \notin Boundaries(f, u.plan) /\ u.execution.cadence # "EveryFrame"
  BY <1>8 DEF Captured
<1> HIDE DEF l
<1>10. Visible(f, u.plan, l) = Visible(f, u.plan, g)
  <2> DEFINE w == u.plan
  <2>1. /\ w.scenes = p.scenes /\ w.shots = p.shots /\ w.transitions = p.transitions
        /\ w.videos = p.videos /\ w.overlays = p.overlays /\ w.captions = p.captions
    BY <1>5 DEF Shares
  <2> HIDE DEF r
  <2> QED
    BY <1>1, <1>8, <1>9, <2>1, SameUntilABoundary
<1>11. ASSUME u.execution.media = {}, l # g PROVE Seen(f, g).videos = {}
  <2>1. u.execution.cadence # "EveryFrame"
    <3>1. g \in l + 1 .. g
      BY <1>1, <1>8, <1>11
    <3> QED
      BY <1>9, <3>1
  <2>2. \A v \in u.plan.videos : ~Covers(v.at, g)
    BY <1>1, <1>11, <2>1 DEF OfRegion
  <2>3. Seen(f, g) = Visible(f, u.plan, g)
    BY <1>4, <1>6
  <2>4. Seen(f, g).videos = {v \in u.plan.videos : Covers(v.at, g)}
    BY <2>3 DEF Visible
  <2> QED
    BY <2>2, <2>4
<1> QED
  BY <1>4, <1>6, <1>10, <1>11 DEF l

(* The picture of a frame is that of the unit that publishes it.           *)
LEMMA PictureIsDrawn ==
    ASSUME NEW f, Timeline(f), NEW s, NEW i \in DOMAIN s, 1 \in DOMAIN s,
           \A n \in DOMAIN s : \E m \in DOMAIN Regions(f) : OfRegion(f, Regions(f)[m], s[n]),
           NEW g \in 0 .. f.end - 1, \A n \in DOMAIN s : Covers(s[n].plan.output, g) <=> n = i
    PROVE  Picture(f, s, g) = PictureOf(f, s[i], g)
<1> DEFINE u == s[i]
           origin == s[1].plan.output.start
           l == LastCaptured(f, u, g)
           shown == Shown(f, u.plan, l, BrowserDrawsVideos(u))
<1>1. g \in Nat
  BY SolveAssumption DEF Timeline
<1>2. (CHOOSE n \in DOMAIN s : Covers(s[n].plan.output, g)) = i
  OBVIOUS
<1>3. ASSUME NEW n \in DOMAIN s
      PROVE  /\ s[n].plan.output.start \in Nat /\ s[n].plan.output.end \in Nat
             /\ \A v \in s[n].execution.media : v.at.start \in Nat /\ v.at.end \in Nat
  <2>1. PICK m \in DOMAIN Regions(f) : OfRegion(f, Regions(f)[m], s[n])
    OBVIOUS
  <2>2. s[n].execution.media \subseteq Contents(f, "video")
    BY <2>1 DEF OfRegion, Shares, Project
  <2> QED
    BY <2>1, <2>2, ContentsLie DEF OfRegion
<1>4. Native(UNION {NativeInputs(s[n], origin) : n \in DOMAIN s}, g, origin) = Drawn(u, g)
  BY <1>1, <1>3, NativeIsDrawn
<1>5. Visible(f, u.plan, l) = Seen(f, g) /\ (u.execution.media = {} => l = g \/ Seen(f, g).videos = {})
  <2>1. PICK m \in DOMAIN Regions(f) : OfRegion(f, Regions(f)[m], u)
    OBVIOUS
  <2>2. Covers(u.plan.output, g)
    OBVIOUS
  <2> QED
    BY <2>1, <2>2, CaptureShows
<1>6. Picture(f, s, g) = [page |-> shown.page, browser |-> shown.videos, native |-> Drawn(u, g)]
  BY <1>2, <1>4 DEF Picture
<1> HIDE DEF l
<1>7. shown.page = [Seen(f, g) EXCEPT !.videos = {}]
  BY <1>5 DEF Shown
<1>8. shown.videos = IF u.execution.media = {} THEN Played(f, g) ELSE {}
  <2>1. shown.videos = IF BrowserDrawsVideos(u)
          THEN {[video |-> v, frame |-> BrowserFrame(v.treatment, l - v.at.start)] : v \in Seen(f, g).videos}
          ELSE {}
    BY <1>5 DEF Shown
  <2>2. BrowserDrawsVideos(u) <=> u.execution.media = {}
    BY DEF BrowserDrawsVideos, UsesNativeMedia
  <2>3. CASE l = g
    BY <2>1, <2>2, <2>3 DEF Played
  <2>4. CASE Seen(f, g).videos = {}
    BY <2>1, <2>2, <2>4 DEF Played
  <2> QED
    BY <1>5, <2>1, <2>2, <2>3, <2>4
<1> QED
  BY <1>6, <1>7, <1>8 DEF PictureOf

(* A projection keeps its output, and its videos are the film's.            *)
LEMMA ProjectedPart ==
    ASSUME NEW f, NEW ev, NEW out, NEW sel, NEW fields
    PROVE  /\ Project(f, ev, out, sel, fields).output = out
           /\ Project(f, ev, out, sel, fields).videos \subseteq Contents(f, "video")
BY DEF Project

(* What a planned film's units are.                                        *)
LEMMA PlannedUnits ==
    ASSUME TInv, Plannable, phase = "planned"
    PROVE  /\ Timeline(TheFilm) /\ DOMAIN units = DOMAIN Regions(TheFilm)
           /\ \A i \in DOMAIN units :
                /\ OfRegion(TheFilm, Regions(TheFilm)[i], units[i]) /\ Draws(units[i])
                /\ IsUnit(units[i])
                /\ units[i].plan.output = Regions(TheFilm)[i].output
                /\ refused = {} => SelectFaults(units[i].execution) = {}
<1> DEFINE f == TheFilm
           regions == Regions(f)
<1>1. Timeline(f)
  BY SolvedFilm
<1>2. PlannedAs(f, units, refused, presentation)
  BY DEF Plannable, Planned
<1>3. /\ DOMAIN units = DOMAIN regions
      /\ \A i \in DOMAIN regions :
           /\ Unit(f, regions[i], presentation.capability, presentation.behavior, units[i])
           /\ refused = {} => SelectFaults(units[i].execution) = {}
  BY <1>2, UnitsOfRegions
<1>4. presentation.capability \in Capabilities
  BY <1>2 DEF PlannedAs
<1> HIDE DEF f
<1>5. ASSUME NEW i \in DOMAIN regions
      PROVE  /\ Draws(units[i]) /\ units[i].plan.output = regions[i].output /\ IsUnit(units[i])
             /\ OfRegion(f, regions[i], units[i])
  <2> DEFINE u == units[i]
             r == regions[i]
             p == Project(f, r.evaluation, r.output, {r.shots}, VariantFields(f, r))
  <2>1. Draws(u)
    BY <1>3, <1>4, UnitDraws
  <2>2. u.plan = p /\ IsUnit(u)
    BY <1>3 DEF Unit
  <2> HIDE DEF p
  <2>3. u.plan.output = r.output /\ Shares(u.plan, p)
    <3>1. p.output = r.output
      BY ONLY ProjectedPart DEF p
    <3> QED
      BY ONLY <2>2, <3>1 DEF Shares
  <2>4. Framed(r)
    BY <1>1, RegionsOfFilm
  <2>5. u.plan.videos \subseteq Contents(f, "video")
    <3>1. p.videos \subseteq Contents(f, "video")
      BY ONLY ProjectedPart DEF p
    <3> QED
      BY ONLY <2>2, <3>1
  <2> USE DEF p
  <2>6. ASSUME u.execution.media = {}, u.execution.cadence # "EveryFrame",
               NEW v \in u.plan.videos, NEW h \in Nat, Covers(u.plan.output, h), Covers(v.at, h)
        PROVE  FALSE
    <3>1. v.at.start \in Nat /\ v.at.end \in Nat
      BY <1>1, <2>5, ContentsLie
    <3>2. Intersects(v.at, r.output)
      BY <2>3, <2>4, <2>6, <3>1 DEF Covers, Intersects, IsEmpty, Framed
    <3> QED
      BY <2>1, <2>3, <2>6, <3>2 DEF Draws
  <2>7. OfRegion(f, r, u)
    BY <2>1, <2>3, <2>4, <2>6 DEF OfRegion, Framed, ContainsInterval, Draws
  <2> QED
    BY <2>1, <2>2, <2>3, <2>7
<1> QED
  BY <1>1, <1>3, <1>5 DEF f

(* The picture of a frame in the sequence, and in a sequence of one.       *)
LEMMA PicturesOfUnits ==
    ASSUME TInv, Plannable, phase = "planned", NEW g \in 0 .. TheFilm.end - 1
    PROVE  \E i \in DOMAIN units :
             /\ \A n \in DOMAIN units : Covers(units[n].plan.output, g) <=> n = i
             /\ Picture(TheFilm, units, g) = PictureOf(TheFilm, units[i], g)
             /\ CapturedAlone(i, g) = {PictureOf(TheFilm, units[i], g)}
<1> DEFINE f == TheFilm
           regions == Regions(f)
<1>1. /\ Timeline(f) /\ DOMAIN units = DOMAIN regions
      /\ \A i \in DOMAIN units :
           /\ OfRegion(f, regions[i], units[i]) /\ Draws(units[i])
           /\ units[i].plan.output = regions[i].output
  BY PlannedUnits
<1>2. PICK i \in DOMAIN units : Covers(units[i].plan.output, g)
  BY <1>1, RegionsCover
<1>3. \A n \in DOMAIN units : Covers(units[n].plan.output, g) <=> n = i
  BY <1>1, <1>2, RegionsCover
<1>4. 1 \in DOMAIN units
  BY <1>1, <1>2, RegionsOfFilm
<1>5. \A n \in DOMAIN units : \E m \in DOMAIN regions : OfRegion(f, regions[m], units[n])
  BY <1>1
<1>6. g \in 0 .. f.end - 1
  OBVIOUS
<1> HIDE DEF f
<1>7. Picture(f, units, g) = PictureOf(f, units[i], g)
  BY <1>1, <1>3, <1>4, <1>5, <1>6, PictureIsDrawn
<1>8. CapturedAlone(i, g) = {PictureOf(f, units[i], g)}
  <2> DEFINE u == units[i]
             s == <<u>>
  <2>1. DOMAIN s = {1} /\ s[1] = u
    OBVIOUS
  <2>2. OfRegion(f, regions[i], u) /\ Draws(u) /\ Covers(u.plan.output, g)
    BY <1>1, <1>2
  <2>3. NativeFaults(s) = {}
    <3>1. u.plan.videos \subseteq Contents(f, "video")
      BY <2>2 DEF OfRegion, Shares, Project
    <3>2. \A v \in u.plan.videos : {v.at.start, v.at.end} \subseteq Nat /\ v.at.start <= v.at.end
      BY <1>1, <3>1, ContentsLie
    <3> QED
      BY <2>2, <3>2, UnitAlone DEF OfRegion
  <2> HIDE DEF u, s
  <2>4. Picture(f, s, g) = PictureOf(f, s[1], g)
    <3>1. 1 \in DOMAIN s /\ \A n \in DOMAIN s : s[n] = u /\ n = 1
      BY <2>1
    <3>2. \A n \in DOMAIN s : \E m \in DOMAIN Regions(f) : OfRegion(f, Regions(f)[m], s[n])
      BY <1>1, <2>2, <3>1
    <3>3. \A n \in DOMAIN s : Covers(s[n].plan.output, g) <=> n = 1
      BY <2>2, <3>1
    <3> QED
      BY ONLY <1>1, <1>6, <3>1, <3>2, <3>3, PictureIsDrawn
  <2> QED
    BY <2>1, <2>2, <2>3, <2>4 DEF CapturedAlone, u, s, f
<1> QED
  BY <1>3, <1>7, <1>8 DEF f

(* Sources whose frames both ends round alike.                             *)
SourcesRoundAlike ==
    \A a \in AuthoredShots : \A c \in Range(a.content) :
      c.kind = "video" /\ MediaFaults(c) = {} /\ c.treatment.plays = 1 => RoundsAlike(c.treatment)

(* What FFmpeg draws of a video is the source frame that the page plays.   *)
LEMMA NativeIsPlayed ==
    ASSUME SourcesRoundAlike, NEW f, Timeline(f), NEW v \in Contents(f, "video"), DrawsNatively(v),
           NEW g \in Nat, Covers(v.at, g)
    PROVE  NativeFrame(v.treatment, g - v.at.start) = BrowserFrame(v.treatment, g - v.at.start)
<1> DEFINE t == v.treatment
           k == g - v.at.start
<1>1. k \in Nat /\ Plays(t)
  <2>1. v.at.start \in Nat /\ Plays(t)
    BY ContentsLie
  <2> QED
    BY <2>1 DEF Covers
<1>2. PICK a \in AuthoredShots : \E c \in Range(a.content) :
        c.kind = "video" /\ MediaFaults(c) = {} /\ t = c.treatment
  BY <1>1 DEF Plays
<1>3. PICK c \in Range(a.content) : c.kind = "video" /\ MediaFaults(c) = {} /\ t = c.treatment
  BY <1>2
<1>4. t.plays = 1
  BY DEF DrawsNatively, SchedulesNatively
<1>5. IsTreatment(t)
  BY <1>3, AuthoredAssumption DEF IsMedia
<1>6. t.start < t.end
  <2>1. ~IntervalOutsideAsset(t)
    BY <1>3 DEF MediaFaults
  <2> QED
    BY <1>5, <2>1 DEF IntervalOutsideAsset, IsTreatment
<1>7. Source(t) /\ RoundsAlike(t)
  BY <1>3, <1>4, <1>5, <1>6 DEF Source, SourcesRoundAlike
<1> HIDE DEF t, k
<1>8. NativeFrame(t, k) = BrowserFrame(t, k)
  BY <1>1, <1>7, FramesAgree
<1> QED
  BY <1>8 DEF t, k

(* The videos that FFmpeg draws of a frame are those that the film shows.  *)
LEMMA MediaIsSeen ==
    ASSUME NEW f, Timeline(f), NEW m \in DOMAIN Regions(f), NEW u,
           OfRegion(f, Regions(f)[m], u), u.execution.media # {},
           NEW g \in 0 .. f.end - 1, Covers(u.plan.output, g)
    PROVE  {w \in u.execution.media : Covers(w.at, g)} = Seen(f, g).videos
<1> DEFINE r == Regions(f)[m]
           q == Project(f, r.evaluation, r.output, {r.shots}, VariantFields(f, r))
<1>1. q.videos = u.plan.videos /\ u.execution.media = u.plan.videos
  BY DEF OfRegion, Shares
<1>2. Covers(r.output, g)
  <2>1. /\ ContainsInterval(r.output, u.plan.output) /\ Framed(r) /\ g \in Nat
        /\ {u.plan.output.start, u.plan.output.end} \subseteq Nat
    BY RegionsOfFilm, SolveAssumption, SMTT(30) DEF OfRegion, Timeline
  <2> QED
    BY <2>1 DEF ContainsInterval, Covers, Framed
<1>3. Visible(f, q, g) = Seen(f, g)
  BY <1>2, RegionIsSeen
<1> HIDE DEF q
<1>4. Seen(f, g).videos = {v \in q.videos : Covers(v.at, g)}
  BY <1>3 DEF Visible
<1> QED
  BY <1>1, <1>4

(* What is drawn of a frame is what the film shows.                        *)
LEMMA DrawnIsShown ==
    ASSUME SourcesRoundAlike, NEW f, Timeline(f), NEW m \in DOMAIN Regions(f), NEW u,
           OfRegion(f, Regions(f)[m], u), Draws(u), SelectFaults(u.execution) = {},
           NEW g \in 0 .. f.end - 1, Covers(u.plan.output, g)
    PROVE  LET p == PictureOf(f, u, g)
               native == {[video |-> n.video, frame |-> n.frame] : n \in p.native}
           IN /\ p.page = FilmShows(f, g).page
              /\ p.browser \cup native = FilmShows(f, g).videos
              /\ p.browser \cap native = {}
<1> DEFINE p == PictureOf(f, u, g)
           native == {[video |-> n.video, frame |-> n.frame] : n \in p.native}
           media == u.execution.media
<1>1. g \in Nat
  BY SolveAssumption DEF Timeline
<1>2. /\ FilmShows(f, g).page = [Seen(f, g) EXCEPT !.videos = {}]
      /\ FilmShows(f, g).videos = Played(f, g)
  BY FilmIsSeen DEF FilmShows, Shown, Played
<1>3. /\ p.page = [Seen(f, g) EXCEPT !.videos = {}]
      /\ p.browser = IF media = {} THEN Played(f, g) ELSE {}
      /\ p.native = Drawn(u, g)
  BY DEF PictureOf
<1>4. CASE media = {}
  <2>1. native = {}
    BY <1>3, <1>4 DEF Drawn
  <2> QED
    BY <1>2, <1>3, <1>4, <2>1
<1>5. CASE media # {}
  <2>1. media = u.plan.videos
    BY <1>5 DEF Draws
  <2>2. \A v \in media : DrawsNatively(v)
    <3>1. CASE u.execution.mode = "SeparableBackdrop"
      BY <3>1 DEF SelectFaults, Fails
    <3>2. CASE u.execution.mode # "SeparableBackdrop"
      BY <1>5, <2>1, <3>2 DEF Draws
    <3> QED
      BY <3>1, <3>2
  <2>3. {w \in media : Covers(w.at, g)} = Seen(f, g).videos
    BY <1>5, MediaIsSeen
  <2>4. ASSUME NEW v \in media, Covers(v.at, g)
        PROVE  /\ Drawing(u, v, g).video = v
               /\ Drawing(u, v, g).frame = BrowserFrame(v.treatment, g - v.at.start)
    <3>1. v \in Contents(f, "video")
      BY <2>1 DEF OfRegion, Shares, Project
    <3>2. NativeFrame(v.treatment, g - v.at.start) = BrowserFrame(v.treatment, g - v.at.start)
      BY <1>1, <2>2, <2>4, <3>1, NativeIsPlayed
    <3> QED
      BY <3>2 DEF Drawing
  <2>5. native = {[video |-> Drawing(u, v, g).video, frame |-> Drawing(u, v, g).frame] :
                    v \in {w \in media : Covers(w.at, g)}}
    BY <1>3 DEF Drawn
  <2>6. native = Played(f, g)
    BY <2>3, <2>4, <2>5 DEF Played
  <2> QED
    BY <1>2, <1>3, <1>5, <2>6
<1> QED
  BY <1>4, <1>5

(* Over a backdrop, where the browser would draw it, and nothing twice.    *)
LEMMA BackdropIsDrawn ==
    ASSUME NEW f, Timeline(f), NEW m \in DOMAIN Regions(f), NEW u,
           OfRegion(f, Regions(f)[m], u), SelectFaults(u.execution) = {},
           u.execution.mode = "SeparableBackdrop", LayoutFaults(u.execution.media) = {},
           NEW g \in Nat
    PROVE  /\ \A n \in Drawn(u, g) : StandsAsTheBrowserDraws(n)
           /\ \A n, d \in Drawn(u, g) : n # d => ~RegionsOverlap(n.destination, d.destination)
<1> DEFINE media == u.execution.media
<1>1. /\ \A v \in media : MeasureFaults(Box(v)) = {} /\ Placement(v).exact
      /\ \A v, w \in media : v # w => ~DrawnOver(v, w)
  <2>1. CollectFaults(media) = {}
    BY DEF LayoutFaults
  <2>2. \A v \in media : Placement(v).exact
    BY <2>1 DEF LayoutFaults
  <2>3. \A v, w \in media : v # w => ~DrawnOver(v, w)
    BY <2>1, <2>2 DEF LayoutFaults, Fails
  <2>4. \A v \in media : MeasureFaults(Box(v)) = {}
    BY <2>1 DEF CollectFaults
  <2> QED
    BY <2>2, <2>3, <2>4
<1>2. \A v \in media : v.asset \in DOMAIN Rasters
  <2>1. \A v \in media : DrawsNatively(v)
    BY DEF SelectFaults, Fails
  <2> QED
    BY <2>1, UnitAssumption DEF DrawsNatively
<1>3. ASSUME NEW v
      PROVE  /\ Drawing(u, v, g).video = v
             /\ Drawing(u, v, g).source = Placement(v).source
             /\ Drawing(u, v, g).destination = Placement(v).destination
  BY DEF Drawing, On
<1>4. ASSUME NEW n \in Drawn(u, g) PROVE StandsAsTheBrowserDraws(n)
  <2>1. PICK v \in media : n = Drawing(u, v, g)
    BY DEF Drawn
  <2>2. n.video = v /\ n.source = Placement(v).source /\ n.destination = Placement(v).destination
    BY <1>3, <2>1
  <2> QED
    BY <1>1, <1>2, <2>2, DrawnWhereItStands
<1>5. ASSUME NEW n \in Drawn(u, g), NEW d \in Drawn(u, g), n # d
      PROVE  ~RegionsOverlap(n.destination, d.destination)
  <2>1. PICK v \in media : Covers(v.at, g) /\ n = Drawing(u, v, g)
    BY DEF Drawn
  <2>2. PICK w \in media : Covers(w.at, g) /\ d = Drawing(u, w, g)
    BY DEF Drawn
  <2>3. /\ v # w /\ n.destination = Placement(v).destination
        /\ d.destination = Placement(w).destination
    BY <1>3, <1>5, <2>1, <2>2
  <2>4. Overlap(v.at, w.at)
    <3>1. media \subseteq Contents(f, "video")
      BY DEF OfRegion, Shares, Project
    <3>2. {v.at.start, v.at.end, w.at.start, w.at.end} \subseteq Nat
      BY <3>1, ContentsLie
    <3> QED
      BY <2>1, <2>2, <3>2 DEF Covers, Overlap
  <2> QED
    BY <1>1, <2>3, <2>4 DEF DrawnOver
<1> QED
  BY <1>4, <1>5

(* At every frame the film shows what the plan of the whole film would     *)
(* show.                                                                   *)
THEOREM PicturesShowTheFilmHolds ==
  ASSUME SourcesRoundAlike
  PROVE  Spec => []PicturesShowTheFilm
<1>1. ASSUME TInv, Plannable PROVE PicturesShowTheFilm
  <2> SUFFICES ASSUME Renders, NEW g \in 0 .. TheFilm.end - 1
               PROVE  LET picture == Picture(TheFilm, units, g)
                          native  == {[video |-> n.video, frame |-> n.frame] : n \in picture.native}
                          shown   == FilmShows(TheFilm, g)
                      IN /\ picture.page = shown.page
                         /\ picture.browser \cup native = shown.videos
                         /\ picture.browser \cap native = {}
                         /\ \A n \in DOMAIN units :
                              Covers(units[n].plan.output, g) => CapturedAlone(n, g) = {picture}
                         /\ VisualPath(units) = "Backdrop" =>
                              /\ \A n \in picture.native : StandsAsTheBrowserDraws(n)
                              /\ \A n, m \in picture.native :
                                   n # m => ~RegionsOverlap(n.destination, m.destination)
    BY DEF PicturesShowTheFilm
  <2> DEFINE f == TheFilm
             picture == Picture(f, units, g)
             native == {[video |-> n.video, frame |-> n.frame] : n \in picture.native}
             shown == FilmShows(f, g)
  <2>1. phase = "planned" /\ refused = {} /\ PreflightFaults(units) = {}
    BY DEF Renders
  <2>2. PICK i \in DOMAIN units :
          /\ \A n \in DOMAIN units : Covers(units[n].plan.output, g) <=> n = i
          /\ picture = PictureOf(f, units[i], g)
          /\ CapturedAlone(i, g) = {PictureOf(f, units[i], g)}
    BY <1>1, <2>1, PicturesOfUnits
  <2>3. /\ Timeline(f) /\ i \in DOMAIN Regions(f) /\ OfRegion(f, Regions(f)[i], units[i])
        /\ Draws(units[i]) /\ SelectFaults(units[i].execution) = {}
        /\ Covers(units[i].plan.output, g)
    BY <1>1, <2>1, <2>2, PlannedUnits
  <2>4. g \in 0 .. f.end - 1 /\ g \in Nat
    BY <2>3, SolveAssumption DEF Timeline
  <2> HIDE DEF f
  <2>5. /\ picture.page = shown.page /\ picture.browser \cup native = shown.videos
        /\ picture.browser \cap native = {}
    BY <2>2, <2>3, <2>4, DrawnIsShown
  <2>6. \A n \in DOMAIN units : Covers(units[n].plan.output, g) => CapturedAlone(n, g) = {picture}
    BY <2>2
  <2>7. ASSUME VisualPath(units) = "Backdrop"
        PROVE  /\ \A n \in picture.native : StandsAsTheBrowserDraws(n)
               /\ \A n, m \in picture.native : n # m => ~RegionsOverlap(n.destination, m.destination)
    <3>1. picture.native = Drawn(units[i], g)
      BY <2>2 DEF PictureOf
    <3>2. CASE units[i].execution.media = {}
      BY <3>1, <3>2 DEF Drawn
    <3>3. CASE units[i].execution.media # {}
      <4>1. units[i].execution.mode # "SeparableOverlay"
        BY <2>7, <3>3 DEF VisualPath, UsesNativeMedia
      <4>2. units[i].execution.mode = "SeparableBackdrop"
        BY <2>3, <3>3, <4>1 DEF Draws
      <4>3. LayoutFaults(units[i].execution.media) = {}
        BY <2>1, <4>2 DEF PreflightFaults
      <4> QED
        BY <2>3, <2>4, <3>1, <4>2, <4>3, BackdropIsDrawn
    <3> QED
      BY <3>2, <3>3
  <2> QED
    BY <2>5, <2>6, <2>7 DEF f
<1> QED
  BY <1>1, SolverHolds, PlannableHolds, PTL

(***************************************************************************)
(* Snapshots and reviews.                                                  *)

(* A unit narrowed to a frame that it publishes shows it as before.        *)
LEMMA NarrowedPicture ==
    ASSUME NEW f, Timeline(f), NEW m \in DOMAIN Regions(f), NEW u, OfRegion(f, Regions(f)[m], u),
           NEW g \in 0 .. f.end - 1, Covers(u.plan.output, g), IsUnit(u)
    PROVE  Picture(f, <<IntoFrame(u, g)>>, g) = PictureOf(f, u, g)
<1> DEFINE w == IntoFrame(u, g)
           out == Interval(g, g + 1)
           s == <<w>>
<1>1. g \in Nat
  BY SolveAssumption DEF Timeline
<1>2. w.plan = [u.plan EXCEPT !.output = out] /\ w.execution = u.execution
  BY DEF IntoFrame, IntoOutput, IsUnit
<1>3. w.plan.output = out /\ Shares(w.plan, u.plan)
  BY <1>2 DEF Shares, IsUnit
<1>4. out.start = g /\ out.end = g + 1
  BY DEF Interval
<1> HIDE DEF w, out
<1>5. /\ \A h \in Nat : Covers(out, h) => Covers(u.plan.output, h)
      /\ ContainsInterval(Regions(f)[m].output, out) /\ Covers(out, g)
  <2>1. ContainsInterval(Regions(f)[m].output, u.plan.output) /\ Framed(Regions(f)[m])
        /\ {u.plan.output.start, u.plan.output.end} \subseteq Nat
    BY RegionsOfFilm DEF OfRegion
  <2> QED
    BY <1>1, <1>4, <2>1 DEF Covers, ContainsInterval, Framed
<1>6. OfRegion(f, Regions(f)[m], w)
  <2>1. u.plan.videos = w.plan.videos
    BY <1>3 DEF Shares
  <2>2. Shares(w.plan, Project(f, Regions(f)[m].evaluation, Regions(f)[m].output,
                               {Regions(f)[m].shots}, VariantFields(f, Regions(f)[m])))
    BY <1>3 DEF OfRegion, Shares
  <2>3. /\ w.execution.media = {} \/ w.execution.media = w.plan.videos
        /\ w.execution.media = {} /\ w.execution.cadence # "EveryFrame" =>
             \A v \in w.plan.videos : \A h \in Nat : Covers(w.plan.output, h) => ~Covers(v.at, h)
    BY <1>2, <1>3, <1>5, <2>1 DEF OfRegion
  <2>4. {out.start, out.end} \subseteq Nat /\ out.start <= out.end
    BY <1>1, <1>4
  <2> QED
    BY <1>3, <1>5, <2>2, <2>3, <2>4 DEF OfRegion
<1>7. DOMAIN s = {1} /\ s[1] = w
  OBVIOUS
<1> HIDE DEF s
<1>8. Picture(f, s, g) = PictureOf(f, s[1], g)
  <2>1. 1 \in DOMAIN s /\ \A n \in DOMAIN s : s[n] = w /\ n = 1
    BY <1>7
  <2>2. \A n \in DOMAIN s : \E k \in DOMAIN Regions(f) : OfRegion(f, Regions(f)[k], s[n])
    BY <1>6, <2>1
  <2>3. \A n \in DOMAIN s : Covers(s[n].plan.output, g) <=> n = 1
    BY <1>3, <1>5, <2>1
  <2>4. Timeline(f) /\ g \in 0 .. f.end - 1
    OBVIOUS
  <2> QED
    BY ONLY <2>1, <2>2, <2>3, <2>4, PictureIsDrawn
<1>9. PictureOf(f, w, g) = PictureOf(f, u, g)
  BY <1>2 DEF PictureOf, Drawn, Drawing, On
<1> QED
  BY <1>7, <1>8, <1>9 DEF s, w

(* A snapshot shows the frame as a render of the film shows it.            *)
Snapped ==
    \A s \in snapshot : /\ phase = "planned"
                        /\ \A p \in s.picture : p = Picture(TheFilm, units, s.frame)

(* Taking a snapshot: the narrowed unit shows the frame as before.        *)
LEMMA SnappedSnapshot ==
    ASSUME TInv, Plannable, NEW g \in 0 .. MaxFrame, Snapshot(g)
    PROVE  Snapped'
<1> DEFINE f == TheFilm
           n == CHOOSE n \in DOMAIN units : Covers(units[n].plan.output, g)
           narrowed == <<IntoFrame(units[n], g)>>
<1>1. /\ phase = "planned" /\ g < f.end /\ phase' = phase /\ units' = units
      /\ TheFilm' = f
      /\ \A s \in snapshot' : s.frame = g /\ \A p \in s.picture : p = Picture(f, narrowed, g)
  BY DEF Snapshot, solveVars, TheFilm
<1>2. Timeline(f) /\ g \in 0 .. f.end - 1
  BY <1>1, SolvedFilm, SolveAssumption DEF Timeline
<1>3. PICK i \in DOMAIN units :
        /\ \A m \in DOMAIN units : Covers(units[m].plan.output, g) <=> m = i
        /\ Picture(f, units, g) = PictureOf(f, units[i], g)
  BY <1>1, <1>2, PicturesOfUnits
<1>4. n = i
  BY <1>3
<1>5. Picture(f, narrowed, g) = PictureOf(f, units[i], g)
  <2>1. OfRegion(f, Regions(f)[i], units[i]) /\ i \in DOMAIN Regions(f) /\ IsUnit(units[i])
    BY <1>1, PlannedUnits
  <2>2. Covers(units[i].plan.output, g)
    BY <1>3
  <2> HIDE DEF f, n
  <2> QED
    BY <1>2, <1>4, <2>1, <2>2, NarrowedPicture
<1> HIDE DEF n, narrowed
<1>6. Picture(TheFilm', units', g) = Picture(f, units, g)
  BY <1>1
<1> QED
  BY <1>1, <1>3, <1>5, <1>6 DEF Snapped

(* Only a planned film has a snapshot.                                     *)
LEMMA SnappedWaits ==
    ASSUME Snapped, phase # "planned", snapshot' = snapshot
    PROVE  Snapped'
<1>1. snapshot = {}
  BY DEF Snapped
<1> QED
  BY <1>1 DEF Snapped

(* At every moment a snapshot shows the frame as the units would show it. *)
LEMMA SnappedHolds == Spec => []Snapped
<1>1. Init => Snapped
  BY DEF Init, Snapped
<1>2. ASSUME TInv, Plannable, Snapped, [Next]_vars PROVE Snapped'
  <2>1. CASE SolveNext /\ UNCHANGED planVars
    <3>1. phase # "planned"
      BY <2>1 DEF SolveNext, SolveEvents, SolveScene, SolveFails, SkipShot, RejectShot, PlaceShot, Finish, Authored
    <3> QED
      BY <1>2, <2>1, <3>1, SnappedWaits DEF planVars
  <2>2. CASE \E cues \in CaptionTracks : ImportCaptions(cues)
    BY <1>2, <2>2, SnappedWaits DEF ImportCaptions, planVars
  <2>3. CASE \E c \in Capabilities, b \in Behaviors : Plan(c, b)
    BY <1>2, <2>3, SnappedWaits DEF Plan
  <2>4. CASE \E g \in 0 .. MaxFrame : Snapshot(g)
    BY <1>2, <2>4, SnappedSnapshot
  <2>5. CASE UNCHANGED vars
    <3>1. snapshot' = snapshot /\ phase' = phase /\ units' = units /\ TheFilm' = TheFilm
      BY <2>5 DEF vars, solveVars, TheFilm
    <3>2. \A g : Picture(TheFilm', units', g) = Picture(TheFilm, units, g)
      BY <3>1
    <3> QED
      BY <1>2, <3>1, <3>2 DEF Snapped
  <2> QED
    BY <1>2, <2>1, <2>2, <2>3, <2>4, <2>5 DEF Next
<1> QED
  BY <1>1, <1>2, SolverHolds, PlannableHolds, PTL DEF Spec

(* The points of an interval are frames of it.                             *)
LEMMA PointsLie ==
    ASSUME NEW at, at.start \in Nat, at.end \in Nat, at.start <= at.end, NEW g \in Points(at)
    PROVE  g \in Nat /\ at.start <= g /\ g < at.end
<1>1. at.start < at.end
  BY DEF Points, IsEmpty
<1>2. CASE g \in Edges(at)
  BY <1>1, <1>2 DEF Edges
<1>3. CASE g = at.start + (at.end - 1 - at.start) \div 2
  <2> DEFINE d == at.end - 1 - at.start
             h == d \div 2
  <2>1. d \in Nat
    BY <1>1
  <2> HIDE DEF d
  <2>2. h \in Nat /\ h <= d
    BY <2>1
  <2>3. g = at.start + h
    BY <1>3 DEF d
  <2> HIDE DEF h
  <2> QED
    BY <1>1, <2>2, <2>3 DEF d
<1> QED
  BY <1>2, <1>3 DEF Points

(* The edges of an interval are among its points.                         *)
LEMMA EdgesArePoints == \A at : Edges(at) \subseteq Points(at)
BY DEF Points, Edges

(* The frames that a review singles out are frames of the film.            *)
LEMMA AnchorsLie ==
    ASSUME NEW f, Timeline(f), NEW g \in AnchoredFrames(f, Regions(f))
    PROVE  g \in 0 .. f.end - 1
<1> DEFINE regions == Regions(f)
<1>1. f.end \in Nat
  BY SolveAssumption DEF Timeline
<1>2. ASSUME NEW at, at.start \in Nat, at.end \in Nat, at.start <= at.end, at.end <= f.end, g \in Points(at)
      PROVE  g \in 0 .. f.end - 1
  <2>1. g \in Nat /\ g < at.end
    BY <1>2, PointsLie
  <2> QED
    BY <1>1, <1>2, <2>1
<1>3. CASE \E r \in Range(regions) : g \in Points(r.output)
  <2>1. PICK m \in DOMAIN regions : g \in Points(regions[m].output)
    BY <1>3 DEF Range
  <2>2. Framed(regions[m]) /\ regions[m].output.end <= f.end
    BY RegionsOfFilm, RegionEnds
  <2> QED
    BY <1>2, <2>1, <2>2 DEF Framed
<1>4. CASE \E i \in ShotIndexes(f) : g \in Points(f.shots[i].at) \cup Points(f.shots[i].cut)
  <2>1. PICK i \in ShotIndexes(f) : g \in Points(f.shots[i].at) \cup Points(f.shots[i].cut)
    BY <1>4
  <2>2. i \in DOMAIN f.shots
    BY DEF ShotIndexes
  <2>3. /\ f.shots[i].at.start \in Nat /\ f.shots[i].at.end \in Nat /\ f.shots[i].cut.end \in Nat
        /\ f.shots[i].at.start <= f.shots[i].cut.end /\ f.shots[i].cut.end <= f.shots[i].at.end
        /\ f.shots[i].cut.start = f.shots[i].at.start
    BY <2>2, Around DEF Timeline
  <2>4. f.shots[i].at.end <= f.end
    BY <2>2, ShotEnds
  <2>5. CASE g \in Points(f.shots[i].at)
    <3>1. f.shots[i].at.start <= f.shots[i].at.end
      BY <2>3
    <3> QED
      BY <1>2, <2>3, <2>4, <2>5, <3>1
  <2>6. CASE g \in Points(f.shots[i].cut)
    <3>1. f.shots[i].cut.start \in Nat /\ f.shots[i].cut.end <= f.end
      BY <1>1, <2>3, <2>4
    <3> QED
      BY <1>2, <2>3, <2>6, <3>1
  <2> QED
    BY <2>1, <2>5, <2>6
<1>5. CASE \E c \in Contents(f, "video") \cup Contents(f, "overlay") \cup f.captions : g \in Edges(c.at)
  <2>1. PICK c \in Contents(f, "video") \cup Contents(f, "overlay") \cup f.captions : g \in Points(c.at)
    BY <1>5, EdgesArePoints
  <2>2. CASE c \in f.captions
    <3>1. c.at.start \in Nat /\ c.at.end \in Nat /\ c.at.start <= c.at.end /\ c.at.end <= f.end
      BY <2>2 DEF Timeline
    <3> QED
      BY <1>2, <2>1, <3>1
  <2>3. ASSUME NEW kind, c \in Contents(f, kind)
        PROVE  c.at.start \in Nat /\ c.at.end \in Nat /\ c.at.start <= c.at.end /\ c.at.end <= f.end
    <3>1. /\ c.shot \in DOMAIN f.shots /\ c.at.start \in Nat /\ c.at.end \in Nat
          /\ c.at.end <= f.shots[c.shot].at.end /\ c.at.start <= c.at.end
      BY <2>3, ContentsLie
    <3>2. f.shots[c.shot].at.end <= f.end /\ f.shots[c.shot].at.end \in Nat
      BY <3>1, ShotEnds, Around DEF Timeline
    <3> QED
      BY <1>1, <3>1, <3>2
  <2>4. CASE c \in Contents(f, "video") \cup Contents(f, "overlay")
    BY <1>2, <2>1, <2>3, <2>4
  <2> QED
    BY <2>2, <2>4
<1>6. \/ g \in UNION {Points(r.output) : r \in Range(regions)}
      \/ g \in UNION {Points(f.shots[i].at) \cup Points(f.shots[i].cut) : i \in ShotIndexes(f)}
      \/ g \in UNION {Edges(c.at) : c \in Contents(f, "video") \cup Contents(f, "overlay") \cup f.captions}
  <2>1. \A A, B, C : g \in A \cup B \cup C => g \in A \/ g \in B \/ g \in C
    OBVIOUS
  <2> QED
    BY ONLY <2>1, g \in AnchoredFrames(f, Regions(f)), Zenon DEF AnchoredFrames
<1> HIDE DEF regions
<1> QED
  BY <1>3, <1>4, <1>5, <1>6

(* A checkpoint is read from the artifact of the region that publishes it. *)
LEMMA CheckpointIsTheFrame ==
    ASSUME TInv, Plannable, phase = "planned", NEW g \in 0 .. TheFilm.end - 1
    PROVE  /\ Owners(Regions(TheFilm), g) # {}
           /\ Checkpoint(Regions(TheFilm), g).frame = g
           /\ Evidence(Checkpoint(Regions(TheFilm), g)) = {Picture(TheFilm, units, g)}
<1> DEFINE f == TheFilm
           regions == Regions(f)
           c == Checkpoint(regions, g)
<1>1. PICK i \in DOMAIN units :
        /\ \A n \in DOMAIN units : Covers(units[n].plan.output, g) <=> n = i
        /\ Picture(f, units, g) = PictureOf(f, units[i], g)
        /\ CapturedAlone(i, g) = {PictureOf(f, units[i], g)}
  BY PicturesOfUnits
<1>2. /\ Timeline(f) /\ DOMAIN units = DOMAIN regions
      /\ \A n \in DOMAIN units : units[n].plan.output = regions[n].output
  BY PlannedUnits
<1>3. regions[i].output.start \in Nat /\ g \in Nat /\ i \in Nat
  BY <1>2, RegionsOfFilm, SolveAssumption, SMTT(30) DEF Framed, Timeline
<1>4. Owners(regions, g) = {i}
  BY <1>1, <1>2 DEF Owners
<1>5. Min(Owners(regions, g)) = i
  <2>1. i <= i
    BY <1>3
  <2> QED
    BY <1>4, <2>1 DEF Min
<1>6. c.frame = g /\ c.region = i /\ c.position = g - regions[i].output.start
  BY <1>5 DEF Checkpoint
<1> HIDE DEF f, regions, c
<1>7. units[i].plan.output.start + c.position = g
  BY <1>2, <1>3, <1>6
<1> QED
  BY <1>1, <1>4, <1>6, <1>7 DEF Evidence, f, regions, c

(* A picture shows what the film shows at its frame.                       *)
LEMMA PictureShows ==
    ASSUME TInv, Plannable, phase = "planned", NEW g \in 0 .. TheFilm.end - 1
    PROVE  LET p == Picture(TheFilm, units, g)
           IN /\ \A i \in ShotIndexes(TheFilm) :
                   /\ Covers(TheFilm.shots[i].at, g) => ShowsElement(p, "shot", i)
                   /\ Covers(TheFilm.shots[i].cut, g) => ShowsElement(p, "transition", i)
              /\ \A kind \in {"video", "overlay"} : \A e \in Contents(TheFilm, kind) :
                   Covers(e.at, g) => ShowsElement(p, kind, e)
              /\ \A e \in TheFilm.captions : Covers(e.at, g) => ShowsElement(p, "caption", e)
<1> DEFINE f == TheFilm
           p == Picture(f, units, g)
<1>1. PICK i \in DOMAIN units :
        /\ \A n \in DOMAIN units : Covers(units[n].plan.output, g) <=> n = i
        /\ p = PictureOf(f, units[i], g)
  BY PicturesOfUnits
<1> DEFINE u == units[i]
<1>2. /\ Timeline(f) /\ i \in DOMAIN Regions(f) /\ OfRegion(f, Regions(f)[i], u)
      /\ Covers(u.plan.output, g) /\ g \in 0 .. f.end - 1
  BY <1>1, PlannedUnits
<1> HIDE DEF f, p, u
<1>3. p.page = [Seen(f, g) EXCEPT !.videos = {}]
  BY <1>1 DEF PictureOf, u
<1>4. /\ p.page.shots = Seen(f, g).shots /\ p.page.transitions = Seen(f, g).transitions
      /\ p.page.overlays = Seen(f, g).overlays /\ p.page.captions = Seen(f, g).captions
  BY <1>3 DEF Seen
<1>5. ASSUME NEW v \in Seen(f, g).videos PROVE \E d \in p.browser \cup p.native : d.video = v
  <2>1. p.browser = (IF u.execution.media = {} THEN Played(f, g) ELSE {}) /\ p.native = Drawn(u, g)
    BY <1>1 DEF PictureOf, u
  <2>2. CASE u.execution.media = {}
    <3> DEFINE d == [video |-> v, frame |-> BrowserFrame(v.treatment, g - v.at.start)]
    <3>1. d \in Played(f, g) /\ d.video = v
      BY DEF Played
    <3> QED
      BY <2>1, <2>2, <3>1
  <2>3. CASE u.execution.media # {}
    <3>1. v \in {w \in u.execution.media : Covers(w.at, g)}
      BY <1>2, <2>3, MediaIsSeen
    <3>2. Drawing(u, v, g) \in Drawn(u, g)
      BY <3>1 DEF Drawn
    <3>3. Drawing(u, v, g).video = v
      BY DEF Drawing
    <3> QED
      BY <2>1, <3>2, <3>3
  <2> QED
    BY <2>2, <2>3
<1>6. ASSUME NEW n \in ShotIndexes(f)
      PROVE  /\ Covers(f.shots[n].at, g) => ShowsElement(p, "shot", n)
             /\ Covers(f.shots[n].cut, g) => ShowsElement(p, "transition", n)
  <2>1. Covers(f.shots[n].at, g) => n \in p.page.shots
    BY <1>4 DEF Seen
  <2>2. Covers(f.shots[n].cut, g) => n \in p.page.transitions
    BY <1>4 DEF Seen
  <2> QED
    BY <2>1, <2>2 DEF ShowsElement
<1>7. ASSUME NEW e \in Contents(f, "video"), Covers(e.at, g) PROVE ShowsElement(p, "video", e)
  <2>1. e \in Seen(f, g).videos
    BY <1>7 DEF Seen
  <2> QED
    BY <1>5, <2>1 DEF ShowsElement
<1>8. ASSUME NEW e \in Contents(f, "overlay"), Covers(e.at, g) PROVE ShowsElement(p, "overlay", e)
  <2>1. e \in p.page.overlays
    BY <1>4, <1>8 DEF Seen
  <2> QED
    BY <2>1 DEF ShowsElement
<1>9. ASSUME NEW e \in f.captions, Covers(e.at, g) PROVE ShowsElement(p, "caption", e)
  <2>1. e \in p.page.captions
    BY <1>4, <1>9 DEF Seen
  <2> QED
    BY <2>1 DEF ShowsElement
<1> QED
  BY <1>6, <1>7, <1>8, <1>9 DEF f, p

(* What is anchored at its edges, and shown wherever it is, is reviewed.   *)
LEMMA ReviewSees ==
    ASSUME TInv, Plannable, phase = "planned", NEW kind, NEW e, NEW at,
           at.start \in Nat, at.end \in Nat, at.start <= at.end,
           Edges(at) \subseteq AnchoredFrames(TheFilm, Regions(TheFilm)),
           \A g \in 0 .. TheFilm.end - 1 :
             Covers(at, g) => ShowsElement(Picture(TheFilm, units, g), kind, e)
    PROVE  \A g \in Edges(at) : \E c \in Checkpoints(TheFilm, Regions(TheFilm)) :
             c.frame = g /\ \A p \in Evidence(c) : ShowsElement(p, kind, e)
<1> DEFINE f == TheFilm
           regions == Regions(f)
<1>1. Timeline(f)
  BY SolvedFilm
<1> SUFFICES ASSUME NEW g \in Edges(at)
             PROVE  \E c \in Checkpoints(f, regions) :
                      c.frame = g /\ \A p \in Evidence(c) : ShowsElement(p, kind, e)
  OBVIOUS
<1> DEFINE c == Checkpoint(regions, g)
<1>2. g \in AnchoredFrames(f, regions)
  OBVIOUS
<1>3. g \in 0 .. f.end - 1
  BY <1>1, <1>2, AnchorsLie
<1>4. Covers(at, g)
  <2>1. g \in Points(at)
    BY EdgesArePoints
  <2> QED
    BY <2>1, PointsLie DEF Covers
<1>5. c.frame = g /\ Evidence(c) = {Picture(f, units, g)}
  BY <1>3, CheckpointIsTheFrame
<1>6. ShowsElement(Picture(f, units, g), kind, e)
  BY <1>3, <1>4
<1>7. c \in Checkpoints(f, regions)
  BY <1>2 DEF Checkpoints
<1> HIDE DEF c
<1> QED
  BY <1>5, <1>6, <1>7

(* A review sees all that the timeline shows.                              *)
LEMMA ReviewShows ==
    ASSUME TInv, Plannable, phase = "planned"
    PROVE  LET regions == Regions(TheFilm)
               checkpoints == Checkpoints(TheFilm, regions)
               seen(kind, element, at) == \A g \in Edges(at) : \E c \in checkpoints :
                 c.frame = g /\ \A p \in Evidence(c) : ShowsElement(p, kind, element)
           IN /\ ReviewFaults(TheFilm, regions) \subseteq {"TooManyCheckpoints"}
              /\ \A c \in checkpoints : Evidence(c) = {Picture(TheFilm, units, c.frame)}
              /\ \A i \in ShotIndexes(TheFilm) : /\ seen("shot", i, TheFilm.shots[i].at)
                                                 /\ seen("transition", i, TheFilm.shots[i].cut)
              /\ \A kind \in {"video", "overlay"} : \A e \in Contents(TheFilm, kind) :
                   seen(kind, e, e.at)
              /\ \A e \in TheFilm.captions : seen("caption", e, e.at)
<1> DEFINE f == TheFilm
           regions == Regions(f)
           anchored == AnchoredFrames(f, regions)
           checkpoints == Checkpoints(f, regions)
           seen(kind, element, at) == \A g \in Edges(at) : \E c \in checkpoints :
             c.frame = g /\ \A p \in Evidence(c) : ShowsElement(p, kind, element)
<1>1. Timeline(f)
  BY SolvedFilm
<1>2. \A g \in anchored : /\ Owners(regions, g) # {}
                          /\ Checkpoint(regions, g).frame = g
                          /\ Evidence(Checkpoint(regions, g)) = {Picture(f, units, g)}
  <2>1. \A g \in anchored : g \in 0 .. TheFilm.end - 1
    BY <1>1, AnchorsLie
  <2> QED
    BY <2>1, CheckpointIsTheFrame
<1>3. ReviewFaults(f, regions) \subseteq {"TooManyCheckpoints"}
  BY <1>2 DEF ReviewFaults, Fails
<1>4. \A c \in checkpoints : Evidence(c) = {Picture(f, units, c.frame)}
  BY <1>2 DEF Checkpoints
<1>5. /\ \A i \in ShotIndexes(f) : Edges(f.shots[i].at) \cup Edges(f.shots[i].cut) \subseteq anchored
      /\ \A c \in Contents(f, "video") \cup Contents(f, "overlay") \cup f.captions :
           Edges(c.at) \subseteq anchored
  BY EdgesArePoints DEF AnchoredFrames
<1> HIDE DEF anchored
<1>6. ASSUME NEW i \in ShotIndexes(f)
      PROVE  seen("shot", i, f.shots[i].at) /\ seen("transition", i, f.shots[i].cut)
  <2>1. i \in DOMAIN f.shots
    BY DEF ShotIndexes
  <2>2. /\ f.shots[i].at.start \in Nat /\ f.shots[i].at.end \in Nat /\ f.shots[i].cut.end \in Nat
        /\ f.shots[i].at.start <= f.shots[i].cut.end /\ f.shots[i].cut.end <= f.shots[i].at.end
        /\ f.shots[i].cut.start = f.shots[i].at.start
    BY <1>1, <2>1, Around DEF Timeline
  <2>3. f.shots[i].at.start <= f.shots[i].at.end
    BY <2>2
  <2>4. \A g \in 0 .. TheFilm.end - 1 :
          /\ Covers(f.shots[i].at, g) => ShowsElement(Picture(TheFilm, units, g), "shot", i)
          /\ Covers(f.shots[i].cut, g) => ShowsElement(Picture(TheFilm, units, g), "transition", i)
    BY PictureShows
  <2>5. Edges(f.shots[i].at) \subseteq anchored /\ Edges(f.shots[i].cut) \subseteq anchored
    BY <1>5
  <2>6. seen("shot", i, f.shots[i].at)
    BY <2>2, <2>3, <2>4, <2>5, ReviewSees DEF anchored
  <2>7. seen("transition", i, f.shots[i].cut)
    BY <2>2, <2>4, <2>5, ReviewSees DEF anchored
  <2> QED
    BY <2>6, <2>7
<1>7. ASSUME NEW kind \in {"video", "overlay"}, NEW e \in Contents(f, kind) PROVE seen(kind, e, e.at)
  <2>1. e.at.start \in Nat /\ e.at.end \in Nat /\ e.at.start <= e.at.end
    BY <1>1, ContentsLie
  <2>2. Edges(e.at) \subseteq anchored
    BY <1>5
  <2>3. \A g \in 0 .. TheFilm.end - 1 :
          Covers(e.at, g) => ShowsElement(Picture(TheFilm, units, g), kind, e)
    BY PictureShows
  <2> QED
    BY <2>1, <2>2, <2>3, ReviewSees DEF anchored
<1>8. ASSUME NEW e \in f.captions PROVE seen("caption", e, e.at)
  <2>1. e.at.start \in Nat /\ e.at.end \in Nat /\ e.at.start <= e.at.end
    BY <1>1 DEF Timeline
  <2>2. Edges(e.at) \subseteq anchored
    BY <1>5
  <2>3. \A g \in 0 .. TheFilm.end - 1 :
          Covers(e.at, g) => ShowsElement(Picture(TheFilm, units, g), "caption", e)
    BY PictureShows
  <2> QED
    BY <2>1, <2>2, <2>3, ReviewSees DEF anchored
<1> HIDE DEF seen
<1>9. /\ \A i \in ShotIndexes(f) : seen("shot", i, f.shots[i].at) /\ seen("transition", i, f.shots[i].cut)
      /\ \A kind \in {"video", "overlay"} : \A e \in Contents(f, kind) : seen(kind, e, e.at)
      /\ \A e \in f.captions : seen("caption", e, e.at)
  BY <1>6, <1>7, <1>8
<1> QED
  BY <1>3, <1>4, <1>9 DEF seen

(* A snapshot and each checkpoint of a review show the frame as a render   *)
(* of the film shows it, and the review has seen every element when it     *)
(* comes and when it goes (snapshot::run, finish_checkpoint,               *)
(* read_checkpoints).                                                      *)
THEOREM FeedbackIsTheRenderedFrameHolds == Spec => []FeedbackIsTheRenderedFrame
<1>1. ASSUME TInv, Plannable, Snapped PROVE FeedbackIsTheRenderedFrame
  <2>1. \A s \in snapshot : \A p \in s.picture : p = Picture(TheFilm, units, s.frame)
    BY <1>1 DEF Snapped
  <2>2. Renders => phase = "planned"
    BY DEF Renders
  <2> QED
    BY <1>1, <2>1, <2>2, ReviewShows DEF FeedbackIsTheRenderedFrame
<1> QED
  BY <1>1, SolverHolds, PlannableHolds, SnappedHolds, PTL

(***************************************************************************)
(* The audio.                                                              *)

(* Where the elements of the first n parts of ss stand in t: the k-th one  *)
(* is element b[k] of part a[k].                                           *)
Places(ss, n, t, a, b) ==
    /\ a \in [1 .. Len(t) -> 1 .. n] /\ b \in [1 .. Len(t) -> Nat]
    /\ \A k \in 1 .. Len(t) : b[k] \in 1 .. Len(ss[a[k]]) /\ t[k] = ss[a[k]][b[k]]
    /\ \A k, l \in 1 .. Len(t) : k < l => a[k] < a[l] \/ (a[k] = a[l] /\ b[k] < b[l])
    /\ \A i \in 1 .. n : \A j \in 1 .. Len(ss[i]) : \E k \in 1 .. Len(t) : a[k] = i /\ b[k] = j

(* One more part, whose elements stand behind all others.                  *)
LEMMA PlacesAppend ==
    ASSUME NEW S, NEW ss \in Seq(Seq(S)), NEW n \in 0 .. Len(ss) - 1, NEW t \in Seq(S),
           NEW a, NEW b, Places(ss, n, t, a, b)
    PROVE  \E c, d : Places(ss, n + 1, t \o ss[n + 1], c, d)
<1> DEFINE u == ss[n + 1]
           v == t \o u
           c == [k \in 1 .. Len(v) |-> IF k <= Len(t) THEN a[k] ELSE n + 1]
           d == [k \in 1 .. Len(v) |-> IF k <= Len(t) THEN b[k] ELSE k - Len(t)]
<1>1. u \in Seq(S) /\ Len(u) \in Nat /\ Len(t) \in Nat
  OBVIOUS
<1>2. v \in Seq(S) /\ Len(v) = Len(t) + Len(u)
  BY <1>1
<1>3. \A k \in 1 .. Len(t) : v[k] = t[k]
  BY <1>1
<1>4. \A k \in 1 .. Len(u) : v[Len(t) + k] = u[k]
  BY <1>1
<1> HIDE DEF u, v
<1>5. /\ a \in [1 .. Len(t) -> 1 .. n] /\ b \in [1 .. Len(t) -> Nat]
      /\ \A k \in 1 .. Len(t) : b[k] \in 1 .. Len(ss[a[k]]) /\ t[k] = ss[a[k]][b[k]]
      /\ \A k, l \in 1 .. Len(t) : k < l => a[k] < a[l] \/ (a[k] = a[l] /\ b[k] < b[l])
      /\ \A i \in 1 .. n : \A j \in 1 .. Len(ss[i]) : \E k \in 1 .. Len(t) : a[k] = i /\ b[k] = j
  BY DEF Places
<1>6. \A k \in 1 .. Len(t) : k \in 1 .. Len(v) /\ c[k] = a[k] /\ d[k] = b[k]
  BY <1>1, <1>2
<1>7. \A k \in 1 .. Len(v) : k \notin 1 .. Len(t) =>
        c[k] = n + 1 /\ d[k] = k - Len(t) /\ k - Len(t) \in 1 .. Len(u)
  BY <1>1, <1>2
<1>8. c \in [1 .. Len(v) -> 1 .. n + 1] /\ d \in [1 .. Len(v) -> Nat]
  <2>1. ASSUME NEW k \in 1 .. Len(v) PROVE c[k] \in 1 .. n + 1 /\ d[k] \in Nat
    <3> HIDE DEF c, d
    <3>1. CASE k \in 1 .. Len(t)
      <4>1. a[k] \in 1 .. n /\ b[k] \in Nat /\ c[k] = a[k] /\ d[k] = b[k]
        BY <1>5, <1>6, <3>1
      <4> QED
        BY <4>1
    <3>2. CASE k \notin 1 .. Len(t)
      BY <1>7, <3>2
    <3> QED
      BY <3>1, <3>2
  <2>2. c = [k \in 1 .. Len(v) |-> c[k]] /\ d = [k \in 1 .. Len(v) |-> d[k]]
    OBVIOUS
  <2> HIDE DEF c, d
  <2> QED
    BY <2>1, <2>2
<1> HIDE DEF c, d
<1>9. ASSUME NEW k \in 1 .. Len(v) PROVE d[k] \in 1 .. Len(ss[c[k]]) /\ v[k] = ss[c[k]][d[k]]
  <2>1. CASE k \in 1 .. Len(t)
    BY <2>1, <1>3, <1>5, <1>6
  <2>2. CASE k \notin 1 .. Len(t)
    <3>1. c[k] = n + 1 /\ d[k] = k - Len(t) /\ d[k] \in 1 .. Len(u) /\ k = Len(t) + d[k]
      BY <2>2, <1>1, <1>7
    <3>2. v[k] = u[d[k]]
      BY <3>1, <1>4
    <3> QED
      BY <3>1, <3>2 DEF u
  <2> QED
    BY <2>1, <2>2
<1>10. ASSUME NEW k \in 1 .. Len(v), NEW l \in 1 .. Len(v), k < l
       PROVE  c[k] < c[l] \/ (c[k] = c[l] /\ d[k] < d[l])
  <2>1. CASE l \in 1 .. Len(t)
    <3>1. k \in 1 .. Len(t)
      BY <2>1, <1>10
    <3> QED
      BY <2>1, <3>1, <1>5, <1>6, <1>10
  <2>2. CASE k \in 1 .. Len(t) /\ l \notin 1 .. Len(t)
    <3>1. c[k] \in 1 .. n /\ c[l] = n + 1
      BY <2>2, <1>5, <1>6, <1>7
    <3> QED
      BY <3>1
  <2>3. CASE k \notin 1 .. Len(t) /\ l \notin 1 .. Len(t)
    BY <2>3, <1>1, <1>7, <1>10
  <2> QED
    BY <2>1, <2>2, <2>3
<1>11. ASSUME NEW i \in 1 .. n + 1, NEW j \in 1 .. Len(ss[i])
       PROVE  \E k \in 1 .. Len(v) : c[k] = i /\ d[k] = j
  <2>1. CASE i \in 1 .. n
    <3>1. PICK k \in 1 .. Len(t) : a[k] = i /\ b[k] = j
      BY <2>1, <1>5
    <3> QED
      BY <3>1, <1>6
  <2>2. CASE i = n + 1
    <3>1. Len(t) + j \in 1 .. Len(v) /\ Len(t) + j \notin 1 .. Len(t) /\ (Len(t) + j) - Len(t) = j
      BY <2>2, <1>1, <1>2 DEF u
    <3> QED
      BY <2>2, <3>1, <1>7
  <2> QED
    BY <2>1, <2>2
<1>12. Places(ss, n + 1, v, c, d)
  BY <1>8, <1>9, <1>10, <1>11 DEF Places
<1> QED
  BY <1>12 DEF v, u

(* A flattened sequence holds each element of each part, in their order.   *)
LEMMA FlattenPlaces ==
    ASSUME NEW S, NEW ss \in Seq(Seq(S))
    PROVE  \E a, b : Places(ss, Len(ss), FlattenSeq(ss), a, b)
<1>0. ASSUME NEW a, NEW b, a = <<>>, b = <<>> PROVE Places(ss, 0, <<>>, a, b)
  BY <1>0 DEF Places
<1>1. CASE Len(ss) = 0
  <2>1. FlattenSeq(ss) = <<>>
    <3>1. ss = <<>>
      BY <1>1
    <3>2. FlattenSeq(ss) = ss
      BY <1>1 DEF FlattenSeq
    <3> QED
      BY ONLY <3>1, <3>2
  <2> QED
    BY <1>0, <1>1, <2>1
<1>2. CASE Len(ss) # 0
  <2>0. Len(ss) \in Nat \ {0}
    BY <1>2
  <2>1. PICK f : /\ f[1] = ss[1]
                 /\ \A i \in 2 .. Len(ss) : f[i] = f[i - 1] \o ss[i]
                 /\ FlattenSeq(ss) = f[Len(ss)]
    BY <2>0, Flattens
  <2> DEFINE P == {i \in Nat : f[i] \in Seq(S) /\ \E a, b : Places(ss, i, f[i], a, b)}
  <2>2. 1 \in P
    <3>1. ss[1] \in Seq(S) /\ <<>> \o ss[1] = ss[1] /\ <<>> \in Seq(S) /\ 0 \in 0 .. Len(ss) - 1
      BY <2>0
    <3>2. \E c, d : Places(ss, 0 + 1, <<>> \o ss[0 + 1], c, d)
      BY <1>0, <3>1, PlacesAppend
    <3>3. 0 + 1 = 1
      OBVIOUS
    <3> QED
      BY <2>1, <3>1, <3>2, <3>3
  <2>3. ASSUME NEW i \in 1 .. Len(ss) - 1, f[i] \in Seq(S), NEW a, NEW b, Places(ss, i, f[i], a, b)
        PROVE  f[i + 1] \in Seq(S) /\ \E c, d : Places(ss, i + 1, f[i + 1], c, d)
    <3>1. i + 1 \in 2 .. Len(ss) /\ (i + 1) - 1 = i /\ i \in 0 .. Len(ss) - 1 /\ i + 1 \in 1 .. Len(ss)
      OBVIOUS
    <3>2. f[i + 1] = f[i] \o ss[i + 1]
      BY <2>1, <3>1
    <3>3. f[i + 1] \in Seq(S)
      BY <2>3, <3>1, <3>2
    <3>4. \E c, d : Places(ss, i + 1, f[i] \o ss[i + 1], c, d)
      BY <2>3, <3>1, PlacesAppend
    <3> QED
      BY <3>2, <3>3, <3>4
  <2>4. ASSUME NEW i \in 1 .. Len(ss) - 1, i \in P PROVE i + 1 \in P
    <3>1. PICK a, b : Places(ss, i, f[i], a, b)
      BY <2>4
    <3>2. f[i] \in Seq(S) /\ i + 1 \in Nat
      BY <2>4
    <3> QED
      BY <2>3, <3>1, <3>2
  <2> HIDE DEF P
  <2>5. 1 .. Len(ss) \subseteq P
    BY ONLY <2>0, <2>2, <2>4, Positions
  <2>6. Len(ss) \in P
    BY ONLY <2>0, <2>5
  <2> QED
    BY <2>1, <2>6 DEF P
<1> QED
  BY <1>1, <1>2

(* It holds all that its parts hold ...                                    *)
LEMMA FlattenRange ==
    ASSUME NEW S, NEW ss \in Seq(Seq(S))
    PROVE  /\ FlattenSeq(ss) \in Seq(S)
           /\ Range(FlattenSeq(ss)) = UNION {Range(ss[i]) : i \in DOMAIN ss}
<1>1. FlattenSeq(ss) \in Seq(S)
  BY FlattenType
<1> DEFINE t == FlattenSeq(ss)
<1>2. PICK a, b : Places(ss, Len(ss), t, a, b)
  BY FlattenPlaces
<1> HIDE DEF t
<1>3. t \in Seq(S) /\ DOMAIN t = 1 .. Len(t) /\ DOMAIN ss = 1 .. Len(ss) /\ \A i \in DOMAIN ss : DOMAIN ss[i] = 1 .. Len(ss[i])
  BY <1>1 DEF t
<1>4. ASSUME NEW x \in Range(t) PROVE x \in UNION {Range(ss[i]) : i \in DOMAIN ss}
  <2>1. PICK k \in 1 .. Len(t) : x = t[k]
    BY <1>3 DEF Range
  <2>2. a[k] \in DOMAIN ss /\ b[k] \in DOMAIN ss[a[k]] /\ t[k] = ss[a[k]][b[k]]
    BY <1>2, <1>3 DEF Places
  <2> QED
    BY <2>1, <2>2 DEF Range
<1>5. ASSUME NEW i \in DOMAIN ss, NEW x \in Range(ss[i]) PROVE x \in Range(t)
  <2>1. PICK j \in 1 .. Len(ss[i]) : x = ss[i][j]
    BY <1>3 DEF Range
  <2>2. PICK k \in 1 .. Len(t) : a[k] = i /\ b[k] = j
    BY <1>2, <1>3 DEF Places
  <2>3. t[k] = x
    BY <1>2, <2>1, <2>2 DEF Places
  <2> QED
    BY <1>3, <2>3 DEF Range
<1> QED
  BY <1>1, <1>4, <1>5 DEF t

(* ... and nothing twice, where no two of its parts share anything and     *)
(* none holds anything twice.                                              *)
LEMMA FlattenDistinct ==
    ASSUME NEW S, NEW ss \in Seq(Seq(S)),
           \A i \in DOMAIN ss : \A k, l \in DOMAIN ss[i] : ss[i][k] = ss[i][l] => k = l,
           \A i, j \in DOMAIN ss : i # j => Range(ss[i]) \cap Range(ss[j]) = {}
    PROVE  \A k, l \in DOMAIN FlattenSeq(ss) : FlattenSeq(ss)[k] = FlattenSeq(ss)[l] => k = l
<1> DEFINE t == FlattenSeq(ss)
<1>1. t \in Seq(S)
  BY FlattenType
<1>2. PICK a, b : Places(ss, Len(ss), t, a, b)
  BY FlattenPlaces
<1> HIDE DEF t
<1>3. DOMAIN t = 1 .. Len(t) /\ DOMAIN ss = 1 .. Len(ss) /\ \A i \in DOMAIN ss : DOMAIN ss[i] = 1 .. Len(ss[i])
  BY <1>1
<1>4. \A k \in DOMAIN t : a[k] \in DOMAIN ss /\ b[k] \in DOMAIN ss[a[k]] /\ t[k] = ss[a[k]][b[k]]
  BY <1>2, <1>3 DEF Places
<1>5. ASSUME NEW k \in DOMAIN t, NEW l \in DOMAIN t, k < l PROVE t[k] # t[l]
  <2>1. a[k] < a[l] \/ (a[k] = a[l] /\ b[k] < b[l])
    BY <1>2, <1>3, <1>5 DEF Places
  <2>2. CASE a[k] < a[l]
    <3>1. a[k] # a[l] /\ t[k] \in Range(ss[a[k]]) /\ t[l] \in Range(ss[a[l]])
      <4>1. a[k] \in Nat /\ a[l] \in Nat
        BY <1>3, <1>4
      <4>2. a[k] # a[l]
        BY <2>2, <4>1
      <4>3. \A m \in DOMAIN t : ss[a[m]][b[m]] \in Range(ss[a[m]])
        BY <1>4, Zenon DEF Range
      <4>4. t[k] \in Range(ss[a[k]]) /\ t[l] \in Range(ss[a[l]])
        BY ONLY <1>4, <4>3, k \in DOMAIN t, l \in DOMAIN t
      <4> QED
        BY <4>2, <4>4
    <3> QED
      BY <1>4, <3>1
  <2>3. CASE a[k] = a[l] /\ b[k] < b[l]
    <3>1. b[k] \in Nat /\ b[l] \in Nat
      BY <1>3, <1>4, SMTT(30)
    <3>2. b[k] # b[l]
      BY <2>3, <3>1
    <3> QED
      BY <1>4, <2>3, <3>2
  <2> QED
    BY <2>1, <2>2, <2>3
<1>6. \A k, l \in DOMAIN t : k < l \/ l < k \/ k = l
  BY <1>3
<1> QED
  BY <1>5, <1>6 DEF t

(* The members of S in a strict total order: below each of them are those  *)
(* that precede it.                                                        *)
Precedence(S, below) ==
    /\ below \in [S -> SUBSET S]
    /\ \A x \in S : x \notin below[x]
    /\ \A x, y \in S : y \in below[x] => below[y] \subseteq below[x]
    /\ \A x, y \in S : x # y => x \in below[y] \/ y \in below[x]

(* How many members precede x.                                             *)
Rank(below, x) == Cardinality(below[x])

(* A strict total order of a finite set numbers its members from 0 on.     *)
LEMMA Ranks ==
    ASSUME NEW S, IsFiniteSet(S), NEW below, Precedence(S, below)
    PROVE  /\ Cardinality(S) \in Nat
           /\ \A x \in S : Rank(below, x) \in 0 .. Cardinality(S) - 1
           /\ \A x, y \in S : y \in below[x] <=> Rank(below, y) < Rank(below, x)
           /\ \A n \in 0 .. Cardinality(S) - 1 : \E x \in S : Rank(below, x) = n
<1>0. Cardinality(S) \in Nat
  BY FS_CardinalityType
<1>1. \A x \in S : below[x] \subseteq S /\ IsFiniteSet(below[x]) /\ Cardinality(below[x]) \in Nat
  BY FS_Subset, FS_CardinalityType DEF Precedence
<1>2. ASSUME NEW x \in S PROVE Rank(below, x) \in 0 .. Cardinality(S) - 1
  <2>1. below[x] \in SUBSET S /\ below[x] # S
    BY <1>1 DEF Precedence
  <2>2. Cardinality(below[x]) <= Cardinality(S) /\ Cardinality(S) # Cardinality(below[x])
    BY <2>1, FS_Subset
  <2> QED
    BY <1>0, <1>1, <2>2 DEF Rank
<1>3. ASSUME NEW x \in S, NEW y \in S, y \in below[x] PROVE Rank(below, y) < Rank(below, x)
  <2>1. below[y] \in SUBSET below[x] /\ below[y] # below[x]
    BY <1>3 DEF Precedence
  <2>2. Cardinality(below[y]) <= Cardinality(below[x]) /\ Cardinality(below[x]) # Cardinality(below[y])
    BY <2>1, <1>1, FS_Subset
  <2> QED
    BY <1>1, <2>2 DEF Rank
<1>4. \A x, y \in S : y \in below[x] <=> Rank(below, y) < Rank(below, x)
  <2> SUFFICES ASSUME NEW x \in S, NEW y \in S, Rank(below, y) < Rank(below, x) PROVE y \in below[x]
    BY <1>3
  <2>1. Rank(below, x) \in Nat /\ Rank(below, y) \in Nat
    BY <1>1 DEF Rank
  <2>2. x # y
    BY <2>1
  <2>3. x \notin below[y]
    BY <1>3, <2>1
  <2> QED
    BY <2>2, <2>3 DEF Precedence
<1> DEFINE T == 0 .. Cardinality(S) - 1
           f == [x \in S |-> Rank(below, x)]
<1>5. IsFiniteSet(T) /\ Cardinality(T) = Cardinality(S)
  <2>1. IsFiniteSet(T) /\ Cardinality(T) = IF 0 > Cardinality(S) - 1 THEN 0 ELSE Cardinality(S) - 1 - 0 + 1
    BY <1>0, FS_Interval
  <2> QED
    BY <1>0, <2>1
<1>6. f \in Injection(S, T)
  <2>1. f \in [S -> T]
    BY <1>2
  <2>2. ASSUME NEW x \in S, NEW y \in S, f[x] = f[y] PROVE x = y
    <3>1. Rank(below, x) = Rank(below, y) /\ Rank(below, x) \in Nat
      BY <2>2, <1>1 DEF Rank
    <3>2. x \notin below[y] /\ y \notin below[x]
      BY <1>4, <3>1
    <3> QED
      BY <3>2 DEF Precedence
  <2> QED
    BY <2>1, <2>2 DEF Injection, IsInjective
<1>7. f \in Surjection(S, T)
  BY <1>5, <1>6, FS_Injection
<1>8. ASSUME NEW n \in T PROVE \E x \in S : Rank(below, x) = n
  BY <1>7 DEF Surjection
<1> QED
  BY <1>0, <1>2, <1>4, <1>8

(* Ordered yields each member once, in the order.                          *)
Arranged(S, below) ==
  [n \in 1 .. Cardinality(S) |-> CHOOSE x \in S : Rank(below, x) = n - 1]

(* What Arranged yields: each member at its rank, once.                     *)
LEMMA OrderedByRank ==
    ASSUME NEW S, IsFiniteSet(S), NEW below, Precedence(S, below),
           NEW o, o = Arranged(S, below)
    PROVE  /\ Cardinality(S) \in Nat /\ o \in [1 .. Cardinality(S) -> S]
           /\ \A x \in S : \E n \in 1 .. Cardinality(S) : o[n] = x
           /\ \A m, n \in 1 .. Cardinality(S) : m < n <=> o[m] \in below[o[n]]
<1>1. /\ Cardinality(S) \in Nat
      /\ \A x \in S : Rank(below, x) \in 0 .. Cardinality(S) - 1
      /\ \A x, y \in S : y \in below[x] <=> Rank(below, y) < Rank(below, x)
      /\ \A n \in 0 .. Cardinality(S) - 1 : \E x \in S : Rank(below, x) = n
  BY Ranks
<1>2. ASSUME NEW n \in 1 .. Cardinality(S) PROVE o[n] \in S /\ Rank(below, o[n]) = n - 1
  <2>1. o[n] = CHOOSE x \in S : Rank(below, x) = n - 1
    BY DEF Arranged
  <2>2. n - 1 \in 0 .. Cardinality(S) - 1
    BY <1>1
  <2>3. \E x \in S : Rank(below, x) = n - 1
    BY <1>1, <2>2
  <2> QED
    BY <2>1, <2>3
<1>3. o \in [1 .. Cardinality(S) -> S]
  <2>1. o = [n \in 1 .. Cardinality(S) |-> o[n]]
    BY DEF Arranged
  <2> QED
    BY <1>2, <2>1
<1>4. ASSUME NEW x \in S PROVE \E n \in 1 .. Cardinality(S) : o[n] = x
  <2> DEFINE n == Rank(below, x) + 1
  <2>1. n \in 1 .. Cardinality(S) /\ n - 1 = Rank(below, x)
    BY <1>1
  <2>2. o[n] \in S /\ Rank(below, o[n]) = Rank(below, x)
    BY <1>2, <2>1
  <2>3. Rank(below, x) \in Nat
    BY <1>1
  <2>4. o[n] \notin below[x] /\ x \notin below[o[n]]
    BY <1>1, <2>2, <2>3
  <2>5. o[n] = x
    BY <2>2, <2>4 DEF Precedence
  <2> QED
    BY <2>1, <2>5
<1>5. ASSUME NEW m \in 1 .. Cardinality(S), NEW n \in 1 .. Cardinality(S)
      PROVE  m < n <=> o[m] \in below[o[n]]
  <2>1. o[m] \in below[o[n]] <=> m - 1 < n - 1
    BY <1>1, <1>2
  <2> QED
    BY <1>1, <2>1
<1> QED
  BY <1>1, <1>3, <1>4, <1>5

(* The positions of a mix that is sorted by them.                          *)
LEMMA OrderedPositions ==
    ASSUME NEW n \in Nat
    PROVE  Ordered(1 .. n, <) = [k \in 1 .. n |-> k]
<1>1. Cardinality(1 .. n) = n
  BY FS_Interval
<1>2. ASSUME NEW k \in 1 .. n
      PROVE  (CHOOSE x \in 1 .. n : Cardinality({y \in 1 .. n : y < x}) = k - 1) = k
  <2>1. ASSUME NEW x \in 1 .. n PROVE Cardinality({y \in 1 .. n : y < x}) = x - 1
    <3>1. {y \in 1 .. n : y < x} = 1 .. x - 1
      OBVIOUS
    <3>2. Cardinality(1 .. x - 1) = x - 1
      BY FS_Interval
    <3> QED
      BY <3>1, <3>2
  <2> DEFINE Q(x) == Cardinality({y \in 1 .. n : y < x}) = k - 1
             c == CHOOSE x \in 1 .. n : Q(x)
  <2>2. Q(k)
    BY <2>1
  <2>3. c \in 1 .. n /\ Q(c)
    BY <2>2
  <2>4. c - 1 = k - 1
    BY <2>1, <2>3
  <2>5. c \in 1 .. n
    BY <2>3
  <2> HIDE DEF c
  <2>6. c = k
    BY <2>4, <2>5
  <2> QED
    BY <2>6 DEF c
<1>3. Ordered(1 .. n, <) =
        [k \in 1 .. n |-> CHOOSE x \in 1 .. n : Cardinality({y \in 1 .. n : y < x}) = k - 1]
  BY <1>1 DEF Ordered
<1> QED
  BY <1>2, <1>3

(* No frame of the film is shorter than a sample.  The frame rate itself   *)
(* has no bound (FrameRate::new).                                          *)
EveryFrameSounds == OutputRate.num <= SampleRate * OutputRate.den

(* Samples grow with the frames, and strictly where every frame sounds.    *)
LEMMA SampleBounds ==
    /\ \A f \in Nat : SamplesFor(f) \in Nat
    /\ \A f, g \in Nat : f <= g => SamplesFor(f) <= SamplesFor(g)
    /\ EveryFrameSounds => \A f, g \in Nat : f < g => SamplesFor(f) < SamplesFor(g)
    /\ \A f \in Nat : 0 < f => 0 < SamplesFor(f)
    /\ \A f \in Nat : f = 0 => SamplesFor(f) = 0
<1> DEFINE N == OutputRate.num
           D == OutputRate.den * SampleRate
           A(f) == f * D
<1>0. N \in Nat \ {0} /\ OutputRate.den \in Nat \ {0} /\ SampleRate \in Nat \ {0}
  BY MediaTimeAssumption, MixAssumption
<1>1. D \in Nat \ {0}
  BY <1>0
<1>2. ASSUME NEW f \in Nat PROVE SamplesFor(f) = CeilDiv(A(f), N)
  <2>1. f * OutputRate.den * SampleRate = A(f)
    BY <1>0
  <2> QED
    BY <2>1 DEF SamplesFor
<1>3. EveryFrameSounds => N <= D
  BY <1>0 DEF EveryFrameSounds
<1>4. \A f \in Nat : A(f) \in Nat
  BY <1>1
<1>5. \A f, g \in Nat : f <= g => A(f) <= A(g)
  BY <1>1
<1>6. \A f, g \in Nat : f < g => A(f) + D <= A(g)
  <2> SUFFICES ASSUME NEW f \in Nat, NEW g \in Nat, f < g PROVE A(f) + D <= A(g)
    OBVIOUS
  <2>1. f + 1 \in Nat /\ f + 1 <= g
    OBVIOUS
  <2>2. A(f + 1) <= A(g)
    BY <1>5, <2>1
  <2>3. (f + 1) * D = f * D + D
    BY <1>1
  <2> QED
    BY <2>2, <2>3
<1>7. \A f \in Nat : (f = 0 => A(f) = 0) /\ (0 < f => 0 < A(f))
  BY <1>1
<1> HIDE DEF N, D, A
<1>8. \A f \in Nat, n \in Int : SamplesFor(f) \in Int /\ (SamplesFor(f) <= n <=> A(f) <= n * N)
  BY <1>0, <1>2, <1>4, RoundsUp
<1>9. ASSUME NEW f \in Nat PROVE SamplesFor(f) \in Nat
  <2>1. ~(SamplesFor(f) <= -1) 
    <3>1. (-1) * N < 0 /\ (-1) * N \in Int /\ -1 \in Int
      BY <1>0
    <3>2. A(f) \in Nat /\ (SamplesFor(f) <= -1 <=> A(f) <= (-1) * N)
      BY <1>4, <1>8, <3>1
    <3> QED
      BY ONLY <3>1, <3>2
  <2> QED
    BY <1>8, <2>1
<1>10. ASSUME NEW f \in Nat, NEW g \in Nat, f <= g PROVE SamplesFor(f) <= SamplesFor(g)
  <2>1. A(g) <= SamplesFor(g) * N
    BY <1>8, <1>9
  <2>2. A(f) <= SamplesFor(g) * N
    <3>1. SamplesFor(g) * N \in Nat
      BY <1>0, <1>9
    <3> QED
      BY <1>4, <1>5, <1>10, <2>1, <3>1
  <2> QED
    BY <1>8, <1>9, <2>2
<1>11. ASSUME EveryFrameSounds, NEW f \in Nat, NEW g \in Nat, f < g
       PROVE  SamplesFor(f) < SamplesFor(g)
  <2> DEFINE n == SamplesFor(f)
  <2>1. n \in Nat /\ n - 1 \in Int /\ SamplesFor(g) \in Nat
    BY <1>9
  <2>2. ~(A(f) <= (n - 1) * N)
    BY <1>8, <2>1
  <2>3. (n - 1) * N = n * N - N /\ n * N \in Nat
    BY <1>0, <2>1
  <2>4. A(f) + N <= A(g) 
    BY <1>0, <1>1, <1>3, <1>4, <1>6, <1>11
  <2>5. ~(A(g) <= n * N)
    BY <1>0, <1>4, <2>2, <2>3, <2>4
  <2>6. ~(SamplesFor(g) <= n)
    BY <1>8, <2>1, <2>5
  <2> QED
    BY <2>1, <2>6
<1>12. ASSUME NEW f \in Nat, 0 < f PROVE 0 < SamplesFor(f)
  <2>1. 0 * N = 0 /\ 0 \in Int
    BY <1>0
  <2>2. ~(SamplesFor(f) <= 0)
    BY <1>4, <1>7, <1>8, <1>12, <2>1
  <2> QED
    BY <1>9, <2>2
<1>13. ASSUME NEW f \in Nat, f = 0 PROVE SamplesFor(f) = 0
  <2>1. 0 * N = 0 /\ 0 \in Int
    BY <1>0
  <2>2. SamplesFor(f) <= 0
    BY <1>7, <1>8, <1>13, <2>1
  <2> QED
    BY <1>9, <2>2
<1> QED
  BY <1>9, <1>10, <1>11, <1>12, <1>13

(* The windows of a music of so many samples: each reaches as far around   *)
(* its voice as the ramps last.                                            *)
IsWindow(w, samples) ==
    /\ w = [attackStart |-> w.attackStart, voiceStart |-> w.voiceStart,
            voiceEnd |-> w.voiceEnd, releaseEnd |-> w.releaseEnd]
    /\ {w.attackStart, w.voiceStart, w.voiceEnd, w.releaseEnd} \subseteq Nat
    /\ w.voiceStart < w.voiceEnd /\ w.voiceEnd <= samples
    /\ w.attackStart = IF w.voiceStart < SamplesFor(DuckingAttack) THEN 0
                       ELSE w.voiceStart - SamplesFor(DuckingAttack)
    /\ w.releaseEnd = IF w.voiceEnd + SamplesFor(DuckingRelease) < samples
                      THEN w.voiceEnd + SamplesFor(DuckingRelease) ELSE samples

(* Window m reaches and ducks wherever window w does.                      *)
Envelops(m, w) ==
    /\ m.attackStart <= w.attackStart /\ m.voiceStart <= w.voiceStart
    /\ w.voiceEnd <= m.voiceEnd /\ w.releaseEnd <= m.releaseEnd

(* Sample s lies in the window.                                            *)
Reaches(w, s) == w.attackStart <= s /\ s < w.releaseEnd

(* Both ramps last a sample or more.                                       *)
LEMMA RampLengths ==
    /\ SamplesFor(DuckingAttack) \in Nat \ {0}
    /\ SamplesFor(DuckingRelease) \in Nat \ {0}
<1>1. DuckingAttack \in Nat /\ DuckingRelease \in Nat /\ 0 < DuckingAttack /\ 0 < DuckingRelease
  BY MixAssumption
<1>2. \A f \in Nat : SamplesFor(f) \in Nat /\ (0 < f => 0 < SamplesFor(f))
  BY SampleBounds
<1> QED
  BY <1>1, <1>2

(* The smaller and the larger of two.                                      *)
LEMMA SmallerAndLarger ==
    ASSUME NEW a \in Int, NEW b \in Int
    PROVE  /\ Min({a, b}) = IF a <= b THEN a ELSE b
           /\ Max({a, b}) = IF a <= b THEN b ELSE a
<1>1. a <= b \/ b <= a
  OBVIOUS
<1>2. CASE a <= b
  BY <1>2, MaxMinOfTwo
<1>3. CASE b <= a /\ ~(a <= b)
  BY <1>3, MaxMinOfTwo
<1> QED
  BY <1>1, <1>2, <1>3

(* A window and one that begins before its end are one window.             *)
LEMMA Absorbs ==
    ASSUME NEW samples \in Nat, NEW v, IsWindow(v, samples), NEW w, IsWindow(w, samples),
           v.attackStart <= w.attackStart, w.attackStart < v.releaseEnd
    PROVE  /\ IsWindow(Absorb(v, w), samples)
           /\ Absorb(v, w).attackStart = v.attackStart
           /\ Envelops(Absorb(v, w), v) /\ Envelops(Absorb(v, w), w)
           /\ \A s \in Nat : Reaches(Absorb(v, w), s) => Reaches(v, s) \/ Reaches(w, s)
<1> DEFINE a == SamplesFor(DuckingAttack)
           r == SamplesFor(DuckingRelease)
<1>0. a \in Nat /\ r \in Nat
  BY RampLengths
<1> DEFINE m == [attackStart |-> v.attackStart,
                 voiceStart |-> IF v.voiceStart <= w.voiceStart THEN v.voiceStart ELSE w.voiceStart,
                 voiceEnd |-> IF v.voiceEnd <= w.voiceEnd THEN w.voiceEnd ELSE v.voiceEnd,
                 releaseEnd |-> IF v.releaseEnd <= w.releaseEnd THEN w.releaseEnd ELSE v.releaseEnd]
<1>1. /\ {v.attackStart, v.voiceStart, v.voiceEnd, v.releaseEnd} \subseteq Nat
      /\ {w.attackStart, w.voiceStart, w.voiceEnd, w.releaseEnd} \subseteq Nat
  BY DEF IsWindow
<1>2. Absorb(v, w) = m
  <2>1. /\ Min({v.voiceStart, w.voiceStart}) = IF v.voiceStart <= w.voiceStart THEN v.voiceStart ELSE w.voiceStart
        /\ Max({v.voiceEnd, w.voiceEnd}) = IF v.voiceEnd <= w.voiceEnd THEN w.voiceEnd ELSE v.voiceEnd
        /\ Max({v.releaseEnd, w.releaseEnd}) = IF v.releaseEnd <= w.releaseEnd THEN w.releaseEnd ELSE v.releaseEnd
    <3>1. /\ v.voiceStart \in Int /\ w.voiceStart \in Int /\ v.voiceEnd \in Int /\ w.voiceEnd \in Int
          /\ v.releaseEnd \in Int /\ w.releaseEnd \in Int
      BY <1>1
    <3>2. Min({v.voiceStart, w.voiceStart}) = IF v.voiceStart <= w.voiceStart THEN v.voiceStart ELSE w.voiceStart
      BY <3>1, SmallerAndLarger
    <3>3. Max({v.voiceEnd, w.voiceEnd}) = IF v.voiceEnd <= w.voiceEnd THEN w.voiceEnd ELSE v.voiceEnd
      BY <3>1, SmallerAndLarger
    <3>4. Max({v.releaseEnd, w.releaseEnd}) = IF v.releaseEnd <= w.releaseEnd THEN w.releaseEnd ELSE v.releaseEnd
      BY <3>1, SmallerAndLarger
    <3> QED
      BY <3>2, <3>3, <3>4
  <2> QED
    BY <2>1 DEF Absorb
<1>3. /\ v.voiceStart < v.voiceEnd /\ v.voiceEnd <= samples
      /\ v.attackStart = IF v.voiceStart < a THEN 0 ELSE v.voiceStart - a
      /\ v.releaseEnd = IF v.voiceEnd + r < samples THEN v.voiceEnd + r ELSE samples
      /\ w.voiceStart < w.voiceEnd /\ w.voiceEnd <= samples
      /\ w.attackStart = IF w.voiceStart < a THEN 0 ELSE w.voiceStart - a
      /\ w.releaseEnd = IF w.voiceEnd + r < samples THEN w.voiceEnd + r ELSE samples
  BY DEF IsWindow
<1> HIDE DEF a, r
<1>4. /\ m.attackStart = v.attackStart
      /\ m.voiceStart = (IF v.voiceStart <= w.voiceStart THEN v.voiceStart ELSE w.voiceStart)
      /\ m.voiceEnd = (IF v.voiceEnd <= w.voiceEnd THEN w.voiceEnd ELSE v.voiceEnd)
      /\ m.releaseEnd = (IF v.releaseEnd <= w.releaseEnd THEN w.releaseEnd ELSE v.releaseEnd)
  OBVIOUS
<1>5. m = [attackStart |-> m.attackStart, voiceStart |-> m.voiceStart,
           voiceEnd |-> m.voiceEnd, releaseEnd |-> m.releaseEnd]
  OBVIOUS
<1> HIDE DEF m
<1>6. /\ {m.attackStart, m.voiceStart, m.voiceEnd, m.releaseEnd} \subseteq Nat
      /\ m.voiceStart < m.voiceEnd /\ m.voiceEnd <= samples
  BY <1>1, <1>3, <1>4
<1>7. m.attackStart = IF m.voiceStart < a THEN 0 ELSE m.voiceStart - a
  BY <1>0, <1>1, <1>3, <1>4
<1>8. m.releaseEnd = IF m.voiceEnd + r < samples THEN m.voiceEnd + r ELSE samples
  BY <1>0, <1>1, <1>3, <1>4
<1>9. IsWindow(m, samples)
  BY <1>5, <1>6, <1>7, <1>8 DEF IsWindow, a, r
<1>10. Envelops(m, v) /\ Envelops(m, w)
  BY <1>1, <1>4 DEF Envelops
<1>11. \A s \in Nat : Reaches(m, s) => Reaches(v, s) \/ Reaches(w, s)
  BY <1>1, <1>4 DEF Reaches
<1> QED
  BY <1>2, <1>4, <1>9, <1>10, <1>11

(* What is merged of the first n of the windows y, that begin in order.    *)
Merged(q, y, n, samples) ==
    /\ q \in Seq({w \in Range(q) : IsWindow(w, samples)}) /\ (n > 0 => q # <<>>)
    /\ \A i, j \in DOMAIN q : i < j => q[i].releaseEnd <= q[j].attackStart
    /\ \A i \in DOMAIN q : n > 0 /\ q[i].attackStart <= y[n].attackStart
    /\ \A k \in 1 .. n : \E i \in DOMAIN q : Envelops(q[i], y[k])
    /\ \A i \in DOMAIN q, s \in Nat : Reaches(q[i], s) => \E k \in 1 .. n : Reaches(y[k], s)

(* A window behind all others is one more of the merged.                   *)
LEMMA MergeAppends ==
    ASSUME NEW samples \in Nat, NEW y, NEW n \in Nat, NEW q, Merged(q, y, n, samples),
           IsWindow(y[n + 1], samples), q = <<>> \/ y[n + 1].attackStart >= Last(q).releaseEnd,
           n > 0 => y[n].attackStart <= y[n + 1].attackStart
    PROVE  Merged(Append(q, y[n + 1]), y, n + 1, samples)
<1> DEFINE w == y[n + 1]
           p == Append(q, w)
<1>1. /\ q \in Seq(Range(q)) /\ \A i \in DOMAIN q : IsWindow(q[i], samples)
      /\ DOMAIN q = 1 .. Len(q) /\ Len(q) \in Nat
  <2>1. q \in Seq({v \in Range(q) : IsWindow(v, samples)})
    BY DEF Merged
  <2> QED
    BY <2>1
<1>2. /\ p \in Seq(Range(p)) /\ DOMAIN p = 1 .. Len(q) + 1 /\ Len(p) = Len(q) + 1
      /\ \A i \in 1 .. Len(q) : p[i] = q[i]
      /\ p[Len(q) + 1] = w
  BY <1>1 DEF Range
<1> HIDE DEF p
<1>3. \A i \in DOMAIN p : IsWindow(p[i], samples)
  BY <1>1, <1>2
<1>4. p \in Seq({v \in Range(p) : IsWindow(v, samples)}) /\ p # <<>>
  <2>1. \A i \in DOMAIN p : p[i] \in {v \in Range(p) : IsWindow(v, samples)}
    BY <1>3 DEF Range
  <2> QED
    BY <1>1, <1>2, <2>1
<1>5. /\ \A v : IsWindow(v, samples) => {v.attackStart, v.releaseEnd} \subseteq Nat /\ v.attackStart <= v.releaseEnd
      /\ IsWindow(w, samples)
  BY RampLengths DEF IsWindow
<1>6. \A i \in DOMAIN q : q[i].releaseEnd <= w.attackStart /\ q[i].attackStart <= w.attackStart
  <2> SUFFICES ASSUME NEW i \in DOMAIN q PROVE q[i].releaseEnd <= w.attackStart /\ q[i].attackStart <= w.attackStart
    OBVIOUS
  <2>1. q # <<>> /\ Len(q) \in DOMAIN q
    BY <1>1
  <2>2. q[Len(q)].releaseEnd <= w.attackStart
    <3>1. w.attackStart >= q[Len(q)].releaseEnd
      BY <2>1 DEF Last
    <3> QED
      BY <1>1, <1>5, <2>1, <3>1
  <2>3. i = Len(q) \/ (i < Len(q) /\ q[i].releaseEnd <= q[Len(q)].attackStart)
    BY <1>1, <2>1 DEF Merged
  <2>4. /\ {q[i].attackStart, q[i].releaseEnd, q[Len(q)].attackStart, q[Len(q)].releaseEnd, w.attackStart} \subseteq Nat
        /\ q[i].attackStart <= q[i].releaseEnd /\ q[Len(q)].attackStart <= q[Len(q)].releaseEnd
    BY <1>1, <1>5, <2>1
  <2> QED
    BY <2>2, <2>3, <2>4
<1>7. \A i, j \in DOMAIN p : i < j => p[i].releaseEnd <= p[j].attackStart
  <2> SUFFICES ASSUME NEW i \in DOMAIN p, NEW j \in DOMAIN p, i < j PROVE p[i].releaseEnd <= p[j].attackStart
    OBVIOUS
  <2>1. i \in DOMAIN q /\ p[i] = q[i]
    BY <1>1, <1>2
  <2>2. CASE j \in DOMAIN q
    BY <1>1, <1>2, <2>1, <2>2 DEF Merged
  <2>3. CASE j \notin DOMAIN q
    <3>1. p[j] = w
      BY <1>1, <1>2, <2>3
    <3> QED
      BY <1>6, <2>1, <3>1
  <2> QED
    BY <2>2, <2>3
<1>8. \A i \in DOMAIN p : n + 1 > 0 /\ p[i].attackStart <= w.attackStart
  <2> SUFFICES ASSUME NEW i \in DOMAIN p PROVE p[i].attackStart <= w.attackStart
    OBVIOUS
  <2>1. CASE i \in DOMAIN q
    BY <1>1, <1>2, <1>6, <2>1
  <2>2. CASE i \notin DOMAIN q
    <3>1. p[i] = w /\ w.attackStart \in Nat
      BY <1>1, <1>2, <1>5, <2>2
    <3> QED
      BY <3>1
  <2> QED
    BY <2>1, <2>2
<1>9. \A k \in 1 .. n + 1 : \E i \in DOMAIN p : Envelops(p[i], y[k])
  <2> SUFFICES ASSUME NEW k \in 1 .. n + 1 PROVE \E i \in DOMAIN p : Envelops(p[i], y[k])
    OBVIOUS
  <2>1. CASE k \in 1 .. n
    <3>1. PICK i \in DOMAIN q : Envelops(q[i], y[k])
      BY <2>1 DEF Merged
    <3>2. i \in DOMAIN p /\ p[i] = q[i]
      BY <1>1, <1>2
    <3> QED
      BY <3>1, <3>2
  <2>2. CASE k = n + 1
    <3>1. Len(q) + 1 \in DOMAIN p
      BY <1>1, <1>2
    <3>2. Envelops(w, w)
      BY <1>5 DEF Envelops, IsWindow
    <3> QED
      BY <1>2, <2>2, <3>1, <3>2
  <2> QED
    BY <2>1, <2>2
<1>10. \A i \in DOMAIN p, s \in Nat : Reaches(p[i], s) => \E k \in 1 .. n + 1 : Reaches(y[k], s)
  <2> SUFFICES ASSUME NEW i \in DOMAIN p, NEW s \in Nat, Reaches(p[i], s)
               PROVE  \E k \in 1 .. n + 1 : Reaches(y[k], s)
    OBVIOUS
  <2>1. CASE i \in DOMAIN q
    <3>1. Reaches(q[i], s)
      BY <1>1, <1>2, <2>1
    <3>2. PICK k \in 1 .. n : Reaches(y[k], s)
      BY <2>1, <3>1 DEF Merged
    <3> QED
      BY <3>2
  <2>2. CASE i \notin DOMAIN q
    <3>1. p[i] = w /\ n + 1 \in 1 .. n + 1
      BY <1>1, <1>2, <2>2
    <3> QED
      BY <3>1
  <2> QED
    BY <2>1, <2>2
<1>11. Merged(p, y, n + 1, samples)
  BY <1>4, <1>7, <1>8, <1>9, <1>10 DEF Merged
<1> QED
  BY <1>11 DEF p

(* A window that begins in the last of the merged widens it.               *)
LEMMA MergeAbsorbs ==
    ASSUME NEW samples \in Nat, NEW y, NEW n \in Nat, NEW q, Merged(q, y, n, samples), q # <<>>,
           \A k \in 1 .. n + 1 : IsWindow(y[k], samples), y[n + 1].attackStart < Last(q).releaseEnd,
           n > 0 => y[n].attackStart <= y[n + 1].attackStart
    PROVE  Merged([q EXCEPT ![Len(q)] = Absorb(@, y[n + 1])], y, n + 1, samples)
<1> DEFINE w == y[n + 1]
           l == Len(q)
           m == Absorb(q[l], w)
           p == [q EXCEPT ![l] = Absorb(@, w)]
<1>1. /\ q \in Seq(Range(q)) /\ \A i \in DOMAIN q : IsWindow(q[i], samples)
      /\ DOMAIN q = 1 .. l /\ l \in DOMAIN q /\ l \in Nat
  <2>1. q \in Seq({v \in Range(q) : IsWindow(v, samples)})
    BY DEF Merged
  <2> QED
    BY <2>1
<1>2. p[l] = m /\ DOMAIN p = 1 .. l /\ \A i \in 1 .. l : i # l => p[i] = q[i]
  BY <1>1
<1>3. p = [i \in 1 .. l |-> p[i]]
  BY <1>1
<1>0. IsWindow(w, samples) /\ (n > 0 => IsWindow(y[n], samples))
  OBVIOUS
<1>4. \A v : IsWindow(v, samples) => {v.attackStart, v.voiceStart, v.voiceEnd, v.releaseEnd} \subseteq Nat /\ v.attackStart <= v.releaseEnd
  BY RampLengths DEF IsWindow
<1>5. q[l].attackStart <= w.attackStart /\ w.attackStart < q[l].releaseEnd
  <2>1. n > 0 /\ q[l].attackStart <= y[n].attackStart
    BY <1>1 DEF Merged
  <2>2. {q[l].attackStart, y[n].attackStart, w.attackStart} \subseteq Nat
    BY <1>0, <1>1, <1>4, <2>1
  <2> QED
    BY <2>1, <2>2 DEF Last
<1>6. /\ IsWindow(m, samples) /\ m.attackStart = q[l].attackStart
      /\ Envelops(m, q[l]) /\ Envelops(m, w)
      /\ \A s \in Nat : Reaches(m, s) => Reaches(q[l], s) \/ Reaches(w, s)
  BY <1>0, <1>1, <1>5, Absorbs
<1> HIDE DEF p, m
<1>7. \A i \in DOMAIN p : IsWindow(p[i], samples) /\ p[i].attackStart = q[i].attackStart
  BY <1>1, <1>2, <1>6
<1>8. p \in Seq({v \in Range(p) : IsWindow(v, samples)}) /\ p # <<>>
  <2>1. \A i \in DOMAIN p : p[i] \in {v \in Range(p) : IsWindow(v, samples)}
    BY <1>7 DEF Range
  <2> QED
    BY <1>1, <1>2, <1>3, <2>1, SMTT(30)
<1>9. \A i, j \in DOMAIN p : i < j => p[i].releaseEnd <= p[j].attackStart
  <2> SUFFICES ASSUME NEW i \in DOMAIN p, NEW j \in DOMAIN p, i < j PROVE p[i].releaseEnd <= p[j].attackStart
    OBVIOUS
  <2>0. i < j
    OBVIOUS
  <2>1. i # l /\ i \in DOMAIN q /\ j \in DOMAIN q
    <3>1. i \in 1 .. l /\ j \in 1 .. l /\ l \in Nat
      BY <1>1, <1>2
    <3> QED
      BY ONLY <1>1, <2>0, <3>1
  <2>2. q[i].releaseEnd <= q[j].attackStart
    BY <2>1 DEF Merged
  <2> QED
    BY <1>1, <1>2, <1>7, <2>1, <2>2
<1>10. \A i \in DOMAIN p : n + 1 > 0 /\ p[i].attackStart <= w.attackStart
  <2> SUFFICES ASSUME NEW i \in DOMAIN p PROVE p[i].attackStart <= w.attackStart
    OBVIOUS
  <2>1. n > 0 /\ q[i].attackStart <= y[n].attackStart
    BY <1>1, <1>2 DEF Merged
  <2>2. {q[i].attackStart, y[n].attackStart, w.attackStart} \subseteq Nat
    BY <1>0, <1>1, <1>2, <1>4, <2>1
  <2> QED
    BY <1>7, <2>1, <2>2
<1>11. \A k \in 1 .. n + 1 : \E i \in DOMAIN p : Envelops(p[i], y[k])
  <2> SUFFICES ASSUME NEW k \in 1 .. n + 1 PROVE \E i \in DOMAIN p : Envelops(p[i], y[k])
    OBVIOUS
  <2>1. CASE k \in 1 .. n
    <3>1. PICK i \in DOMAIN q : Envelops(q[i], y[k])
      BY <2>1 DEF Merged
    <3>2. CASE i # l
      BY <1>1, <1>2, <3>1, <3>2
    <3>3. CASE i = l
      <4>1. Envelops(m, y[k])
        <5>1. Envelops(m, q[l]) /\ Envelops(q[l], y[k]) /\ IsWindow(q[l], samples) /\ IsWindow(m, samples)
          BY <1>1, <1>6, <3>1, <3>3
        <5>2. /\ {m.attackStart, m.voiceStart, m.voiceEnd, m.releaseEnd} \subseteq Nat
              /\ {q[l].attackStart, q[l].voiceStart, q[l].voiceEnd, q[l].releaseEnd} \subseteq Nat
              /\ {y[k].attackStart, y[k].voiceStart, y[k].voiceEnd, y[k].releaseEnd} \subseteq Nat
          BY <1>4, <5>1, IsWindow(y[k], samples)
        <5>3. ASSUME NEW a \in Nat, NEW b \in Nat, NEW c \in Nat, a <= b, b <= c PROVE a <= c
          BY ONLY <5>3
        <5>4. /\ m.attackStart <= q[l].attackStart /\ m.voiceStart <= q[l].voiceStart
              /\ q[l].voiceEnd <= m.voiceEnd /\ q[l].releaseEnd <= m.releaseEnd
              /\ q[l].attackStart <= y[k].attackStart /\ q[l].voiceStart <= y[k].voiceStart
              /\ y[k].voiceEnd <= q[l].voiceEnd /\ y[k].releaseEnd <= q[l].releaseEnd
          BY ONLY <5>1 DEF Envelops
        <5>5. m.attackStart <= y[k].attackStart /\ m.voiceStart <= y[k].voiceStart
          BY ONLY <5>2, <5>3, <5>4
        <5>6. y[k].voiceEnd <= m.voiceEnd /\ y[k].releaseEnd <= m.releaseEnd
          BY ONLY <5>2, <5>3, <5>4
        <5> QED
          BY ONLY <5>5, <5>6 DEF Envelops
      <4> QED
        BY <1>1, <1>2, <4>1
    <3> QED
      BY <3>2, <3>3
  <2>2. CASE k = n + 1
    BY <1>1, <1>2, <1>6, <2>2
  <2> QED
    BY <2>1, <2>2
<1>12. \A i \in DOMAIN p, s \in Nat : Reaches(p[i], s) => \E k \in 1 .. n + 1 : Reaches(y[k], s)
  <2> SUFFICES ASSUME NEW i \in DOMAIN p, NEW s \in Nat, Reaches(p[i], s)
               PROVE  \E k \in 1 .. n + 1 : Reaches(y[k], s)
    OBVIOUS
  <2>1. Reaches(q[i], s) \/ Reaches(w, s)
    BY <1>1, <1>2, <1>6
  <2>2. CASE Reaches(q[i], s)
    <3>1. PICK k \in 1 .. n : Reaches(y[k], s)
      BY <1>1, <1>2, <2>2 DEF Merged
    <3> QED
      BY <3>1
  <2>3. CASE Reaches(w, s)
    <3>1. n + 1 \in 1 .. n + 1
      OBVIOUS
    <3> QED
      BY <2>3, <3>1
  <2> QED
    BY <2>1, <2>2, <2>3
<1>13. Merged(p, y, n + 1, samples)
  BY <1>8, <1>9, <1>10, <1>11, <1>12 DEF Merged
<1> QED
  BY <1>13 DEF p

(* The windows merged so far, one more at a time.                          *)
Mergings(windows, order, f, n) ==
  f = [i \in 0 .. n |-> IF i = 0 THEN <<>> ELSE Merge(f[i - 1], windows[order[i]])]

(* The recursion of merge_windows has a value for each number of windows.  *)
LEMMA MergingsExist ==
    ASSUME NEW windows, NEW order, NEW n \in Nat
    PROVE  \E f : Mergings(windows, order, f, n)
<1> DEFINE e(h, i) == IF i = 0 THEN <<>> ELSE Merge(h[i - 1], windows[order[i]])
           Exists(m) == \E f : Mergings(windows, order, f, m)
           P == {m \in Nat : Exists(m)}
<1>1. Exists(0)
  <2> DEFINE f == [i \in 0 .. 0 |-> <<>>]
  <2>1. \A i \in 0 .. 0 : i = 0
    OBVIOUS
  <2>2. f = [i \in 0 .. 0 |-> e(f, i)]
    BY <2>1
  <2> HIDE DEF f
  <2> QED
    BY <2>2 DEF Mergings
<1>2. ASSUME NEW m \in Nat, Exists(m) PROVE Exists(m + 1)
  <2>1. PICK f : f = [i \in 0 .. m |-> e(f, i)]
    BY <1>2 DEF Mergings
  <2> DEFINE g == [i \in 0 .. m + 1 |-> IF i = m + 1 THEN Merge(f[m], windows[order[m + 1]]) ELSE f[i]]
  <2>2. \A i \in 0 .. m : f[i] = e(f, i)
    <3> HIDE DEF e
    <3> QED
      BY <2>1
  <2>3. ASSUME NEW i \in 0 .. m + 1 PROVE g[i] = e(g, i)
    <3>1. CASE i = m + 1
      <4>1. i - 1 = m /\ m \in 0 .. m + 1 /\ m # m + 1 /\ i # 0
        BY <3>1
      <4>2. g[m] = f[m] /\ g[i] = Merge(f[m], windows[order[m + 1]])
        BY <3>1, <4>1
      <4> QED
        BY <3>1, <4>1, <4>2
    <3>2. CASE i = 0
      <4>1. i \in 0 .. m /\ i # m + 1
        BY <3>2
      <4>2. g[i] = f[i] /\ f[i] = <<>>
        BY <2>2, <3>2, <4>1
      <4> QED
        BY <3>2, <4>2
    <3>3. CASE i # 0 /\ i # m + 1
      <4>1. i - 1 \in 0 .. m + 1 /\ i - 1 # m + 1 /\ i \in 0 .. m
        BY <3>3
      <4>2. g[i] = f[i] /\ g[i - 1] = f[i - 1]
        BY <3>3, <4>1
      <4> QED
        BY <2>2, <3>3, <4>1, <4>2
    <3> QED
      BY <3>1, <3>2, <3>3
  <2>4. g = [i \in 0 .. m + 1 |-> e(g, i)]
    <3>1. g = [i \in 0 .. m + 1 |-> g[i]]
      OBVIOUS
    <3> HIDE DEF g, e
    <3> QED
      BY <2>3, <3>1
  <2> HIDE DEF g
  <2> QED
    BY <2>4 DEF Mergings
<1> HIDE DEF Exists
<1>3. \A m \in Nat : m \in P => m + 1 \in P
  BY <1>2
<1>4. 0 \in P /\ (0 + 1) \in P
  BY <1>1, <1>3
<1> HIDE DEF P
<1>5. n > 0 => 1 .. n \subseteq P
  <2>1. 1 \in P
    BY <1>4
  <2> QED
    BY <1>3, <2>1, Positions
<1>6. n \in P
  <2>1. n = 0 \/ (n > 0 /\ n \in 1 .. n)
    OBVIOUS
  <2> QED
    BY <1>4, <1>5, <2>1
<1> QED
  BY <1>6 DEF P, Exists

\* The places of the windows, in the order in which they are merged.
Before(windows, i, j) ==
  \/ windows[i].attackStart < windows[j].attackStart
  \/ windows[i].attackStart = windows[j].attackStart /\ i < j

(* merge_windows merges one window after another, in the order of their    *)
(* attacks.                                                                *)
LEMMA MergeWindowsComputes ==
    ASSUME NEW windows, Len(windows) \in Nat
    PROVE  LET order == Arranged(DOMAIN windows, [j \in DOMAIN windows |-> {i \in DOMAIN windows : Before(windows, i, j)}])
           IN \E f : /\ f[0] = <<>>
                     /\ \A n \in 1 .. Len(windows) : f[n] = Merge(f[n - 1], windows[order[n]])
                     /\ MergeWindows(windows) = f[Len(windows)]
<1> DEFINE S == DOMAIN windows
           below == [j \in S |-> {i \in S : Before(windows, i, j)}]
           order == Ordered(S, LAMBDA i, j : Before(windows, i, j))
           N == Len(windows)
           f == CHOOSE f : Mergings(windows, order, f, N)
           e(h, i) == IF i = 0 THEN <<>> ELSE Merge(h[i - 1], windows[order[i]])
<1>1. order = Arranged(S, below)
  <2>1. \A x \in S : {y \in S : Before(windows, y, x)} = below[x]
    OBVIOUS
  <2>2. order = [n \in 1 .. Cardinality(S) |-> CHOOSE x \in S : Cardinality({y \in S : Before(windows, y, x)}) = n - 1]
    BY DEF Ordered
  <2>3. ASSUME NEW n
        PROVE  (CHOOSE x \in S : Cardinality({y \in S : Before(windows, y, x)}) = n - 1) =
                 CHOOSE x \in S : Rank(below, x) = n - 1
    <3>1. \A x \in S : Rank(below, x) = Cardinality({y \in S : Before(windows, y, x)})
      BY <2>1 DEF Rank
    <3> HIDE DEF below
    <3> QED
      BY <3>1
  <2> QED
    BY <2>2, <2>3 DEF Arranged
<1>2. MergeWindows(windows) = f[N]
  BY DEF MergeWindows, Mergings, Before
<1>3. Mergings(windows, order, f, N)
  <2> HIDE DEF order
  <2> QED
    BY MergingsExist
<1> HIDE DEF f, order
<1>4. f = [i \in 0 .. N |-> e(f, i)]
  BY <1>3 DEF Mergings
<1> HIDE DEF e
<1>5. \A i \in 0 .. N : f[i] = e(f, i)
  BY <1>4
<1>6. f[0] = <<>> 
  <2>1. 0 \in 0 .. N
    OBVIOUS
  <2> QED
    BY <1>5, <2>1 DEF e
<1>7. ASSUME NEW n \in 1 .. N PROVE f[n] = Merge(f[n - 1], windows[order[n]])
  <2>1. n \in 0 .. N /\ n # 0
    OBVIOUS
  <2> QED
    BY <1>5, <2>1 DEF e
<1> QED
  BY <1>1, <1>2, <1>6, <1>7

(* What is merged of windows in order, however many there are.             *)
LEMMA MergesInOrder ==
    ASSUME NEW samples \in Nat, NEW N \in Nat, NEW y, NEW f,
           \A n \in 1 .. N : IsWindow(y[n], samples),
           \A n \in 1 .. N - 1 : y[n].attackStart <= y[n + 1].attackStart,
           f[0] = <<>>,
           \A n \in 1 .. N : f[n] = Merge(f[n - 1], y[n])
    PROVE  Merged(f[N], y, N, samples)
<1> DEFINE Good(n) == Merged(f[n], y, n, samples)
           P == {n \in Nat : Good(n)}
<1>1. Good(0)
  <2>1. <<>> \in Seq({w \in Range(<<>>) : IsWindow(w, samples)}) /\ DOMAIN <<>> = {}
    OBVIOUS
  <2>2. ASSUME NEW q, q = <<>> PROVE Merged(q, y, 0, samples)
    BY <2>1, <2>2 DEF Merged
  <2> QED
    BY <2>2
<1>2. ASSUME NEW n \in 0 .. N - 1, Good(n) PROVE Good(n + 1)
  <2> DEFINE q == f[n]
             w == y[n + 1]
  <2>1. n + 1 \in 1 .. N /\ (n + 1) - 1 = n /\ n \in Nat
    OBVIOUS
  <2>2. \A k \in 1 .. n + 1 : IsWindow(y[k], samples)
    BY <2>1
  <2>3. f[n + 1] = Merge(q, w)
    BY <2>1, <2>2
  <2>4. n > 0 => y[n].attackStart <= w.attackStart
    <3>1. n > 0 => n \in 1 .. N - 1
      OBVIOUS
    <3> QED
      BY <3>1
  <2>5. IsWindow(w, samples)
    BY <2>1
  <2> HIDE DEF q
  <2>6. Merged(q, y, n, samples)
    BY <1>2 DEF q
  <2>7. CASE q = <<>> \/ w.attackStart >= Last(q).releaseEnd
    <3>1. Merge(q, w) = Append(q, w)
      BY <2>7 DEF Merge
    <3>2. Merged(Append(q, w), y, n + 1, samples)
      BY <2>1, <2>4, <2>5, <2>6, <2>7, MergeAppends
    <3> QED
      BY <2>3, <3>1, <3>2
  <2>8. CASE ~(q = <<>> \/ w.attackStart >= Last(q).releaseEnd)
    <3>1. Merge(q, w) = [q EXCEPT ![Len(q)] = Absorb(@, w)]
      BY <2>8 DEF Merge
    <3>2. w.attackStart < Last(q).releaseEnd
      <4>1. IsWindow(q[Len(q)], samples)
        <5>1. q \in Seq({v \in Range(q) : IsWindow(v, samples)}) /\ q # <<>>
          BY <2>6, <2>8 DEF Merged
        <5>2. Len(q) \in DOMAIN q
          BY <5>1
        <5> QED
          BY <5>1, <5>2
      <4>2. w.attackStart \in Nat /\ q[Len(q)].releaseEnd \in Nat
        BY <2>5, <4>1 DEF IsWindow
      <4> QED
        BY <2>8, <4>2 DEF Last
    <3>3. Merged([q EXCEPT ![Len(q)] = Absorb(@, w)], y, n + 1, samples)
      BY <2>1, <2>2, <2>4, <2>6, <2>8, <3>2, MergeAbsorbs
    <3> QED
      BY <2>3, <3>1, <3>3
  <2> QED
    BY <2>7, <2>8
<1> HIDE DEF Good
<1>3. CASE N = 0
  BY <1>1, <1>3 DEF Good
<1>4. CASE N # 0
  <2>1. 1 \in P
    <3>1. 0 \in 0 .. N - 1
      BY <1>4
    <3>2. Good(0 + 1) /\ 0 + 1 = 1
      BY <1>1, <1>2, <3>1
    <3> QED
      BY <3>2
  <2>2. \A i \in 1 .. N - 1 : i \in P => i + 1 \in P
    <3>1. \A i \in 1 .. N - 1 : i \in 0 .. N - 1 /\ i + 1 \in Nat
      OBVIOUS
    <3> QED
      BY <1>2, <3>1
  <2> HIDE DEF P
  <2>3. 1 .. N \subseteq P
    BY <2>1, <2>2, Positions
  <2>4. N \in P
    BY <1>4, <2>3
  <2>5. Good(N)
    BY <2>4 DEF P
  <2> QED
    BY <2>5 DEF Good
<1> QED
  BY ONLY <1>3, <1>4

(* Merged windows lie apart; they envelop all that were merged, and reach  *)
(* no sample that none of those reaches.                                   *)
LEMMA MergesWindows ==
    ASSUME NEW samples \in Nat, NEW windows, windows \in Seq(Range(windows)),
           \A i \in DOMAIN windows : IsWindow(windows[i], samples),
           NEW q, q = MergeWindows(windows)
    PROVE  /\ q \in Seq(Range(q)) /\ \A i \in DOMAIN q : IsWindow(q[i], samples)
           /\ \A i, j \in DOMAIN q : i < j => q[i].releaseEnd <= q[j].attackStart
           /\ \A i \in DOMAIN windows : \E j \in DOMAIN q : Envelops(q[j], windows[i])
           /\ \A j \in DOMAIN q, s \in Nat : Reaches(q[j], s) => \E i \in DOMAIN windows : Reaches(windows[i], s)
<1> DEFINE S == DOMAIN windows
           N == Len(windows)
           below == [j \in S |-> {i \in S : Before(windows, i, j)}]
           order == Arranged(S, below)
           y == [n \in 1 .. N |-> windows[order[n]]]
<1>1. N \in Nat /\ S = 1 .. N /\ IsFiniteSet(S) /\ Cardinality(S) = N
  <2>1. N \in Nat /\ S = 1 .. N
    OBVIOUS
  <2>2. IsFiniteSet(1 .. N) /\ Cardinality(1 .. N) = N
    BY <2>1, FS_Interval
  <2> QED
    BY <2>1, <2>2
<1>2. \A i \in S : windows[i].attackStart \in Nat
  BY DEF IsWindow
<1>3. Precedence(S, below)
  <2>1. \A i, j \in S : i \in below[j] <=> Before(windows, i, j)
    OBVIOUS
  <2>2. below \in [S -> SUBSET S]
    OBVIOUS
  <2> HIDE DEF below
  <2>3. \A x \in S : x \notin below[x]
    BY <1>1, <1>2, <2>1 DEF Before
  <2>4. \A x, y_1, z \in S : Before(windows, z, y_1) /\ Before(windows, y_1, x) => Before(windows, z, x)
    BY <1>1, <1>2 DEF Before
  <2>5. \A x, y_1 \in S : y_1 \in below[x] => below[y_1] \subseteq below[x]
    BY <2>1, <2>2, <2>4
  <2>6. \A x, y_1 \in S : x # y_1 => x \in below[y_1] \/ y_1 \in below[x]
    BY <1>1, <1>2, <2>1 DEF Before
  <2> QED
    BY <2>2, <2>3, <2>5, <2>6 DEF Precedence
<1>4. \A i, j \in S : i \in below[j] => windows[i].attackStart <= windows[j].attackStart
  BY <1>2 DEF Before
<1>5. PICK f : /\ f[0] = <<>>
               /\ \A n \in 1 .. N : f[n] = Merge(f[n - 1], windows[order[n]])
               /\ q = f[N]
  BY <1>1, MergeWindowsComputes
<1> HIDE DEF below
<1>6. /\ order \in [1 .. N -> S] /\ \A x \in S : \E n \in 1 .. N : order[n] = x
      /\ \A m, n \in 1 .. N : m < n <=> order[m] \in below[order[n]]
  BY <1>1, <1>3, OrderedByRank
<1> HIDE DEF order
<1>7. \A n \in 1 .. N : y[n] = windows[order[n]] /\ order[n] \in S
  BY <1>6
<1>8. \A n \in 1 .. N : IsWindow(y[n], samples)
  BY <1>7
<1>9. \A n \in 1 .. N - 1 : y[n].attackStart <= y[n + 1].attackStart
  <2> SUFFICES ASSUME NEW n \in 1 .. N - 1 PROVE y[n].attackStart <= y[n + 1].attackStart
    OBVIOUS
  <2>1. n \in 1 .. N /\ n + 1 \in 1 .. N /\ n < n + 1
    BY <1>1
  <2>2. order[n] \in below[order[n + 1]]
    BY <1>6, <2>1
  <2> QED
    BY <1>4, <1>7, <2>1, <2>2
<1>10. Merged(q, y, N, samples)
  <2>1. \A n \in 1 .. N : f[n] = Merge(f[n - 1], y[n])
    BY <1>5, <1>7
  <2>2. N \in Nat
    BY <1>1
  <2>3. f[0] = <<>> /\ q = f[N]
    BY <1>5
  <2> HIDE DEF y, N
  <2>4. Merged(f[N], y, N, samples)
    BY ONLY samples \in Nat, <1>8, <1>9, <2>1, <2>2, <2>3, MergesInOrder
  <2> QED
    BY <2>3, <2>4
<1>11. q \in Seq(Range(q)) /\ \A i \in DOMAIN q : IsWindow(q[i], samples)
  <2>1. q \in Seq({v \in Range(q) : IsWindow(v, samples)})
    BY <1>10 DEF Merged
  <2> QED
    BY <2>1
<1>12. ASSUME NEW i \in S PROVE \E j \in DOMAIN q : Envelops(q[j], windows[i])
  <2>1. PICK n \in 1 .. N : order[n] = i
    BY <1>6
  <2>2. \E j \in DOMAIN q : Envelops(q[j], y[n])
    BY <1>10 DEF Merged
  <2> QED
    BY <1>7, <2>1, <2>2
<1>13. ASSUME NEW j \in DOMAIN q, NEW s \in Nat, Reaches(q[j], s)
       PROVE  \E i \in S : Reaches(windows[i], s)
  <2>1. PICK n \in 1 .. N : Reaches(y[n], s)
    BY <1>10, <1>13 DEF Merged
  <2> QED
    BY <1>7, <2>1
<1>14. \A i, j \in DOMAIN q : i < j => q[i].releaseEnd <= q[j].attackStart
  BY <1>10 DEF Merged
<1> QED
  BY <1>11, <1>12, <1>13, <1>14

(***************************************************************************)
(* The gain between the windows.                                           *)

(* The segments of a gain.                                                 *)
Gains == [start : Nat, end : Nat, phase : {"Base", "Attack", "Target", "Release"}]

(* Segments that follow each other from sample a to sample b.              *)
Chain(segs, a, b) ==
    /\ segs \in Seq(Gains) /\ a <= b
    /\ \A i \in DOMAIN segs : a <= segs[i].start /\ segs[i].start < segs[i].end /\ segs[i].end <= b
    /\ \A s \in Nat : a <= s /\ s < b => \E i \in DOMAIN segs : Covers(segs[i], s)
    /\ \A i, j \in DOMAIN segs : i < j => segs[i].end <= segs[j].start

(* One segment, or none, is a chain.                                       *)
LEMMA ChainOne ==
    ASSUME NEW a \in Nat, NEW b \in Nat, a <= b,
           NEW phase_1 \in {"Base", "Attack", "Target", "Release"}
    PROVE  Chain(Segment(a, b, phase_1), a, b)
<1>1. CASE a < b
  <2> DEFINE g == [start |-> a, end |-> b, phase |-> phase_1]
  <2>1. Segment(a, b, phase_1) = <<g>>
    BY <1>1 DEF Segment
  <2>2. g \in Gains /\ g.start = a /\ g.end = b
    BY DEF Gains
  <2> HIDE DEF g
  <2>3. <<g>> \in Seq(Gains) /\ DOMAIN <<g>> = 1 .. 1 /\ <<g>>[1] = g
    BY <2>2
  <2>4. \A i \in DOMAIN <<g>> : i = 1
    BY <2>3
  <2>5. \A i, j \in DOMAIN <<g>> : ~(i < j)
    BY <2>4
  <2>6. \A i \in DOMAIN <<g>> : <<g>>[i] = g
    BY <2>3, <2>4
  <2>7. \A s \in Nat : a <= s /\ s < b => Covers(g, s)
    BY <2>2 DEF Covers
  <2> QED
    BY <1>1, <2>1, <2>2, <2>3, <2>5, <2>6, <2>7 DEF Chain
<1>2. CASE ~(a < b)
  <2>1. a = b /\ Segment(a, b, phase_1) = <<>>
    BY <1>2 DEF Segment
  <2>2. <<>> \in Seq(Gains) /\ DOMAIN <<>> = {}
    OBVIOUS
  <2>3. \A s \in Nat : ~(a <= s /\ s < b)
    BY <2>1
  <2> QED
    BY <2>1, <2>2, <2>3 DEF Chain
<1> QED
  BY <1>1, <1>2

(* Two chains that meet are a chain.                                       *)
LEMMA ChainJoin ==
    ASSUME NEW a \in Nat, NEW b \in Nat, NEW c \in Nat, NEW r, NEW t, Chain(r, a, b), Chain(t, b, c)
    PROVE  Chain(r \o t, a, c)
<1> DEFINE u == r \o t
<1>1. r \in Seq(Gains) /\ t \in Seq(Gains) /\ a <= b /\ b <= c
  BY DEF Chain
<1>2. /\ u \in Seq(Gains) /\ DOMAIN u = 1 .. Len(r) + Len(t) /\ Len(r) \in Nat /\ Len(t) \in Nat
      /\ DOMAIN r = 1 .. Len(r) /\ DOMAIN t = 1 .. Len(t)
      /\ \A i \in DOMAIN r : i \in DOMAIN u /\ u[i] = r[i]
      /\ \A i \in DOMAIN t : Len(r) + i \in DOMAIN u /\ u[Len(r) + i] = t[i]
  BY <1>1
<1>3. \A i \in DOMAIN u : i \notin DOMAIN r => i - Len(r) \in DOMAIN t /\ u[i] = t[i - Len(r)]
  <2> SUFFICES ASSUME NEW i \in DOMAIN u, i \notin DOMAIN r
               PROVE  i - Len(r) \in DOMAIN t /\ u[i] = t[i - Len(r)]
    OBVIOUS
  <2>1. i - Len(r) \in DOMAIN t /\ Len(r) + (i - Len(r)) = i
    BY <1>2
  <2> QED
    BY <1>2, <2>1
<1> HIDE DEF u
<1>4. /\ \A i \in DOMAIN r : /\ r[i] \in Gains /\ a <= r[i].start /\ r[i].start < r[i].end /\ r[i].end <= b
                             /\ r[i].start \in Nat /\ r[i].end \in Nat
      /\ \A i \in DOMAIN t : /\ t[i] \in Gains /\ b <= t[i].start /\ t[i].start < t[i].end /\ t[i].end <= c
                             /\ t[i].start \in Nat /\ t[i].end \in Nat
  <2>1. \A i \in DOMAIN r : r[i] \in Gains
    BY <1>1
  <2>2. \A i \in DOMAIN t : t[i] \in Gains
    BY <1>1
  <2>3. \A g \in Gains : g.start \in Nat /\ g.end \in Nat
    BY DEF Gains
  <2> QED
    BY <2>1, <2>2, <2>3 DEF Chain
<1>5. ASSUME NEW i \in DOMAIN u PROVE a <= u[i].start /\ u[i].start < u[i].end /\ u[i].end <= c
  <2>1. CASE i \in DOMAIN r
    BY <1>1, <1>2, <1>4, <2>1
  <2>2. CASE i \notin DOMAIN r
    BY <1>1, <1>3, <1>4, <2>2
  <2> QED
    BY <2>1, <2>2
<1>6. ASSUME NEW s \in Nat, a <= s, s < c PROVE \E i \in DOMAIN u : Covers(u[i], s)
  <2>1. CASE s < b
    <3>1. PICK i \in DOMAIN r : Covers(r[i], s)
      BY <1>6, <2>1 DEF Chain
    <3> QED
      BY <1>2, <3>1
  <2>2. CASE b <= s
    <3>1. PICK i \in DOMAIN t : Covers(t[i], s)
      BY <1>6, <2>2 DEF Chain
    <3> QED
      BY <1>2, <3>1
  <2> QED
    BY <2>1, <2>2
<1>7. ASSUME NEW i \in DOMAIN u, NEW j \in DOMAIN u, i < j PROVE u[i].end <= u[j].start
  <2>1. CASE j \in DOMAIN r
    <3>1. i \in DOMAIN r
      BY <1>2, <1>7, <2>1
    <3>2. r[i].end <= r[j].start
      BY <1>7, <2>1, <3>1 DEF Chain
    <3> QED
      BY <1>2, <2>1, <3>1, <3>2
  <2>2. CASE i \in DOMAIN r /\ j \notin DOMAIN r
    BY <1>2, <1>3, <1>4, <2>2
  <2>3. CASE i \notin DOMAIN r /\ j \notin DOMAIN r
    <3>1. /\ i - Len(r) \in DOMAIN t /\ u[i] = t[i - Len(r)]
          /\ j - Len(r) \in DOMAIN t /\ u[j] = t[j - Len(r)]
      BY <1>3, <2>3
    <3>2. i - Len(r) < j - Len(r)
      BY <1>2, <1>7
    <3>3. t[i - Len(r)].end <= t[j - Len(r)].start
      BY <3>1, <3>2 DEF Chain
    <3> QED
      BY <3>1, <3>3
  <2> QED
    BY <2>1, <2>2, <2>3
<1>8. a <= c
  BY <1>1
<1>9. Chain(u, a, c)
  BY <1>2, <1>5, <1>6, <1>7, <1>8 DEF Chain
<1> QED
  BY <1>9 DEF u

(* A segment stands where its phase belongs.                               *)
Follows(q, g) ==
    \/ /\ g.phase = "Base"
       /\ \A i \in DOMAIN q : g.end <= q[i].attackStart \/ q[i].releaseEnd <= g.start
    \/ \E i \in DOMAIN q :
         \/ g.phase = "Attack" /\ g.start = q[i].attackStart /\ g.end = q[i].voiceStart
         \/ g.phase = "Target" /\ g.start = q[i].voiceStart /\ g.end = q[i].voiceEnd
         \/ g.phase = "Release" /\ g.start = q[i].voiceEnd /\ g.end = q[i].releaseEnd

(* Where the window before window i ends.                                  *)
Gap(q, i) == IF i = 1 THEN 0 ELSE q[i - 1].releaseEnd

(* The segments of one window, from the end of the one before.             *)
GainPart(q, i) ==
  Segment(Gap(q, i), q[i].attackStart, "Base")
  \o Segment(q[i].attackStart, q[i].voiceStart, "Attack")
  \o Segment(q[i].voiceStart, q[i].voiceEnd, "Target")
  \o Segment(q[i].voiceEnd, q[i].releaseEnd, "Release")

(* push_segment yields a segment that stands where its phase belongs.      *)
LEMMA SegmentFollows ==
    ASSUME NEW q, NEW a \in Nat, NEW b \in Nat, NEW phase_1 \in {"Base", "Attack", "Target", "Release"},
           Follows(q, [start |-> a, end |-> b, phase |-> phase_1])
    PROVE  Segment(a, b, phase_1) \in Seq({g \in Gains : Follows(q, g)})
<1> DEFINE g == [start |-> a, end |-> b, phase |-> phase_1]
           G == {h \in Gains : Follows(q, h)}
<1>1. g \in Gains
  BY DEF Gains
<1>2. g \in G
  BY <1>1
<1>3. Segment(a, b, phase_1) = <<g>> \/ Segment(a, b, phase_1) = <<>>
  BY DEF Segment
<1> HIDE DEF g, G
<1>4. <<g>> \in Seq(G) /\ <<>> \in Seq(G)
  BY <1>2
<1> QED
  BY <1>3, <1>4 DEF G

(* Windows of one music that lie apart, in their order.                    *)
Apart(q, samples) ==
    /\ q \in Seq(Range(q)) /\ \A i \in DOMAIN q : IsWindow(q[i], samples)
    /\ \A i, j \in DOMAIN q : i < j => q[i].releaseEnd <= q[j].attackStart

(* How windows that lie apart bound each other.                            *)
LEMMA ApartBounds ==
    ASSUME NEW samples \in Nat, NEW q, Apart(q, samples)
    PROVE  /\ Len(q) \in Nat /\ DOMAIN q = 1 .. Len(q)
           /\ \A i \in DOMAIN q :
                /\ {q[i].attackStart, q[i].voiceStart, q[i].voiceEnd, q[i].releaseEnd} \subseteq Nat
                /\ q[i].attackStart <= q[i].voiceStart /\ q[i].voiceStart < q[i].voiceEnd
                /\ q[i].voiceEnd <= q[i].releaseEnd /\ q[i].releaseEnd <= samples
                /\ q[i].attackStart = q[i].voiceStart => q[i].attackStart = 0
                /\ q[i].voiceEnd = q[i].releaseEnd => q[i].releaseEnd = samples
           /\ \A i \in 1 .. Len(q) + 1 :
                /\ Gap(q, i) \in Nat /\ Gap(q, i) <= samples
                /\ i \in DOMAIN q => Gap(q, i) <= q[i].attackStart
                /\ \A j \in DOMAIN q : j < i => q[j].releaseEnd <= Gap(q, i)
<1>1. Len(q) \in Nat /\ DOMAIN q = 1 .. Len(q)
  BY DEF Apart
<1>2. ASSUME NEW i \in DOMAIN q
      PROVE  /\ {q[i].attackStart, q[i].voiceStart, q[i].voiceEnd, q[i].releaseEnd} \subseteq Nat
             /\ q[i].attackStart <= q[i].voiceStart /\ q[i].voiceStart < q[i].voiceEnd
             /\ q[i].voiceEnd <= q[i].releaseEnd /\ q[i].releaseEnd <= samples
             /\ q[i].attackStart = q[i].voiceStart => q[i].attackStart = 0
             /\ q[i].voiceEnd = q[i].releaseEnd => q[i].releaseEnd = samples
  <2>1. IsWindow(q[i], samples)
    BY DEF Apart
  <2> QED
    BY <2>1, RampLengths DEF IsWindow
<1>3. \A i, j \in DOMAIN q : i < j => q[i].releaseEnd <= q[j].attackStart
  BY DEF Apart
<1>4. ASSUME NEW i \in 1 .. Len(q) + 1
      PROVE  /\ Gap(q, i) \in Nat /\ Gap(q, i) <= samples
             /\ i \in DOMAIN q => Gap(q, i) <= q[i].attackStart
             /\ \A j \in DOMAIN q : j < i => q[j].releaseEnd <= Gap(q, i)
  <2>1. CASE i = 1
    <3>1. Gap(q, i) = 0
      BY <2>1 DEF Gap
    <3>2. \A j \in DOMAIN q : ~(j < i)
      BY <1>1, <2>1
    <3> QED
      BY <1>2, <3>1, <3>2
  <2>2. CASE i # 1
    <3>1. i - 1 \in DOMAIN q /\ Gap(q, i) = q[i - 1].releaseEnd
      BY <1>1, <2>2 DEF Gap
    <3>2. i \in DOMAIN q => q[i - 1].releaseEnd <= q[i].attackStart
      <4>1. i - 1 < i
        OBVIOUS
      <4> QED
        BY <1>3, <3>1, <4>1
    <3>3. ASSUME NEW j \in DOMAIN q, j < i PROVE q[j].releaseEnd <= q[i - 1].releaseEnd
      <4>1. j = i - 1 \/ j < i - 1
        BY <1>1, <3>3
      <4>2. CASE j = i - 1
        BY <1>2, <4>2
      <4>3. CASE j < i - 1
        <5>1. q[j].releaseEnd <= q[i - 1].attackStart
          BY <1>3, <3>1, <4>3
        <5> QED
          BY <1>2, <3>1, <5>1
      <4> QED
        BY <4>1, <4>2, <4>3
    <3> QED
      BY <1>2, <3>1, <3>2, <3>3
  <2> QED
    BY <2>1, <2>2
<1> QED
  BY <1>1, <1>2, <1>4

(* The segments of a window follow each other and belong where they stand. *)
LEMMA GainPartFollows ==
    ASSUME NEW samples \in Nat, NEW q, Apart(q, samples), NEW i \in DOMAIN q
    PROVE  /\ Chain(GainPart(q, i), Gap(q, i), q[i].releaseEnd)
           /\ GainPart(q, i) \in Seq({g \in Gains : Follows(q, g)})
<1> DEFINE c == Gap(q, i)
           a == q[i].attackStart
           v == q[i].voiceStart
           w == q[i].voiceEnd
           r == q[i].releaseEnd
           G == {g \in Gains : Follows(q, g)}
           base == Segment(c, a, "Base")
           attack == Segment(a, v, "Attack")
           target == Segment(v, w, "Target")
           release == Segment(w, r, "Release")
<1>1. /\ c \in Nat /\ a \in Nat /\ v \in Nat /\ w \in Nat /\ r \in Nat
      /\ c <= a /\ a <= v /\ v <= w /\ w <= r
  <2>1. i \in 1 .. Len(q) + 1
    BY ApartBounds
  <2> QED
    BY <2>1, ApartBounds
<1>2. Chain(base, c, a) /\ Chain(attack, a, v) /\ Chain(target, v, w) /\ Chain(release, w, r)
  <2> HIDE DEF c, a, v, w, r
  <2> QED
    BY <1>1, ChainOne
<1>3. Chain(base \o attack \o target \o release, c, r)
  <2> HIDE DEF c, a, v, w, r, base, attack, target, release
  <2>1. Chain(base \o attack, c, v)
    BY <1>1, <1>2, ChainJoin
  <2>2. Chain((base \o attack) \o target, c, w)
    BY <1>1, <1>2, <2>1, ChainJoin
  <2> QED
    BY <1>1, <1>2, <2>2, ChainJoin
<1>4. base \in Seq(G)
  <2> DEFINE g == [start |-> c, end |-> a, phase |-> "Base"]
  <2>1. g.start = c /\ g.end = a /\ g.phase = "Base"
    OBVIOUS
  <2>2. ASSUME NEW j \in DOMAIN q PROVE a <= q[j].attackStart \/ q[j].releaseEnd <= c
    <3>1. i \in Nat /\ j \in Nat /\ i \in 1 .. Len(q) + 1
      BY ApartBounds
    <3>2. CASE j < i
      BY <3>1, <3>2, ApartBounds
    <3>3. CASE j = i
      BY <1>1, <3>3
    <3>4. CASE i < j
      <4>1. r <= q[j].attackStart
        BY <3>4 DEF Apart
      <4>2. q[j].attackStart \in Nat
        BY ApartBounds
      <4> QED
        BY <1>1, <4>1, <4>2
    <3> QED
      BY <3>1, <3>2, <3>3, <3>4
  <2>3. Follows(q, g)
    <3> HIDE DEF c, a, g
    <3> QED
      BY <2>1, <2>2 DEF Follows
  <2> HIDE DEF c, a
  <2> QED
    BY <1>1, <2>3, SegmentFollows
<1>5. attack \in Seq(G)
  <2>1. Follows(q, [start |-> a, end |-> v, phase |-> "Attack"])
    BY DEF Follows
  <2> HIDE DEF a, v
  <2> QED
    BY <1>1, <2>1, SegmentFollows
<1>6. target \in Seq(G)
  <2>1. Follows(q, [start |-> v, end |-> w, phase |-> "Target"])
    BY DEF Follows
  <2> HIDE DEF v, w
  <2> QED
    BY <1>1, <2>1, SegmentFollows
<1>7. release \in Seq(G)
  <2>1. Follows(q, [start |-> w, end |-> r, phase |-> "Release"])
    BY DEF Follows
  <2> HIDE DEF w, r
  <2> QED
    BY <1>1, <2>1, SegmentFollows
<1>8. base \o attack \o target \o release \in Seq(G)
  <2> HIDE DEF base, attack, target, release, G
  <2> QED
    BY <1>4, <1>5, <1>6, <1>7
<1> QED
  BY <1>3, <1>8 DEF GainPart

(* The segments fill the music, each where its phase belongs.              *)
LEMMA GainsFollow ==
    ASSUME NEW samples \in Nat, NEW q, Apart(q, samples), NEW segs, segs = GainSegments(q, samples)
    PROVE  Chain(segs, 0, samples) /\ \A k \in DOMAIN segs : Follows(q, segs[k])
<1> DEFINE N == Len(q)
           G == {g \in Gains : Follows(q, g)}
           parts == [i \in DOMAIN q |-> GainPart(q, i)]
           tail == Segment(Gap(q, N + 1), samples, "Base")
<1>1. segs = FlattenSeq(parts) \o tail
  BY DEF GainSegments, GainPart, Gap
<1>2. N \in Nat /\ DOMAIN q = 1 .. N /\ \A i \in DOMAIN q : i \in 1 .. N + 1
  BY ApartBounds
<1>3. /\ \A i \in 1 .. N + 1 : Gap(q, i) \in Nat /\ Gap(q, i) <= samples
      /\ \A i \in DOMAIN q : q[i].releaseEnd \in Nat
  BY ApartBounds
<1>4. parts \in Seq(Seq(G)) /\ Len(parts) = N
  <2>1. \A i \in DOMAIN q : GainPart(q, i) \in Seq(G)
    BY GainPartFollows
  <2> HIDE DEF G
  <2> QED
    BY <1>2, <2>1
<1>5. tail \in Seq(G)
  <2> DEFINE c == Gap(q, N + 1)
             g == [start |-> c, end |-> samples, phase |-> "Base"]
  <2>1. g.start = c /\ g.end = samples /\ g.phase = "Base" /\ N + 1 \in 1 .. N + 1
    BY <1>2
  <2>2. \A j \in DOMAIN q : q[j].releaseEnd <= c
    <3>1. \A j \in DOMAIN q : j < N + 1
      BY <1>2
    <3> QED
      BY <2>1, <3>1, ApartBounds
  <2>3. c \in Nat
    BY <1>3, <2>1
  <2>4. Follows(q, g)
    <3> HIDE DEF c, g
    <3> QED
      BY <2>1, <2>2 DEF Follows
  <2> HIDE DEF c
  <2>5. Segment(c, samples, "Base") \in Seq({h \in Gains : Follows(q, h)})
    BY <2>3, <2>4, SegmentFollows
  <2> QED
    BY ONLY <2>5 DEF c, tail, G
<1>6. segs \in Seq(G)
  <2>1. FlattenSeq(parts) \in Seq(G)
    <3> HIDE DEF parts, G
    <3> QED
      BY <1>4, FlattenType
  <2> HIDE DEF parts, tail, G
  <2> QED
    BY <1>1, <1>5, <2>1
<1>7. Chain(tail, Gap(q, N + 1), samples)
  <2>1. N + 1 \in 1 .. N + 1
    BY <1>2
  <2>2. Gap(q, N + 1) \in Nat /\ Gap(q, N + 1) <= samples
    BY <1>3, <2>1
  <2> QED
    BY <2>2, ChainOne
<1>8. Chain(FlattenSeq(parts), 0, Gap(q, N + 1))
  <2>1. CASE N = 0
    <3>1. FlattenSeq(parts) = <<>>
      <4>1. parts = <<>>
        BY <1>4, <2>1
      <4>2. FlattenSeq(parts) = parts
        BY <1>4, <2>1 DEF FlattenSeq
      <4> QED
        BY ONLY <4>1, <4>2
    <3>2. Gap(q, N + 1) = 0
      BY <2>1 DEF Gap
    <3>3. <<>> \in Seq(Gains) /\ DOMAIN <<>> = {}
      OBVIOUS
    <3>4. \A s \in Nat : ~(0 <= s /\ s < 0)
      OBVIOUS
    <3>5. Chain(<<>>, 0, 0)
      BY <3>3, <3>4 DEF Chain
    <3> QED
      BY <3>1, <3>2, <3>5
  <2>2. CASE N # 0
    <3>0. Len(parts) \in Nat \ {0} /\ N \in Nat \ {0}
      BY <1>2, <1>4, <2>2
    <3> HIDE DEF parts
    <3>1. PICK f : /\ f[1] = parts[1]
                   /\ \A i \in 2 .. Len(parts) : f[i] = f[i - 1] \o parts[i]
                   /\ FlattenSeq(parts) = f[Len(parts)]
      BY <3>0, Flattens
    <3>2. ASSUME NEW i \in 1 .. N
          PROVE  Chain(parts[i], Gap(q, i), Gap(q, i + 1)) /\ Gap(q, i) \in Nat /\ Gap(q, i + 1) \in Nat
      <4>1. parts[i] = GainPart(q, i)
        BY <1>2 DEF parts
      <4>2. i + 1 # 1 /\ (i + 1) - 1 = i /\ i \in 1 .. N + 1 /\ i + 1 \in 1 .. N + 1
        BY <1>2
      <4>3. Gap(q, i + 1) = q[i].releaseEnd
        BY <4>2 DEF Gap
      <4>4. Chain(GainPart(q, i), Gap(q, i), q[i].releaseEnd)
        BY <1>2, GainPartFollows
      <4> QED
        BY <1>3, <4>1, <4>2, <4>3, <4>4
    <3> DEFINE Good(i) == Chain(f[i], 0, Gap(q, i + 1))
               P == {i \in Nat : Good(i)}
    <3>3. 1 \in P
      <4>1. 1 \in 1 .. N /\ Gap(q, 1) = 0
        BY <3>0 DEF Gap
      <4> QED
        BY <3>1, <3>2, <4>1
    <3>4. ASSUME NEW i \in 1 .. N - 1, Good(i) PROVE Good(i + 1)
      <4>1. i + 1 \in 2 .. N /\ i + 1 \in 1 .. N /\ (i + 1) - 1 = i
        BY <1>2
      <4>2. f[i + 1] = f[i] \o parts[i + 1]
        BY <1>4, <3>1, <4>1
      <4>3. /\ Chain(parts[i + 1], Gap(q, i + 1), Gap(q, (i + 1) + 1))
            /\ Gap(q, i + 1) \in Nat /\ Gap(q, (i + 1) + 1) \in Nat
        BY <3>2, <4>1
      <4>4. Chain(f[i] \o parts[i + 1], 0, Gap(q, (i + 1) + 1))
        BY <3>4, <4>3, ChainJoin
      <4> QED
        BY <4>2, <4>4
    <3> HIDE DEF Good
    <3>5. \A i \in 1 .. N - 1 : i \in P => i + 1 \in P
      BY <3>4
    <3> HIDE DEF P
    <3>6. 1 .. N \subseteq P
      BY ONLY <3>0, <3>3, <3>5, Positions
    <3>7. N \in P
      BY <3>0, <3>6
    <3>8. Good(N)
      BY <3>7 DEF P
    <3>9. FlattenSeq(parts) = f[N]
      BY <1>4, <3>1
    <3> QED
      BY <3>8, <3>9 DEF Good
  <2> QED
    BY <2>1, <2>2
<1>9. Chain(segs, 0, samples)
  <2>1. Gap(q, N + 1) \in Nat
    <3>1. N + 1 \in 1 .. N + 1
      BY <1>2
    <3> QED
      BY <1>3, <3>1
  <2> HIDE DEF parts, tail, N
  <2> QED
    BY <1>1, <1>7, <1>8, <2>1, ChainJoin
<1> QED
  BY <1>6, <1>9

(* Whether the gain is at its target at position p.                        *)
Ducked(q, p) == \E i \in DOMAIN q : q[i].voiceStart <= p /\ p <= q[i].voiceEnd

(* A ramp begins and ends at the gain that its end of the window has.      *)
LEMMA RampsFollow ==
    ASSUME NEW samples \in Nat, NEW q, Apart(q, samples), NEW g \in Gains, Follows(q, g),
           g.start < g.end, g.end <= samples
    PROVE  /\ EndsDucked(g.phase) <=> Ducked(q, g.end)
           /\ StartsDucked(g.phase) <=> Ducked(q, g.start)
<1>1. /\ Len(q) \in Nat /\ DOMAIN q = 1 .. Len(q)
      /\ \A i \in DOMAIN q :
           /\ {q[i].attackStart, q[i].voiceStart, q[i].voiceEnd, q[i].releaseEnd} \subseteq Nat
           /\ q[i].attackStart <= q[i].voiceStart /\ q[i].voiceStart < q[i].voiceEnd
           /\ q[i].voiceEnd <= q[i].releaseEnd /\ q[i].releaseEnd <= samples
           /\ q[i].attackStart = q[i].voiceStart => q[i].attackStart = 0
           /\ q[i].voiceEnd = q[i].releaseEnd => q[i].releaseEnd = samples
  BY ApartBounds
<1>2. g.start \in Nat /\ g.end \in Nat
  BY DEF Gains
<1>3. \A i, j \in DOMAIN q : i # j => q[i].releaseEnd <= q[j].attackStart \/ q[j].releaseEnd <= q[i].attackStart
  <2>1. \A i, j \in DOMAIN q : i # j => i < j \/ j < i
    BY <1>1
  <2> QED
    BY <2>1 DEF Apart
<1>4. CASE g.phase = "Base"
  <2>1. \A i \in DOMAIN q : g.end <= q[i].attackStart \/ q[i].releaseEnd <= g.start
    BY <1>4 DEF Follows
  <2>2. ~EndsDucked(g.phase) /\ ~StartsDucked(g.phase)
    BY <1>4 DEF EndsDucked, StartsDucked
  <2>3. ASSUME NEW i \in DOMAIN q
        PROVE  /\ ~(q[i].voiceStart <= g.end /\ g.end <= q[i].voiceEnd)
               /\ ~(q[i].voiceStart <= g.start /\ g.start <= q[i].voiceEnd)
    BY <1>1, <1>2, <2>1
  <2> QED
    BY <2>2, <2>3 DEF Ducked
<1>5. ASSUME NEW i \in DOMAIN q, g.phase = "Attack", g.start = q[i].attackStart, g.end = q[i].voiceStart
      PROVE  /\ EndsDucked(g.phase) <=> Ducked(q, g.end)
             /\ StartsDucked(g.phase) <=> Ducked(q, g.start)
  <2>1. EndsDucked(g.phase) /\ ~StartsDucked(g.phase)
    BY <1>5 DEF EndsDucked, StartsDucked
  <2>2. q[i].voiceStart <= g.end /\ g.end <= q[i].voiceEnd
    BY <1>1, <1>5
  <2>3. ASSUME NEW j \in DOMAIN q PROVE ~(q[j].voiceStart <= g.start /\ g.start <= q[j].voiceEnd)
    <3>1. CASE i = j
      BY <1>1, <1>5, <3>1
    <3>2. CASE i # j /\ q[i].releaseEnd <= q[j].attackStart
      BY <1>1, <1>5, <3>2
    <3>3. CASE i # j /\ q[j].releaseEnd <= q[i].attackStart
      <4>1. q[j].voiceEnd < q[i].attackStart \/ q[j].voiceEnd = q[j].releaseEnd
        BY <1>1, <3>3
      <4>2. q[i].attackStart < samples
        BY <1>1
      <4> QED
        BY <1>1, <1>5, <3>3, <4>1, <4>2
    <3> QED
      BY <1>3, <3>1, <3>2, <3>3
  <2> QED
    BY <2>1, <2>2, <2>3 DEF Ducked
<1>6. ASSUME NEW i \in DOMAIN q, g.phase = "Target", g.start = q[i].voiceStart, g.end = q[i].voiceEnd
      PROVE  /\ EndsDucked(g.phase) <=> Ducked(q, g.end)
             /\ StartsDucked(g.phase) <=> Ducked(q, g.start)
  <2>1. EndsDucked(g.phase) /\ StartsDucked(g.phase)
    BY <1>6 DEF EndsDucked, StartsDucked
  <2>2. /\ q[i].voiceStart <= g.end /\ g.end <= q[i].voiceEnd
        /\ q[i].voiceStart <= g.start /\ g.start <= q[i].voiceEnd
    BY <1>1, <1>6
  <2> QED
    BY <2>1, <2>2 DEF Ducked
<1>7. ASSUME NEW i \in DOMAIN q, g.phase = "Release", g.start = q[i].voiceEnd, g.end = q[i].releaseEnd
      PROVE  /\ EndsDucked(g.phase) <=> Ducked(q, g.end)
             /\ StartsDucked(g.phase) <=> Ducked(q, g.start)
  <2>1. ~EndsDucked(g.phase) /\ StartsDucked(g.phase)
    BY <1>7 DEF EndsDucked, StartsDucked
  <2>2. q[i].voiceStart <= g.start /\ g.start <= q[i].voiceEnd
    BY <1>1, <1>7
  <2>3. ASSUME NEW j \in DOMAIN q PROVE ~(q[j].voiceStart <= g.end /\ g.end <= q[j].voiceEnd)
    <3>1. CASE i = j
      BY <1>1, <1>7, <3>1
    <3>2. CASE i # j
      BY <1>1, <1>2, <1>3, <1>7, <3>2, SMTT(30)
    <3> QED
      BY <3>1, <3>2
  <2> QED
    BY <2>1, <2>2, <2>3 DEF Ducked
<1> QED
  BY <1>4, <1>5, <1>6, <1>7 DEF Follows

(* The gain of the music at each of its samples.                           *)
Phases(segs, s) == {g.phase : g \in {h \in Range(segs) : h.start <= s /\ s < h.end}}

(* The gain has one phase at a sample: target where a voice is heard, base *)
(* where no window reaches.                                                *)
LEMMA PhasesFollow ==
    ASSUME NEW samples \in Nat, NEW q, Apart(q, samples), NEW segs, segs = GainSegments(q, samples),
           NEW s \in Nat, s < samples
    PROVE  /\ Cardinality(Phases(segs, s)) = 1
           /\ (\E i \in DOMAIN q : q[i].voiceStart <= s /\ s < q[i].voiceEnd) => Phases(segs, s) = {"Target"}
           /\ Phases(segs, s) = {"Base"} <=> \A i \in DOMAIN q : ~Reaches(q[i], s)
<1>1. Chain(segs, 0, samples) /\ \A k \in DOMAIN segs : Follows(q, segs[k])
  BY GainsFollow
<1>2. PICK k \in DOMAIN segs : Covers(segs[k], s)
  <2>1. 0 <= s /\ s < samples
    OBVIOUS
  <2> QED
    BY <1>1, <2>1 DEF Chain
<1>3. /\ segs \in Seq(Gains) /\ DOMAIN segs = 1 .. Len(segs) /\ Len(segs) \in Nat
      /\ \A i \in DOMAIN segs : segs[i].start \in Nat /\ segs[i].end \in Nat /\ segs[i] \in Gains
  <2>1. segs \in Seq(Gains)
    BY <1>1 DEF Chain
  <2>2. \A i \in DOMAIN segs : segs[i] \in Gains
    BY <2>1
  <2> QED
    BY <2>1, <2>2 DEF Gains
<1>4. ASSUME NEW l \in DOMAIN segs, segs[l].start <= s, s < segs[l].end PROVE l = k
  <2>1. \A i, j \in DOMAIN segs : i < j => segs[i].end <= segs[j].start
    BY <1>1 DEF Chain
  <2>2. segs[k].start <= s /\ s < segs[k].end
    BY <1>2 DEF Covers
  <2>3. l < k \/ k < l \/ k = l
    BY <1>3
  <2>4. ~(l < k)
    BY <1>3, <1>4, <2>1, <2>2
  <2>5. ~(k < l)
    BY <1>3, <1>4, <2>1, <2>2
  <2> QED
    BY <2>3, <2>4, <2>5
<1> DEFINE g == segs[k]
<1>5. g \in Gains /\ g.start <= s /\ s < g.end /\ g.start \in Nat /\ g.end \in Nat /\ g.phase \in {"Base", "Attack", "Target", "Release"}
  <2>1. g.start <= s /\ s < g.end
    BY <1>2 DEF Covers
  <2> QED
    BY <1>3, <2>1 DEF Gains
<1>6. Phases(segs, s) = {g.phase}
  <2>1. {h \in Range(segs) : h.start <= s /\ s < h.end} = {g}
    <3>1. \A h \in Range(segs) : h.start <= s /\ s < h.end => h = g
      BY <1>4 DEF Range
    <3>2. g \in Range(segs)
      BY DEF Range
    <3> QED
      BY <1>5, <3>1, <3>2
  <2> QED
    BY <2>1 DEF Phases
<1>7. Follows(q, g)
  BY <1>1
<1> HIDE DEF g
<1>8. /\ Len(q) \in Nat /\ DOMAIN q = 1 .. Len(q)
      /\ \A i \in DOMAIN q :
           /\ {q[i].attackStart, q[i].voiceStart, q[i].voiceEnd, q[i].releaseEnd} \subseteq Nat
           /\ q[i].attackStart <= q[i].voiceStart /\ q[i].voiceStart < q[i].voiceEnd
           /\ q[i].voiceEnd <= q[i].releaseEnd
  BY ApartBounds
<1>9. \A i, j \in DOMAIN q : i # j => q[i].releaseEnd <= q[j].attackStart \/ q[j].releaseEnd <= q[i].attackStart
  <2>1. \A i, j \in DOMAIN q : i # j => i < j \/ j < i
    BY <1>8
  <2> QED
    BY <2>1 DEF Apart
<1>10. g.phase = "Base" => \A i \in DOMAIN q : ~Reaches(q[i], s)
  <2> SUFFICES ASSUME g.phase = "Base", NEW i \in DOMAIN q PROVE ~Reaches(q[i], s)
    OBVIOUS
  <2>1. g.end <= q[i].attackStart \/ q[i].releaseEnd <= g.start
    BY <1>7 DEF Follows
  <2> QED
    BY <1>5, <1>8, <2>1 DEF Reaches
<1>11. g.phase # "Base" => \E i \in DOMAIN q :
          /\ Reaches(q[i], s)
          /\ q[i].voiceStart <= s /\ s < q[i].voiceEnd => g.phase = "Target"
  <2>1. ASSUME g.phase # "Base"
        PROVE  \E i \in DOMAIN q : /\ Reaches(q[i], s)
                                   /\ q[i].voiceStart <= s /\ s < q[i].voiceEnd => g.phase = "Target"
    <3>1. PICK i \in DOMAIN q :
             \/ g.phase = "Attack" /\ g.start = q[i].attackStart /\ g.end = q[i].voiceStart
             \/ g.phase = "Target" /\ g.start = q[i].voiceStart /\ g.end = q[i].voiceEnd
             \/ g.phase = "Release" /\ g.start = q[i].voiceEnd /\ g.end = q[i].releaseEnd
      BY <1>7, <2>1 DEF Follows
    <3>2. Reaches(q[i], s)
      BY <1>5, <1>8, <3>1 DEF Reaches
    <3>3. q[i].voiceStart <= s /\ s < q[i].voiceEnd => g.phase = "Target"
      BY <1>5, <1>8, <3>1
    <3> QED
      BY <3>2, <3>3
  <2> QED
    BY <2>1
<1>12. ASSUME NEW i \in DOMAIN q, q[i].voiceStart <= s, s < q[i].voiceEnd PROVE g.phase = "Target"
  <2>1. Reaches(q[i], s)
    BY <1>8, <1>12 DEF Reaches
  <2>2. PICK j \in DOMAIN q : /\ Reaches(q[j], s)
                              /\ q[j].voiceStart <= s /\ s < q[j].voiceEnd => g.phase = "Target"
    BY <1>10, <1>11, <2>1
  <2>3. i = j
    BY <1>8, <1>9, <2>1, <2>2, SMTT(30) DEF Reaches
  <2> QED
    BY <1>12, <2>2, <2>3
<1>13. Cardinality({g.phase}) = 1
  BY FS_Singleton
<1> QED
  BY <1>6, <1>10, <1>11, <1>12, <1>13

(* Where a segment ends its ramp, the next one begins.                     *)
LEMMA RampsMeet ==
    ASSUME NEW samples \in Nat, NEW q, Apart(q, samples), NEW segs, segs = GainSegments(q, samples),
           NEW n \in 1 .. Len(segs) - 1
    PROVE  EndsDucked(segs[n].phase) <=> StartsDucked(segs[n + 1].phase)
<1>1. Chain(segs, 0, samples) /\ \A k \in DOMAIN segs : Follows(q, segs[k])
  BY GainsFollow
<1>2. segs \in Seq(Gains) /\ DOMAIN segs = 1 .. Len(segs) /\ Len(segs) \in Nat
  BY <1>1 DEF Chain
<1>3. n \in DOMAIN segs /\ n + 1 \in DOMAIN segs /\ n < n + 1
  BY <1>2
<1>4. \A i \in DOMAIN segs : /\ segs[i] \in Gains /\ segs[i].start \in Nat /\ segs[i].end \in Nat
                             /\ segs[i].start < segs[i].end /\ segs[i].end <= samples
  <2>1. \A i \in DOMAIN segs : segs[i] \in Gains
    BY <1>2
  <2>2. \A g \in Gains : g.start \in Nat /\ g.end \in Nat
    BY DEF Gains
  <2> QED
    BY <1>1, <2>1, <2>2 DEF Chain
<1>5. \A i, j \in DOMAIN segs : i < j => segs[i].end <= segs[j].start
  BY <1>1 DEF Chain
<1>6. segs[n].end = segs[n + 1].start
  <2> DEFINE s == segs[n].end
  <2>1. SUFFICES ASSUME s < segs[n + 1].start PROVE FALSE
    BY <1>3, <1>4, <1>5
  <2>2. s \in Nat /\ 0 <= s /\ s < samples
    <3>1. segs[n + 1].start < segs[n + 1].end /\ segs[n + 1].end <= samples
      BY <1>3, <1>4
    <3> QED
      BY <1>3, <1>4, <2>1, <3>1
  <2>3. PICK k \in DOMAIN segs : Covers(segs[k], s)
    BY <1>1, <2>2 DEF Chain
  <2>4. segs[k].start <= s /\ s < segs[k].end
    BY <2>3 DEF Covers
  <2>5. k < n \/ k = n \/ k = n + 1 \/ n + 1 < k
    BY <1>2
  <2>6. CASE k < n
    <3>1. segs[k].end <= segs[n].start /\ segs[n].start < segs[n].end
      BY <1>3, <1>4, <1>5, <2>6
    <3> QED
      BY <1>3, <1>4, <2>4, <3>1
  <2>7. CASE k = n
    BY <1>3, <1>4, <2>4, <2>7
  <2>8. CASE k = n + 1
    BY <1>3, <1>4, <2>1, <2>4, <2>8
  <2>9. CASE n + 1 < k
    <3>1. segs[n + 1].end <= segs[k].start /\ segs[n + 1].start < segs[n + 1].end
      BY <1>3, <1>4, <1>5, <2>9
    <3> QED
      BY <1>3, <1>4, <2>1, <2>4, <3>1
  <2> QED
    BY <2>5, <2>6, <2>7, <2>8, <2>9
<1>7. EndsDucked(segs[n].phase) <=> Ducked(q, segs[n].end)
  BY <1>1, <1>3, <1>4, RampsFollow
<1>8. StartsDucked(segs[n + 1].phase) <=> Ducked(q, segs[n + 1].start)
  BY <1>1, <1>3, <1>4, RampsFollow
<1> QED
  BY <1>6, <1>7, <1>8

(***************************************************************************)
(* What sounds in a film.                                                  *)

(* A lowered sequence holds what its elements become, and no more.         *)
LEMMA LoweredRange ==
    ASSUME NEW elements, elements \in Seq(Range(elements)), NEW lower,
           \A e \in DOMAIN lower : lower[e] = {} \/ \E x : lower[e] = {x}
    PROVE  Range(Lowered(elements, lower)) = UNION {lower[e] : e \in Range(elements) \cap DOMAIN lower}
<1> DEFINE S == UNION {lower[e] : e \in DOMAIN lower}
           part(i) == IF elements[i] \in DOMAIN lower THEN SetToSeq(lower[elements[i]]) ELSE <<>>
           parts == [i \in DOMAIN elements |-> part(i)]
<1>0. \A e \in DOMAIN lower : lower[e] = {} \/ \E x \in S : lower[e] = {x}
  OBVIOUS
<1> HIDE DEF S
<1>1. ASSUME NEW i \in DOMAIN elements
      PROVE  /\ part(i) \in Seq(S)
             /\ elements[i] \in DOMAIN lower => Range(part(i)) = lower[elements[i]]
             /\ elements[i] \notin DOMAIN lower => Range(part(i)) = {}
  <2>1. \A x : Range(<<x>>) = {x}
    BY DEF Range
  <2>2. Range(<<>>) = {}
    BY DEF Range
  <2>3. \A x \in S : <<x>> \in Seq(S)
    OBVIOUS
  <2>4. CASE elements[i] \notin DOMAIN lower
    BY <2>2, <2>4
  <2>5. CASE elements[i] \in DOMAIN lower /\ lower[elements[i]] = {}
    <3>1. part(i) = <<>>
      BY <2>5, EmptySequence, Zenon
    <3> HIDE DEF part
    <3> QED
      BY <2>2, <2>5, <3>1
  <2>6. ASSUME NEW x \in S, elements[i] \in DOMAIN lower, lower[elements[i]] = {x}
        PROVE  part(i) \in Seq(S) /\ Range(part(i)) = lower[elements[i]]
    <3>1. part(i) = <<x>>
      BY <2>6, SingleSequence
    <3> HIDE DEF part
    <3> QED
      BY <2>1, <2>3, <2>6, <3>1
  <2> QED
    BY <1>0, <2>4, <2>5, <2>6
<1> HIDE DEF part
<1>2. DOMAIN elements = 1 .. Len(elements) /\ Len(elements) \in Nat
  OBVIOUS
<1>3. parts \in Seq(Seq(S)) /\ DOMAIN parts = DOMAIN elements
  BY <1>1, <1>2
<1>4. Range(FlattenSeq(parts)) = UNION {Range(parts[i]) : i \in DOMAIN parts}
  BY <1>3, FlattenRange
<1>5. UNION {Range(parts[i]) : i \in DOMAIN parts}
        = UNION {lower[e] : e \in Range(elements) \cap DOMAIN lower}
  <2>1. \A i \in DOMAIN elements : parts[i] = part(i)
    OBVIOUS
  <2> HIDE DEF parts
  <2>2. ASSUME NEW i \in DOMAIN parts, NEW x \in Range(parts[i])
        PROVE  \E e \in Range(elements) \cap DOMAIN lower : x \in lower[e]
    <3>1. i \in DOMAIN elements /\ x \in Range(part(i))
      BY <1>3, <2>1, <2>2
    <3>2. elements[i] \in DOMAIN lower /\ x \in lower[elements[i]]
      BY <1>1, <3>1
    <3>3. elements[i] \in Range(elements)
      BY <3>1 DEF Range
    <3> QED
      BY <3>2, <3>3
  <2>3. ASSUME NEW e \in Range(elements) \cap DOMAIN lower, NEW x \in lower[e]
        PROVE  \E i \in DOMAIN parts : x \in Range(parts[i])
    <3>1. PICK i \in DOMAIN elements : elements[i] = e
      BY DEF Range
    <3>2. x \in Range(part(i))
      BY <1>1, <2>3, <3>1
    <3> QED
      BY <1>3, <2>1, <3>1, <3>2
  <2> QED
    BY <2>2, <2>3
<1> QED
  BY <1>4, <1>5 DEF Lowered, part

(* Everything that is spoken.                                              *)
Spoken(line) == UNION {VoiceOvers(line[i]) : i \in DOMAIN line}

(* Music gives way to all that is spoken.                                  *)
LEMMA SpokenIntervals ==
    ASSUME Laid(shots)
    PROVE  VoiceIntervals \in Seq(Spoken(shots)) /\ Range(VoiceIntervals) = Spoken(shots)
<1> DEFINE said(i) == {c \in Range(shots[i].content) : c.kind = "voice"}
           lower(i) == [c \in said(i) |-> {c.at}]
           part(i) == Lowered(shots[i].content, lower(i))
           parts == [i \in DOMAIN shots |-> part(i)]
<1>1. ASSUME NEW i \in DOMAIN shots
      PROVE  part(i) \in Seq(Spoken(shots)) /\ Range(part(i)) = VoiceOvers(shots[i])
  <2>1. shots[i].content \in Seq(Range(shots[i].content))
    BY DEF Laid, IsShot
  <2>2. \A c \in said(i) : c.at \in VoiceOvers(shots[i])
    BY DEF VoiceOvers
  <2>3. VoiceOvers(shots[i]) \subseteq Spoken(shots)
    BY DEF Spoken
  <2>4. DOMAIN lower(i) = said(i) /\ \A c \in said(i) : lower(i)[c] = {c.at}
    OBVIOUS
  <2>5. \A c \in DOMAIN lower(i) : lower(i)[c] = {} \/ \E x \in Spoken(shots) : lower(i)[c] = {x}
    BY <2>2, <2>3, <2>4
  <2>9. \A c \in DOMAIN lower(i) : lower(i)[c] = {} \/ \E x : lower(i)[c] = {x}
    BY <2>5
  <2>6. UNION {lower(i)[e] : e \in Range(shots[i].content) \cap DOMAIN lower(i)} = VoiceOvers(shots[i])
    <3>1. Range(shots[i].content) \cap DOMAIN lower(i) = said(i)
      OBVIOUS
    <3>2. UNION {lower(i)[e] : e \in said(i)} = {c.at : c \in said(i)}
      BY <2>4, ZenonT(30)
    <3> QED
      BY <3>1, <3>2 DEF VoiceOvers
  <2> HIDE DEF lower, said
  <2>7. part(i) \in Seq(Spoken(shots))
    BY ONLY <2>1, <2>5, LoweredType
  <2>8. Range(part(i)) = UNION {lower(i)[e] : e \in Range(shots[i].content) \cap DOMAIN lower(i)}
    BY ONLY <2>1, <2>9, LoweredRange
  <2> QED
    BY <2>6, <2>7, <2>8
<1>2. VoiceIntervals = FlattenSeq(parts)
  BY DEF VoiceIntervals
<1> HIDE DEF part
<1>3. parts \in Seq(Seq(Spoken(shots))) /\ DOMAIN parts = DOMAIN shots /\ \A i \in DOMAIN shots : parts[i] = part(i)
  <2>1. DOMAIN shots = 1 .. Len(shots) /\ Len(shots) \in Nat
    BY DEF Laid
  <2> QED
    BY <1>1, <2>1
<1> HIDE DEF parts
<1>4. FlattenSeq(parts) \in Seq(Spoken(shots)) /\ Range(FlattenSeq(parts)) = UNION {Range(parts[i]) : i \in DOMAIN parts}
  BY <1>3, FlattenRange
<1>5. UNION {Range(parts[i]) : i \in DOMAIN parts} = Spoken(shots)
  BY <1>1, <1>3 DEF Spoken
<1> QED
  BY <1>2, <1>4, <1>5

(* What can be heard, between its fades.                                   *)
Heard(x) == x.fadeIn \in Nat /\ x.fadeOut \in Nat /\ FadesFit(x, x.at)

(* Music of a film plays from its beginning, and gives way to all voices.  *)
IsMusic(f, m) ==
    /\ m.kind = "music" /\ Heard(m) /\ m.at = Interval(0, m.at.end) /\ m.at.end \in 0 .. f.end
    /\ m.ducked \in Seq(Range(m.ducked))
    /\ m.target # {} => Range(m.ducked) = UNION {Intersection(m.at, v) : v \in Spoken(f.shots)}

(* Every voice-over that the solver placed has fades that fit.             *)
Voiced == \A i \in DOMAIN shots : \A x \in Range(shots[i].content) : x.kind = "voice" => Heard(x)

(* So has every effect, which ends before the cursor until that is lost.   *)
Effected == \A e \in Range(effects) : e.kind = "effect" /\ Heard(e) /\ (~lost => e.at.end <= cursor)

(* And the music of a film.                                                *)
Scored == \A f \in film : f.music \in Seq(Range(f.music)) /\ \A m \in Range(f.music) : IsMusic(f, m)

(* The invariant.                                                          *)
Audible == Voiced /\ Effected /\ Scored

(* What music becomes.                                                     *)
LEMMA LoweredMusic ==
    ASSUME Laid(shots), NEW end \in Nat, NEW music, IsMedia(music), music.kind = "music",
           MusicFaults(music, end) = {}, NEW f, f.end = end, f.shots = shots
    PROVE  \E m : IsMusic(f, m) /\ LowerMusic(music, end) = {m}
<1> DEFINE at == MusicInterval(music, end)
           voices == IF music.target # {} THEN VoiceIntervals ELSE <<>>
           lower == [v \in Range(voices) |-> Intersection(at, v)]
           ducked == Lowered(voices, lower)
           m == [kind |-> music.kind, at |-> at, asset |-> music.asset, gain |-> music.gain,
                 fadeIn |-> music.fadeIn, fadeOut |-> music.fadeOut, target |-> music.target,
                 ducked |-> ducked]
<1>2. LowerMusic(music, end) = {m}
  BY DEF LowerMusic
<1> HIDE DEF ducked
<1>3. /\ m.kind = "music" /\ m.at = at /\ m.fadeIn = music.fadeIn /\ m.fadeOut = music.fadeOut
      /\ m.target = music.target /\ m.ducked = ducked
  OBVIOUS
<1>4. at = Interval(0, at.end) /\ at.end \in 0 .. end
  BY DEF MusicInterval, Interval, IsMedia
<1>5. FadesFit(music, at) /\ music.fadeIn \in Nat /\ music.fadeOut \in Nat
  BY DEF MusicFaults, Report, IsMedia
<1>6. VoiceIntervals \in Seq(Spoken(shots)) /\ Range(VoiceIntervals) = Spoken(shots)
  BY SpokenIntervals
<1>7. voices \in Seq(Spoken(shots)) /\ Range(voices) = IF music.target # {} THEN Spoken(shots) ELSE {}
  BY <1>6 DEF Range
<1> DEFINE S == UNION {Intersection(at, v) : v \in Range(voices)}
<1>8. \A v \in DOMAIN lower : lower[v] = {} \/ \E x \in S : lower[v] = {x}
  BY DEF Intersection
<1>9. Range(voices) \cap DOMAIN lower = Range(voices) /\ \A v \in Range(voices) : lower[v] = Intersection(at, v)
  OBVIOUS
<1> HIDE DEF lower, S, at, voices
<1>10. ducked \in Seq(S)
  BY <1>7, <1>8, LoweredType DEF ducked
<1>11. Range(ducked) = UNION {lower[v] : v \in Range(voices) \cap DOMAIN lower}
  <2>1. voices \in Seq(Range(voices))
    BY <1>7 DEF Range
  <2> QED
    BY <1>8, <2>1, LoweredRange DEF ducked
<1>12. Range(ducked) = S
  BY <1>9, <1>11 DEF S
<1>13. ducked \in Seq(Range(ducked))
  BY <1>10, <1>12
<1>14. music.target # {} => Range(ducked) = UNION {Intersection(at, v) : v \in Spoken(f.shots)}
  BY <1>7, <1>12 DEF S
<1> HIDE DEF m
<1>15. IsMusic(f, m)
  <2>1. Heard(m)
    BY <1>3, <1>5 DEF Heard, FadesFit
  <2> QED
    BY <1>3, <1>4, <1>13, <1>14, <2>1 DEF IsMusic
<1> QED
  BY <1>2, <1>15

(* Nothing can be heard at first.                                          *)
LEMMA AudibleInitial == Init => Audible
<1> SUFFICES ASSUME Init PROVE Audible
  OBVIOUS
<1>1. shots = <<>> /\ effects = <<>> /\ film = {}
  BY DEF Init, SolveInit
<1>2. DOMAIN <<>> = {} /\ Range(<<>>) = {}
  BY DEF Range
<1> QED
  BY <1>1, <1>2 DEF Audible, Voiced, Effected, Scored

(* Steps that leave the sounds alone.                                      *)
LEMMA AudibleWaits ==
    ASSUME Audible, UNCHANGED <<shots, effects, film>>, lost' \/ UNCHANGED <<cursor, lost>>
    PROVE  Audible'
  BY DEF Audible, Voiced, Effected, Scored

(* A placed voice-over is heard between its fades.                         *)
LEMMA PlacedVoices ==
    ASSUME TInv, phase = "shots", ~lost,
           NEW authored \in AuthoredShots, NEW d \in ShotDuration(authored)
    PROVE  \A x \in Range(ShotOf(authored, d).content) : x.kind = "voice" => Heard(x)
<1> DEFINE S == {x \in UNION {ContentAt(authored, d)[c] : c \in Usable(authored)} :
                   x.kind = "voice" => Heard(x)}
<1>1. Start(authored, d) \in Nat /\ IsOptional(events, Nat)
  <2>1. /\ Laid(shots) /\ AtEnd /\ cursor \in 0 .. MaxFrame /\ IsOptional(events, 0 .. MaxFrame)
        /\ d \in Nat
    BY DurationBounds DEF TInv, Line, Control
  <2>2. Start(authored, d) \in 0 .. MaxFrame
    BY <2>1, StartOfShot
  <2> QED
    BY <2>1, <2>2 DEF IsOptional
<1>2. ASSUME NEW c \in Usable(authored), NEW x \in LowerContent(c, ShotAt(authored, d)), x.kind = "voice"
      PROVE  Heard(x)
  <2> DEFINE shot == ShotAt(authored, d)
  <2>1. x.kind = c.kind /\ x.fadeIn = c.fadeIn /\ x.fadeOut = c.fadeOut
    BY <1>2 DEF LowerContent, Placed
  <2>2. c.kind = "voice" /\ IsPrimary(c)
    BY <1>2, <2>1 DEF IsPrimary
  <2>3. ContentFaults(c, shot) = {}
    <3>1. ContentFaults(c, shot) # {} => LowerContent(c, shot) = {}
      BY DEF LowerContent, Placed
    <3> QED
      BY <1>2, <3>1
  <2>4. x.at = MediaInterval(c, shot)
    BY <1>2, <2>2, <2>3 DEF LowerContent, Placed
  <2>5. FadesFit(c, MediaInterval(c, shot))
    BY <2>2, <2>3 DEF ContentFaults, Report
  <2>6. c.fadeIn \in Nat /\ c.fadeOut \in Nat
    BY AuthoredAssumption DEF Usable, IsMedia
  <2> QED
    BY <2>1, <2>4, <2>5, <2>6 DEF Heard, FadesFit
<1>3. \A c \in DOMAIN ContentAt(authored, d) :
        ContentAt(authored, d)[c] = {} \/ \E x \in S : ContentAt(authored, d)[c] = {x}
  <2> SUFFICES ASSUME NEW c \in Usable(authored), ContentAt(authored, d)[c] # {}
               PROVE  \E x \in S : ContentAt(authored, d)[c] = {x}
    BY DEF ContentAt
  <2>1. ContentAt(authored, d)[c] = LowerContent(c, ShotAt(authored, d))
    BY DEF ContentAt
  <2>2. PICK x : LowerContent(c, ShotAt(authored, d)) = {x}
    BY <1>1, <2>1, LoweredContent DEF ShotAt
  <2>3. x.kind = "voice" => Heard(x)
    BY <1>2, <2>2
  <2>4. x \in S
    BY <2>1, <2>2, <2>3
  <2> QED
    BY <2>1, <2>2, <2>4
<1>4. \A x \in S : x.kind = "voice" => Heard(x)
  OBVIOUS
<1>5. authored.content \in Seq(Range(authored.content))
  BY AuthoredAssumption
<1> HIDE DEF S
<1>6. Lowered(authored.content, ContentAt(authored, d)) \in Seq(S)
  BY ONLY <1>3, <1>5, LoweredType
<1>7. ShotOf(authored, d).content = Lowered(authored.content, ContentAt(authored, d))
  BY DEF ShotOf
<1> QED
  BY <1>4, <1>6, <1>7 DEF Range

(* A placed effect is heard between its fades, and ends with its shot.     *)
LEMMA PlacedEffects ==
    ASSUME TInv, phase = "shots", ~lost,
           NEW authored \in AuthoredShots, NEW d \in ShotDuration(authored),
           Start(authored, d) + d <= MaxFrame,
           NEW new, new = Lowered(authored.effects, EffectsAt(authored, d))
    PROVE  /\ new \in Seq(Range(new))
           /\ \A x \in Range(new) : x.kind = "effect" /\ Heard(x) /\ x.at.end <= Start(authored, d) + d
<1> DEFINE at == ShotAt(authored, d)
           lower == EffectsAt(authored, d)
           T == {x \in UNION {lower[e] : e \in DOMAIN lower} :
                   x.kind = "effect" /\ Heard(x) /\ x.at.end <= Start(authored, d) + d}
<1>1. at.start \in Nat /\ at.end \in 0 .. MaxFrame /\ at.end = Start(authored, d) + d
  <2>1. /\ Laid(shots) /\ AtEnd /\ cursor \in 0 .. MaxFrame /\ d \in Nat
    BY DurationBounds DEF TInv, Line, Control
  <2>2. Start(authored, d) \in 0 .. MaxFrame
    BY <2>1, StartOfShot
  <2>3. at.start = Start(authored, d) /\ at.end = Start(authored, d) + d
    BY DEF ShotAt, Interval
  <2> HIDE DEF at
  <2> QED
    BY <2>1, <2>2, <2>3, SolveAssumption
<1>2. ASSUME NEW e \in Range(authored.effects), MediaFaults(e) = {}, LowerEffect(e, at) # {}
      PROVE  \E x : /\ x.kind = "effect" /\ Heard(x) /\ x.at.end <= Start(authored, d) + d
                    /\ LowerEffect(e, at) = {x}
  <2>1. PICK x : LowerEffect(e, at) = {x}
    BY <1>1, <1>2, LoweredEffect
  <2>2. EffectFaults(e, at) = {}
    <3>1. EffectFaults(e, at) # {} => LowerEffect(e, at) = {}
      BY DEF LowerEffect, Placed
    <3> QED
      BY <1>2, <3>1
  <2>3. x \in Placed(e, {MediaInterval(e, at)})
    BY <2>1, <2>2 DEF LowerEffect
  <2>4. x.kind = e.kind /\ x.at = MediaInterval(e, at) /\ x.fadeIn = e.fadeIn /\ x.fadeOut = e.fadeOut
    BY <2>3 DEF Placed
  <2>5. IsMedia(e) /\ e.kind = "effect"
    BY AuthoredAssumption
  <2> HIDE DEF at
  <2>6. FadesFit(e, MediaInterval(e, at)) /\ ContainsInterval(at, MediaInterval(e, at))
    BY <2>2 DEF EffectFaults, Report
  <2>7. Heard(x)
    BY <2>4, <2>5, <2>6 DEF Heard, FadesFit, IsMedia
  <2>8. x.at.end <= at.end
    BY <2>4, <2>6 DEF ContainsInterval
  <2> QED
    BY <1>1, <2>1, <2>4, <2>5, <2>7, <2>8
<1>3. \A e \in DOMAIN lower : lower[e] = {} \/ \E x \in T : lower[e] = {x}
  <2>1. \A e \in DOMAIN lower : e \in Range(authored.effects) /\ MediaFaults(e) = {} /\ lower[e] = LowerEffect(e, at)
    BY DEF EffectsAt
  <2> SUFFICES ASSUME NEW e \in DOMAIN lower, lower[e] # {} PROVE \E x \in T : lower[e] = {x}
    OBVIOUS
  <2> HIDE DEF lower, at
  <2>2. PICK x : /\ x.kind = "effect" /\ Heard(x) /\ x.at.end <= Start(authored, d) + d
                 /\ lower[e] = {x}
    BY <1>2, <2>1
  <2>3. x \in T
    BY <2>2
  <2> QED
    BY <2>2, <2>3
<1>4. authored.effects \in Seq(Range(authored.effects))
  BY AuthoredAssumption
<1>6. \A x \in T : x.kind = "effect" /\ Heard(x) /\ x.at.end <= Start(authored, d) + d
  OBVIOUS
<1> HIDE DEF lower, T
<1>5. Lowered(authored.effects, lower) \in Seq(T)
  BY ONLY <1>3, <1>4, LoweredType
<1>7. new \in Seq(T)
  BY <1>5 DEF lower
<1> QED
  BY <1>6, <1>7 DEF Range

(* A placed shot sounds in its frames.                                     *)
LEMMA AudiblePlace ==
    ASSUME TInv, Audible, NEW authored \in AuthoredShots, PlaceShot(authored)
    PROVE  Audible'
<1>1. phase = "shots" /\ ~lost /\ UNCHANGED <<lost, film>>
  BY DEF PlaceShot, Authored
<1>2. PICK d \in ShotDuration(authored) :
        /\ Start(authored, d) + d <= MaxFrame
        /\ cursor' = Start(authored, d) + d
        /\ shots' = Append(shots, ShotOf(authored, d))
        /\ effects' = effects \o Lowered(authored.effects, EffectsAt(authored, d))
  BY PlacesAShot
<1> DEFINE s == ShotOf(authored, d)
           end == Start(authored, d) + d
           new == Lowered(authored.effects, EffectsAt(authored, d))
<1>3. Voiced'
  <2>1. \A x \in Range(s.content) : x.kind = "voice" => Heard(x)
    BY <1>1, PlacedVoices
  <2>2. Laid(shots)
    BY DEF TInv, Line
  <2> HIDE DEF s
  <2>3. /\ DOMAIN shots = 1 .. Len(shots) /\ DOMAIN shots' = 1 .. Len(shots) + 1
        /\ \A i \in 1 .. Len(shots) : shots'[i] = shots[i]
        /\ shots'[Len(shots) + 1] = s
        /\ \A i \in 1 .. Len(shots) + 1 : i \in 1 .. Len(shots) \/ i = Len(shots) + 1
    BY <1>2, <2>2, AppendedSequence DEF Laid, s
  <2> QED
    BY <2>1, <2>3 DEF Audible, Voiced
<1>4. Effected'
  <2>1. new \in Seq(Range(new)) /\ \A x \in Range(new) : x.kind = "effect" /\ Heard(x) /\ x.at.end <= end
    BY <1>1, <1>2, PlacedEffects
  <2>2. effects \in Seq(Range(effects)) /\ \A e \in Range(effects) : e.at \in Intervals(0 .. MaxFrame)
    BY DEF TInv, Sounding
  <2>3. \A e \in Range(effects) : e.kind = "effect" /\ Heard(e) /\ e.at.end <= cursor /\ e.at.end \in Nat
    BY <1>1, <2>2 DEF Audible, Effected, Intervals
  <2>4. cursor \in Nat /\ end \in Nat /\ cursor <= end
    <3>1. /\ Laid(shots) /\ AtEnd /\ cursor \in 0 .. MaxFrame /\ d \in Nat
      BY <1>1, DurationBounds DEF TInv, Line, Control
    <3>2. Start(authored, d) \in 0 .. MaxFrame /\ cursor <= Start(authored, d) + d
      BY <3>1, StartOfShot
    <3> QED
      BY <3>1, <3>2
  <2> HIDE DEF new, end
  <2>5. effects' = effects \o new /\ cursor' = end
    BY <1>2 DEF new, end
  <2>6. effects' \in Seq(Range(effects) \cup Range(new))
    BY <2>1, <2>2, <2>5
  <2>7. Range(effects') \subseteq Range(effects) \cup Range(new)
    BY <2>6 DEF Range
  <2>8. \A e \in Range(effects) : e.at.end <= end
    BY <2>3, <2>4
  <2> QED
    BY <2>1, <2>3, <2>5, <2>7, <2>8 DEF Effected
<1> QED
  BY <1>1, <1>3, <1>4 DEF Audible, Scored

(* The music of a finished film.                                           *)
LEMMA AudibleFinish ==
    ASSUME TInv, Audible, NEW tracks \in MusicTracks, Finish(tracks)
    PROVE  Audible'
<1>1. UNCHANGED <<cursor, lost, shots, effects>>
  BY DEF Finish
<1>2. Voiced' /\ Effected'
  BY <1>1 DEF Audible, Voiced, Effected
<1>3. Scored'
  <2> SUFFICES ASSUME NEW f \in film'
               PROVE  f.music \in Seq(Range(f.music)) /\ \A m \in Range(f.music) : IsMusic(f, m)
    BY DEF Scored
  <2> DEFINE lower == [m \in Range(tracks) |-> LowerMusic(m, cursor)]
             S == {x \in UNION {lower[m] : m \in Range(tracks)} : IsMusic(f, x)}
  <2>1. f = [end |-> cursor, scenes |-> scenes, shots |-> shots, captions |-> {},
             music |-> Lowered(tracks, lower), effects |-> effects]
    BY DEF Finish
  <2>2. \A m \in Range(tracks) : MusicFaults(m, cursor) = {}
    BY DEF Finish
  <2>3. tracks \in Seq(Range(tracks)) /\ \A m \in Range(tracks) : IsMedia(m) /\ m.kind = "music"
    BY AuthoredAssumption
  <2>4. Laid(shots) /\ cursor \in Nat
    BY DEF TInv, Line, Control
  <2>5. f.end = cursor /\ f.shots = shots /\ f.music = Lowered(tracks, lower)
    BY <2>1
  <2>6. ASSUME NEW m \in DOMAIN lower PROVE \E x \in S : lower[m] = {x}
    <3>1. m \in Range(tracks) /\ lower[m] = LowerMusic(m, cursor)
      OBVIOUS
    <3>2. PICK x : IsMusic(f, x) /\ LowerMusic(m, cursor) = {x}
      BY <2>2, <2>3, <2>4, <2>5, <3>1, LoweredMusic
    <3>3. x \in S
      BY <3>1, <3>2
    <3> QED
      BY <3>1, <3>2, <3>3
  <2>7. \A x \in S : IsMusic(f, x)
    OBVIOUS
  <2> HIDE DEF lower, S
  <2>8. Lowered(tracks, lower) \in Seq(S)
    BY <2>3, <2>6, LoweredType
  <2> QED
    BY <2>5, <2>7, <2>8 DEF Range
<1> QED
  BY <1>2, <1>3 DEF Audible

(* Captions change no sound.                                               *)
LEMMA AudibleCaptions ==
    ASSUME TInv, Audible, NEW cues, ImportCaptions(cues)
    PROVE  Audible'
<1>1. /\ phase = "solved" /\ UNCHANGED <<cursor, lost, shots, effects>>
      /\ film' = film \/ film' = {[TheFilm EXCEPT !.captions = Clipped(cues, TheFilm.end)]}
  BY DEF ImportCaptions
<1>2. Voiced' /\ Effected'
  BY <1>1 DEF Audible, Voiced, Effected
<1>3. Scored'
  <2>1. CASE film' = film
    BY <2>1 DEF Audible, Scored
  <2>2. CASE film' = {[TheFilm EXCEPT !.captions = Clipped(cues, TheFilm.end)]}
    <3> DEFINE g == TheFilm
               f == [g EXCEPT !.captions = Clipped(cues, g.end)]
    <3>1. g \in film
      BY <1>1 DEF TInv, Kept, TheFilm
    <3>2. f.music = g.music /\ f.end = g.end /\ f.shots = g.shots
      BY <3>1 DEF TInv, Kept
    <3>3. film' = {f}
      BY <2>2
    <3>4. g.music \in Seq(Range(g.music)) /\ \A m \in Range(g.music) : IsMusic(g, m)
      BY <3>1 DEF Audible, Scored
    <3> HIDE DEF f, g
    <3>5. \A m \in Range(f.music) : IsMusic(f, m)
      BY <3>2, <3>4 DEF IsMusic
    <3> QED
      BY <3>2, <3>3, <3>4, <3>5 DEF Scored
  <2> QED
    BY <1>1, <2>1, <2>2
<1> QED
  BY <1>2, <1>3 DEF Audible

(* At every moment voices and effects sound between fades that fit, an     *)
(* effect in the frames placed so far, and the music of a film from its    *)
(* first frame on, giving way to all voice-overs.                          *)
THEOREM AudibleHolds == Spec => []Audible
<1>1. ASSUME TInv, Audible, [Next]_vars PROVE Audible'
  <2>1. ASSUME SolveNext PROVE Audible'
    <3>1. ASSUME NEW t \in CueTimes, SolveEvents(t) PROVE Audible'
      BY <1>1, <3>1, AudibleWaits DEF SolveEvents
    <3>2. ASSUME SolveScene PROVE Audible'
      BY <1>1, <3>2, AudibleWaits DEF SolveScene
    <3>3. ASSUME NEW a \in AuthoredShots, SolveFails(a) PROVE Audible'
      BY <1>1, <3>3, AudibleWaits DEF SolveFails
    <3>4. ASSUME NEW a \in AuthoredShots, SkipShot(a) PROVE Audible'
      BY <1>1, <3>4, AudibleWaits DEF SkipShot
    <3>5. ASSUME NEW a \in AuthoredShots, RejectShot(a) PROVE Audible'
      BY <1>1, <3>5, AudibleWaits DEF RejectShot
    <3> QED
      BY <1>1, <2>1, <3>1, <3>2, <3>3, <3>4, <3>5, AudiblePlace, AudibleFinish DEF SolveNext
  <2>2. ASSUME NEW c, NEW b, Plan(c, b) PROVE Audible'
    BY <1>1, <2>2, AudibleWaits DEF Plan
  <2>3. ASSUME NEW f, Snapshot(f) PROVE Audible'
    BY <1>1, <2>3, AudibleWaits DEF Snapshot, solveVars
  <2>4. ASSUME UNCHANGED vars PROVE Audible'
    BY <1>1, <2>4, AudibleWaits DEF vars, solveVars
  <2> QED
    BY <1>1, <2>1, <2>2, <2>3, <2>4, AudibleCaptions DEF Next
<1> QED
  BY <1>1, AudibleInitial, SolverHolds, PTL DEF Spec

(* The kept elements of a sequence, in a sequence.                         *)
LEMMA KeptElements ==
    ASSUME NEW s, s \in Seq(Range(s)), NEW keep,
           NEW parts, parts = [n \in DOMAIN s |-> IF n \in keep THEN <<s[n]>> ELSE <<>>]
    PROVE  /\ FlattenSeq(parts) \in Seq(Range(FlattenSeq(parts)))
           /\ Range(FlattenSeq(parts)) = {s[n] : n \in DOMAIN s \cap keep}
<1> DEFINE S == Range(s)
<1>1. DOMAIN s = 1 .. Len(s) /\ Len(s) \in Nat /\ \A n \in DOMAIN s : s[n] \in S
  BY DEF Range
<1>2. \A x : Range(<<x>>) = {x}
  BY DEF Range
<1>3. Range(<<>>) = {}
  BY DEF Range
<1>4. \A x \in S : <<x>> \in Seq(S)
  OBVIOUS
<1>5. <<>> \in Seq(S)
  OBVIOUS
<1> HIDE DEF S
<1>6. ASSUME NEW n \in DOMAIN s
      PROVE  /\ parts[n] \in Seq(S)
             /\ n \in keep => Range(parts[n]) = {s[n]}
             /\ n \notin keep => Range(parts[n]) = {}
  <2>1. CASE n \in keep
    <3>1. parts[n] = <<s[n]>>
      BY <2>1
    <3> QED
      BY ONLY <1>1, <1>2, <1>4, <2>1, <3>1, n \in DOMAIN s
  <2>2. CASE n \notin keep
    <3>1. parts[n] = <<>>
      BY <2>2
    <3> QED
      BY ONLY <1>3, <1>5, <2>2, <3>1
  <2> QED
    BY <2>1, <2>2
<1>7. DOMAIN parts = DOMAIN s
  OBVIOUS
<1>8. parts \in Seq(Seq(S))
  <2>1. parts = [n \in 1 .. Len(s) |-> parts[n]]
    BY <1>1
  <2> QED
    BY ONLY <1>1, <1>6, <2>1
<1>9. FlattenSeq(parts) \in Seq(S) /\ Range(FlattenSeq(parts)) = UNION {Range(parts[n]) : n \in DOMAIN parts}
  BY ONLY <1>8, FlattenRange
<1>10. UNION {Range(parts[n]) : n \in DOMAIN parts} = {s[n] : n \in DOMAIN s \cap keep}
  BY ONLY <1>6, <1>7
<1>11. FlattenSeq(parts) \in Seq(Range(FlattenSeq(parts)))
  BY ONLY <1>9 DEF Range
<1> QED
  BY <1>9, <1>10, <1>11

(* Two sequences after one another hold what both hold.                    *)
LEMMA JoinedRange ==
    ASSUME NEW s, s \in Seq(Range(s)), NEW t, t \in Seq(Range(t))
    PROVE  s \o t \in Seq(Range(s \o t)) /\ Range(s \o t) = Range(s) \cup Range(t)
<1> DEFINE S == Range(s) \cup Range(t)
           u == s \o t
<1>1. s \in Seq(S) /\ t \in Seq(S)
  <2>1. \A A, B : A \subseteq B => Seq(A) \subseteq Seq(B)
    OBVIOUS
  <2> QED
    BY <2>1
<1>2. /\ u \in Seq(S) /\ DOMAIN u = 1 .. Len(s) + Len(t) /\ Len(s) \in Nat /\ Len(t) \in Nat
      /\ DOMAIN s = 1 .. Len(s) /\ DOMAIN t = 1 .. Len(t)
      /\ \A i \in DOMAIN s : i \in DOMAIN u /\ u[i] = s[i]
      /\ \A i \in DOMAIN t : Len(s) + i \in DOMAIN u /\ u[Len(s) + i] = t[i]
  BY <1>1
<1> HIDE DEF u
<1>3. Range(u) \subseteq S
  BY ONLY <1>2 DEF Range
<1>4. \A i \in DOMAIN s : s[i] \in Range(u)
  BY <1>2 DEF Range
<1>5. \A i \in DOMAIN t : t[i] \in Range(u)
  BY <1>2 DEF Range
<1>6. Range(u) = S
  BY <1>3, <1>4, <1>5 DEF Range
<1>7. u \in Seq(Range(u))
  BY <1>2, <1>6
<1> QED
  BY <1>6, <1>7 DEF u

(* The sounds of a solved film.                                            *)
Sounded(f) ==
    /\ \A i \in DOMAIN f.shots : \A x \in Range(f.shots[i].content) : x.kind = "voice" => Heard(x)
    /\ f.effects \in Seq(Range(f.effects))
    /\ \A e \in Range(f.effects) :
         e.kind = "effect" /\ Heard(e) /\ e.at \in Intervals(0 .. MaxFrame) /\ e.at.end <= f.end
    /\ f.music \in Seq(Range(f.music)) /\ \A m \in Range(f.music) : IsMusic(f, m)

(* What sounds in a solved film.                                           *)
LEMMA SoundedFilm ==
    ASSUME TInv, Audible, phase \in {"solved", "timed", "planned"}
    PROVE  Sounded(TheFilm)
<1> DEFINE f == TheFilm
<1>1. f \in film
  BY DEF TInv, Kept, TheFilm
<1>2. f.end = cursor /\ f.shots = shots /\ f.effects = effects /\ diagnostics = {}
  BY <1>1 DEF TInv, Kept
<1>3. ~lost
  BY <1>2 DEF TInv, Reported
<1> HIDE DEF f
<1>4. \A e \in Range(f.effects) :
        e.kind = "effect" /\ Heard(e) /\ e.at \in Intervals(0 .. MaxFrame) /\ e.at.end <= f.end
  BY <1>2, <1>3 DEF TInv, Sounding, Audible, Effected
<1>5. f.effects \in Seq(Range(f.effects))
  BY <1>2 DEF TInv, Sounding
<1>6. f.music \in Seq(Range(f.music)) /\ \A m \in Range(f.music) : IsMusic(f, m)
  BY <1>1 DEF Audible, Scored
<1>7. \A i \in DOMAIN f.shots : \A x \in Range(f.shots[i].content) : x.kind = "voice" => Heard(x)
  BY <1>2 DEF Audible, Voiced
<1>8. Sounded(f)
  BY <1>4, <1>5, <1>6, <1>7 DEF Sounded
<1> QED
  BY <1>8 DEF f

(* An input of the mix: it is heard in frames of the film.                 *)
IsInput(f, x) ==
    /\ x.kind \in {"voice", "music", "effect"} /\ Heard(x)
    /\ x.at.start \in Nat /\ x.at.end \in Nat /\ x.at.start < x.at.end /\ x.at.end <= f.end
    /\ x.kind = "music" => IsMusic(f, x)
    /\ x.kind = "voice" => x.at \in Spoken(f.shots)

(* The voice-overs of a shot.                                              *)
LEMMA VoicesOfShot ==
    ASSUME NEW content, content \in Seq(Range(content))
    PROVE  /\ Voices(content) \in Seq(Range(Voices(content)))
           /\ Range(Voices(content)) = {c \in Range(content) : c.kind = "voice"}
<1> DEFINE keep == {k \in DOMAIN content : content[k].kind = "voice"}
           parts == [k \in DOMAIN content |-> IF k \in keep THEN <<content[k]>> ELSE <<>>]
           given == [k \in DOMAIN content |-> IF content[k].kind = "voice" THEN <<content[k]>> ELSE <<>>]
<1>1. parts = given
  <2>1. \A k \in DOMAIN content : k \in keep <=> content[k].kind = "voice"
    OBVIOUS
  <2> HIDE DEF keep
  <2> QED
    BY <2>1
<1>2. Voices(content) = FlattenSeq(given)
  BY DEF Voices
<1>3. {content[k] : k \in DOMAIN content \cap keep} = {c \in Range(content) : c.kind = "voice"}
  BY DEF Range
<1> HIDE DEF keep, given
<1>4. /\ FlattenSeq(parts) \in Seq(Range(FlattenSeq(parts)))
      /\ Range(FlattenSeq(parts)) = {content[k] : k \in DOMAIN content \cap keep}
  BY ONLY content \in Seq(Range(content)), KeptElements
<1> HIDE DEF parts
<1>5. Voices(content) = FlattenSeq(parts)
  BY ONLY <1>1, <1>2
<1> QED
  BY ONLY <1>3, <1>4, <1>5

(* What enters the mix of a film: every sound that is not empty.           *)
LEMMA AudioOfFilm ==
    ASSUME NEW f, Timeline(f), Sounded(f), NEW audio, audio = Audio(f)
    PROVE  /\ audio \in Seq(Range(audio))
           /\ \A x \in Range(audio) : IsInput(f, x)
           /\ \A at \in Spoken(f.shots) : at.start < at.end =>
                \E x \in Range(audio) : x.kind = "voice" /\ x.at = at
<1> DEFINE voices(i) == Voices(f.shots[i].content)
           parts == [i \in ShotIndexes(f) |-> voices(i)]
           spoken == FlattenSeq(parts)
           both == spoken \o f.music
           all == both \o f.effects
           keep == {n \in DOMAIN all : ~IsEmpty(all[n].at)}
           chosen == [n \in DOMAIN all |-> IF n \in keep THEN <<all[n]>> ELSE <<>>]
           given == [n \in DOMAIN all |-> IF IsEmpty(all[n].at) THEN <<>> ELSE <<all[n]>>]
           S == UNION {Range(f.shots[i].content) : i \in DOMAIN f.shots}
<1>1. ASSUME NEW i \in DOMAIN f.shots
      PROVE  voices(i) \in Seq(S) /\ Range(voices(i)) = {c \in Range(f.shots[i].content) : c.kind = "voice"}
  <2>1. f.shots[i].content \in Seq(Range(f.shots[i].content))
    BY DEF Timeline, Laid, IsShot
  <2>2. voices(i) \in Seq(Range(voices(i))) /\ Range(voices(i)) = {c \in Range(f.shots[i].content) : c.kind = "voice"}
    BY ONLY <2>1, VoicesOfShot
  <2>3. Range(voices(i)) \subseteq S
    BY ONLY <2>2, i \in DOMAIN f.shots
  <2>4. \A A, B : A \subseteq B => Seq(A) \subseteq Seq(B)
    OBVIOUS
  <2> HIDE DEF S
  <2> QED
    BY ONLY <2>2, <2>3, <2>4
<1> HIDE DEF voices, S
<1>2. /\ DOMAIN f.shots = 1 .. Len(f.shots) /\ Len(f.shots) \in Nat /\ DOMAIN parts = DOMAIN f.shots
      /\ \A i \in DOMAIN f.shots : parts[i] = voices(i)
  BY DEF Timeline, Laid, ShotIndexes
<1> HIDE DEF parts
<1>3. parts \in Seq(Seq(S))
  <2> DEFINE T == Seq(S)
  <2>1. parts = [i \in 1 .. Len(f.shots) |-> parts[i]]
    BY <1>2 DEF parts
  <2>2. \A i \in 1 .. Len(f.shots) : parts[i] \in T
    BY <1>1, <1>2
  <2> HIDE DEF T
  <2>3. parts \in Seq(T)
    BY ONLY <1>2, <2>1, <2>2
  <2> QED
    BY <2>3 DEF T
<1>4. spoken \in Seq(Range(spoken)) /\ Range(spoken) = UNION {Range(voices(i)) : i \in DOMAIN f.shots}
  <2>1. spoken \in Seq(S) /\ Range(spoken) = UNION {Range(parts[i]) : i \in DOMAIN parts}
    BY ONLY <1>3, FlattenRange
  <2>2. spoken \in Seq(Range(spoken))
    BY ONLY <2>1 DEF Range
  <2> QED
    BY ONLY <1>2, <2>1, <2>2
<1> HIDE DEF spoken
<1>5. /\ f.music \in Seq(Range(f.music)) /\ f.effects \in Seq(Range(f.effects))
  BY DEF Sounded
<1>6. both \in Seq(Range(both)) /\ Range(both) = Range(spoken) \cup Range(f.music)
  BY ONLY <1>4, <1>5, JoinedRange
<1> HIDE DEF both
<1>7. all \in Seq(Range(all)) /\ Range(all) = Range(both) \cup Range(f.effects)
  BY ONLY <1>5, <1>6, JoinedRange
<1>8. audio = FlattenSeq(given)
  BY DEF Audio, parts, voices, spoken, both
<1> HIDE DEF all
<1>9. chosen = given /\ {all[n] : n \in DOMAIN all \cap keep} = {x \in Range(all) : ~IsEmpty(x.at)}
  <2>1. \A n \in DOMAIN all : n \in keep <=> ~IsEmpty(all[n].at)
    OBVIOUS
  <2>2. chosen = given
    <3> HIDE DEF keep
    <3> QED
      BY <2>1
  <2>3. {all[n] : n \in DOMAIN all \cap keep} = {x \in Range(all) : ~IsEmpty(x.at)}
    BY DEF Range
  <2> QED
    BY <2>2, <2>3
<1> HIDE DEF keep, given
<1>10. /\ FlattenSeq(chosen) \in Seq(Range(FlattenSeq(chosen)))
       /\ Range(FlattenSeq(chosen)) = {all[n] : n \in DOMAIN all \cap keep}
  BY ONLY <1>7, KeptElements
<1> HIDE DEF chosen
<1>11. audio \in Seq(Range(audio)) /\ Range(audio) = {x \in Range(all) : ~IsEmpty(x.at)}
  BY ONLY <1>8, <1>9, <1>10
<1>12. ASSUME NEW i \in DOMAIN f.shots, NEW x \in Range(voices(i)), ~IsEmpty(x.at)
       PROVE  IsInput(f, x)
  <2>1. x \in Range(f.shots[i].content) /\ x.kind = "voice"
    BY <1>1
  <2>2. Within(x, f.shots[i].at) /\ Heard(x)
    BY <2>1 DEF Timeline, Laid, IsShot, Sounded
  <2>3. x.at \in Spoken(f.shots)
    BY <2>1 DEF Spoken, VoiceOvers
  <2>4. f.shots[i].at.end <= f.end
    BY ShotEnds
  <2>5. f.shots[i].at.end \in Nat /\ f.end \in Nat
    BY Around DEF Timeline
  <2> QED
    BY <1>12, <2>1, <2>2, <2>3, <2>4, <2>5 DEF IsInput, Within, IsEmpty
<1>13. ASSUME NEW x \in Range(f.music), ~IsEmpty(x.at) PROVE IsInput(f, x)
  <2>1. IsMusic(f, x)
    BY DEF Sounded
  <2>2. x.kind = "music" /\ Heard(x) /\ x.at.start = 0 /\ x.at.end \in 0 .. f.end
    BY <2>1 DEF IsMusic, Interval
  <2>3. f.end \in Nat
    BY DEF Timeline
  <2> QED
    BY <1>13, <2>1, <2>2, <2>3 DEF IsInput, IsEmpty
<1>14. ASSUME NEW x \in Range(f.effects), ~IsEmpty(x.at) PROVE IsInput(f, x)
  <2>1. x.kind = "effect" /\ Heard(x) /\ x.at \in Intervals(0 .. MaxFrame) /\ x.at.end <= f.end
    BY DEF Sounded
  <2> QED
    BY <1>14, <2>1 DEF IsInput, IsEmpty, Intervals
<1>15. \A x \in Range(audio) : IsInput(f, x)
  BY ONLY <1>4, <1>6, <1>7, <1>11, <1>12, <1>13, <1>14
<1>16. ASSUME NEW at \in Spoken(f.shots), at.start < at.end
       PROVE  \E x \in Range(audio) : x.kind = "voice" /\ x.at = at
  <2>1. PICK i \in DOMAIN f.shots : at \in VoiceOvers(f.shots[i])
    BY DEF Spoken
  <2>2. PICK x \in Range(f.shots[i].content) : x.kind = "voice" /\ x.at = at
    BY <2>1 DEF VoiceOvers
  <2>3. Within(x, f.shots[i].at)
    BY DEF Timeline, Laid, IsShot
  <2>4. ~IsEmpty(x.at)
    BY <1>16, <2>2, <2>3 DEF IsEmpty, Within
  <2>5. x \in Range(voices(i))
    BY <1>1, <2>2
  <2>6. x \in Range(all)
    BY <1>4, <1>6, <1>7, <2>5
  <2> QED
    BY <1>11, <2>2, <2>4, <2>6
<1> QED
  BY <1>11, <1>15, <1>16

(* A finite set as a sequence holds each member once.                      *)
LEMMA SetSequence ==
    ASSUME NEW S, IsFiniteSet(S), NEW s, s = SetToSeq(S)
    PROVE  /\ s \in Seq(S) /\ Range(s) = S
           /\ \A k, l \in DOMAIN s : s[k] = s[l] => k = l
<1> DEFINE n == Cardinality(S)
<1>1. n \in Nat /\ ExistsBijection(1 .. n, S)
  BY FS_CardinalityType
<1>2. PICK g : g \in Bijection(1 .. n, S)
  BY <1>1 DEF ExistsBijection
<1>3. g \in [1 .. n -> S] /\ IsInjective(g)
  BY <1>2 DEF Bijection, Injection
<1>4. s \in [1 .. n -> S] /\ IsInjective(s)
  BY <1>3 DEF SetToSeq
<1>5. IsFiniteSet(1 .. n) /\ Cardinality(1 .. n) = n
  BY <1>1, FS_Interval
<1>6. s \in Injection(1 .. n, S)
  BY <1>4 DEF Injection
<1>7. s \in Surjection(1 .. n, S)
  BY <1>1, <1>5, <1>6, FS_Injection
<1>8. s \in Seq(S)
  BY <1>1, <1>4
<1>9. DOMAIN s = 1 .. n
  BY <1>4
<1>10. Range(s) = S
  BY <1>4, <1>7, <1>9 DEF Surjection, Range
<1> QED
  BY <1>4, <1>8, <1>10 DEF IsInjective

(* The length of a sequence that holds nothing twice.                      *)
LEMMA DistinctLength ==
    ASSUME NEW s, s \in Seq(Range(s)), \A k, l \in DOMAIN s : s[k] = s[l] => k = l
    PROVE  Cardinality(Range(s)) = Len(s)
<1>1. DOMAIN s = 1 .. Len(s) /\ Len(s) \in Nat
  OBVIOUS
<1>2. IsFiniteSet(1 .. Len(s)) /\ Cardinality(1 .. Len(s)) = Len(s)
  BY <1>1, FS_Interval
<1>3. s \in [DOMAIN s -> Range(s)]
  BY <1>1
<1>4. s \in Injection(DOMAIN s, Range(s)) /\ s \in Surjection(DOMAIN s, Range(s))
  BY <1>3 DEF Injection, IsInjective, Surjection, Range
<1>5. ExistsBijection(DOMAIN s, Range(s))
  BY <1>4 DEF ExistsBijection, Bijection
<1> QED
  BY <1>1, <1>2, <1>5, FS_Bijection

(* Each unit owns the sounds that start in its output.                     *)
LEMMA AudioOfUnits ==
    ASSUME NEW f, NEW u, NEW r, NEW p, PlannedAs(f, u, r, p)
    PROVE  /\ DOMAIN u = DOMAIN Regions(f)
           /\ \A i \in DOMAIN Regions(f) : u[i].audio = AudioPlan(f, Regions(f)[i].output)
<1> DEFINE regions == Regions(f)
           composed == Composed(f, regions, p)
           own(i) == Compose(f, regions[i], p.capability, p.behavior)
           other(i) == Execution(p.behavior, "BrowserComposite", {}, composed[i].plan)
<1>1. u = Normalize(composed, p.behavior)
  BY DEF PlannedAs
<1>2. composed = [i \in DOMAIN regions |-> own(i)]
  BY DEF Composed
<1>3. u = composed \/ u = [i \in DOMAIN composed |-> [composed[i] EXCEPT !.execution = other(i)]]
  BY <1>1 DEF Normalize
<1>4. \A i : own(i).audio = AudioPlan(f, regions[i].output)
              /\ \A x : [own(i) EXCEPT !.execution = x].audio = own(i).audio
  BY DEF Compose
<1> HIDE DEF own, composed, other
<1>5. DOMAIN composed = DOMAIN regions /\ \A i \in DOMAIN regions : composed[i] = own(i)
  BY <1>2
<1>6. DOMAIN u = DOMAIN regions
  BY <1>3, <1>5
<1>7. ASSUME NEW i \in DOMAIN regions PROVE u[i] = own(i) \/ u[i] = [own(i) EXCEPT !.execution = other(i)]
  BY <1>3, <1>5
<1>8. ASSUME NEW i \in DOMAIN regions PROVE u[i].audio = AudioPlan(f, regions[i].output)
  <2>1. /\ own(i).audio = AudioPlan(f, regions[i].output)
        /\ [own(i) EXCEPT !.execution = other(i)].audio = own(i).audio
    BY <1>4
  <2>2. u[i] = own(i) \/ u[i] = [own(i) EXCEPT !.execution = other(i)]
    BY <1>7
  <2> QED
    BY ONLY <2>1, <2>2
<1> QED
  BY <1>6, <1>8

(* Together the units own each sound, and none of them another's.          *)
LEMMA UnitsOwnTheMix ==
    ASSUME NEW f, Timeline(f), Sounded(f), NEW u, NEW r, NEW p, PlannedAs(f, u, r, p)
    PROVE  /\ DOMAIN u = 1 .. Len(Regions(f)) /\ Len(Regions(f)) \in Nat
           /\ DOMAIN Audio(f) = 1 .. Len(Audio(f)) /\ Len(Audio(f)) \in Nat
           /\ (UNION {u[i].audio : i \in DOMAIN u}) = 1 .. Len(Audio(f))
           /\ \A i, j \in DOMAIN u : i # j => u[i].audio \cap u[j].audio = {}
           /\ \A i \in DOMAIN u : u[i].audio \subseteq 1 .. Len(Audio(f)) /\ IsFiniteSet(u[i].audio)
<1> DEFINE audio == Audio(f)
           out(i) == Regions(f)[i].output
<1>1. /\ DOMAIN u = DOMAIN Regions(f)
      /\ \A i \in DOMAIN u : u[i].audio = {n \in DOMAIN audio : Covers(out(i), audio[n].at.start)}
  BY AudioOfUnits DEF AudioPlan
<1>2. DOMAIN Regions(f) = 1 .. Len(Regions(f)) /\ Len(Regions(f)) \in Nat
  BY RegionsOfFilm
<1>3. audio \in Seq(Range(audio)) /\ \A x \in Range(audio) : IsInput(f, x)
  BY AudioOfFilm
<1>4. DOMAIN audio = 1 .. Len(audio) /\ Len(audio) \in Nat
  BY <1>3
<1>5. ASSUME NEW n \in DOMAIN audio
      PROVE  /\ \E m \in DOMAIN u : Covers(out(m), audio[n].at.start)
             /\ \A m, k \in DOMAIN u :
                  Covers(out(m), audio[n].at.start) /\ Covers(out(k), audio[n].at.start) => m = k
  <2>1. IsInput(f, audio[n])
    BY <1>3 DEF Range
  <2>2. audio[n].at.start \in 0 .. f.end - 1
    <3>1. f.end \in Nat
      BY DEF Timeline
    <3> QED
      BY <2>1, <3>1 DEF IsInput
  <2> QED
    BY <1>1, <2>2, RegionsCover
<1> HIDE DEF audio, out
<1>6. (UNION {u[i].audio : i \in DOMAIN u}) = DOMAIN audio
  BY <1>1, <1>5
<1>7. \A i, j \in DOMAIN u : i # j => u[i].audio \cap u[j].audio = {}
  BY <1>1, <1>5
<1>8. ASSUME NEW i \in DOMAIN u PROVE u[i].audio \subseteq 1 .. Len(audio) /\ IsFiniteSet(u[i].audio)
  <2>1. u[i].audio \subseteq 1 .. Len(audio)
    BY <1>1, <1>4
  <2>2. IsFiniteSet(1 .. Len(audio))
    BY <1>4, FS_Interval
  <2> QED
    BY <2>1, <2>2, FS_Subset
<1> QED
  BY <1>1, <1>2, <1>4, <1>6, <1>7, <1>8 DEF audio

(* The mix holds the sounds in their canonical order, and none twice.      *)
LEMMA MixIsCanonical ==
    ASSUME NEW f, Timeline(f), Sounded(f), NEW u, NEW r, NEW p, PlannedAs(f, u, r, p)
    PROVE  /\ Mix(u) = [n \in DOMAIN Audio(f) |-> n]
           /\ MixFaults(u) \subseteq {"PlanTooLarge"}
<1> DEFINE N == Len(Audio(f))
           parts == [i \in DOMAIN u |-> SetToSeq(u[i].audio)]
           inputs == FlattenSeq(parts)
<1>1. /\ DOMAIN u = 1 .. Len(Regions(f)) /\ Len(Regions(f)) \in Nat
      /\ DOMAIN Audio(f) = 1 .. N /\ N \in Nat
      /\ (UNION {u[i].audio : i \in DOMAIN u}) = 1 .. N
      /\ \A i, j \in DOMAIN u : i # j => u[i].audio \cap u[j].audio = {}
      /\ \A i \in DOMAIN u : u[i].audio \subseteq 1 .. N /\ IsFiniteSet(u[i].audio)
  BY UnitsOwnTheMix
<1> HIDE DEF N
<1>2. Mix(u) = [n \in 1 .. N |-> n]
  <2>1. Ordered(1 .. N, <) = [n \in 1 .. N |-> n]
    BY <1>1, OrderedPositions
  <2> DEFINE S == UNION {u[i].audio : i \in DOMAIN u}
  <2>3. Mix(u) = Ordered(S, <)
    BY DEF Mix
  <2>4. S = 1 .. N
    BY <1>1
  <2> HIDE DEF S
  <2>2. Mix(u) = Ordered(1 .. N, <)
    BY ONLY <2>3, <2>4 DEF Ordered
  <2> QED
    BY ONLY <2>1, <2>2
<1>3. ASSUME NEW i \in DOMAIN u
      PROVE  /\ parts[i] \in Seq(1 .. N) /\ Range(parts[i]) = u[i].audio
             /\ \A k, l \in DOMAIN parts[i] : parts[i][k] = parts[i][l] => k = l
  <2> DEFINE s == SetToSeq(u[i].audio)
  <2>1. s \in Seq(u[i].audio) /\ Range(s) = u[i].audio /\ \A k, l \in DOMAIN s : s[k] = s[l] => k = l
    BY <1>1, SetSequence
  <2>2. parts[i] = s
    OBVIOUS
  <2>3. \A A, B : A \subseteq B => Seq(A) \subseteq Seq(B)
    OBVIOUS
  <2> HIDE DEF s, parts
  <2>4. s \in Seq(1 .. N)
    BY <1>1, <2>1, <2>3
  <2> QED
    BY <2>1, <2>2, <2>4
<1>4. parts \in Seq(Seq(1 .. N)) /\ DOMAIN parts = DOMAIN u
  <2> DEFINE T == Seq(1 .. N)
             L == Len(Regions(f))
  <2>1. DOMAIN parts = 1 .. L /\ L \in Nat /\ parts = [i \in 1 .. L |-> parts[i]]
    BY <1>1
  <2>2. \A i \in 1 .. L : parts[i] \in T
    BY <1>1, <1>3
  <2> HIDE DEF T, L, parts
  <2>3. parts \in Seq(T)
    BY ONLY <2>1, <2>2
  <2> QED
    BY <1>1, <2>1, <2>3 DEF T, L
<1>5. inputs \in Seq(1 .. N)
  BY <1>4, FlattenType
<1>6. \A k, l \in DOMAIN inputs : inputs[k] = inputs[l] => k = l
  <2>1. \A i \in DOMAIN parts : \A k, l \in DOMAIN parts[i] : parts[i][k] = parts[i][l] => k = l
    BY <1>3, <1>4
  <2>2. \A i, j \in DOMAIN parts : i # j => Range(parts[i]) \cap Range(parts[j]) = {}
    BY <1>1, <1>3, <1>4
  <2> HIDE DEF parts
  <2> QED
    BY ONLY <1>4, <2>1, <2>2, FlattenDistinct
<1> HIDE DEF inputs
<1>7. Cardinality(Range(inputs)) = Len(inputs)
  <2>1. inputs \in Seq(Range(inputs))
    BY <1>5 DEF Range
  <2> QED
    BY <1>6, <2>1, DistinctLength
<1>8. MixFaults(u) \subseteq {"PlanTooLarge"}
  BY <1>7 DEF MixFaults, Fails, inputs
<1> QED
  BY <1>1, <1>2, <1>8

(* A track starts before the mix ends, and its fades do not overlap.       *)
LEMMA TrackFits ==
    ASSUME EveryFrameSounds, NEW f, f.end \in Nat, NEW x, IsInput(f, x),
           NEW track, track = Track(x, 0)
    PROVE  /\ track.delay < OutputSamples(f)
           /\ track.envelope.inSamples <= track.envelope.outStart /\ track.envelope.outSamples >= 0
<1>1. /\ x.at.start \in Nat /\ x.at.end \in Nat /\ x.at.start < x.at.end /\ x.at.end <= f.end
      /\ x.fadeIn \in Nat /\ x.fadeOut \in Nat /\ x.fadeIn + x.fadeOut <= x.at.end - x.at.start
  BY DEF IsInput, Heard, FadesFit, Span
<1> DEFINE start == x.at.start - 0
           span == x.at.end - x.at.start
           rest == span - x.fadeOut
<1>2. /\ start \in Nat /\ span \in Nat /\ rest \in Nat /\ start < f.end /\ x.fadeIn <= rest /\ rest <= span
  BY <1>1
<1>3. track.delay = SamplesFor(start)
  BY DEF Track
<1>4. /\ track.envelope.inSamples = SamplesFor(x.fadeIn) /\ track.envelope.outStart = SamplesFor(rest)
      /\ track.envelope.outSamples = SamplesFor(span) - SamplesFor(rest)
  BY DEF Track, Envelope, Span
<1> HIDE DEF start, span, rest
<1>5. /\ SamplesFor(start) < SamplesFor(f.end) /\ SamplesFor(x.fadeIn) <= SamplesFor(rest)
      /\ SamplesFor(rest) <= SamplesFor(span)
      /\ SamplesFor(rest) \in Nat /\ SamplesFor(span) \in Nat
  BY <1>1, <1>2, SampleBounds
<1> QED
  BY <1>3, <1>4, <1>5 DEF OutputSamples

(* The voice-overs that music gives way to, as far as it plays.            *)
Spoke(f, m) == {v \in Range(Audio(f)) : v.kind = "voice" /\ Intersects(v.at, m.at)}

(* What the voice-over v and the music m have in common.                   *)
Shared(v, m) == Interval(v.at.start, IF v.at.end <= m.at.end THEN v.at.end ELSE m.at.end)

(* Music ducks under each of its voice-overs, and under nothing else.      *)
LEMMA DuckedVoices ==
    ASSUME NEW f, Timeline(f), Sounded(f), NEW m, IsMusic(f, m), m.target # {}, m.at.start < m.at.end
    PROVE  /\ DOMAIN m.ducked = 1 .. Len(m.ducked) /\ Len(m.ducked) \in Nat
           /\ \A i \in DOMAIN m.ducked : \E v \in Spoke(f, m) : m.ducked[i] = Shared(v, m)
           /\ \A v \in Spoke(f, m) :
                /\ v.at.start \in Nat /\ v.at.end \in Nat
                /\ Shared(v, m).start < Shared(v, m).end /\ Shared(v, m).end <= m.at.end
                /\ \E i \in DOMAIN m.ducked : m.ducked[i] = Shared(v, m)
<1>1. /\ m.ducked \in Seq(Range(m.ducked)) /\ m.at.start = 0 /\ m.at.end \in Nat
      /\ Range(m.ducked) = UNION {Intersection(m.at, v) : v \in Spoken(f.shots)}
  BY DEF IsMusic, Interval, Timeline
<1>2. DOMAIN m.ducked = 1 .. Len(m.ducked) /\ Len(m.ducked) \in Nat
  BY <1>1
<1>3. /\ \A x \in Range(Audio(f)) : IsInput(f, x)
      /\ \A at \in Spoken(f.shots) : at.start < at.end =>
           \E x \in Range(Audio(f)) : x.kind = "voice" /\ x.at = at
  BY AudioOfFilm
<1>4. \A at \in Spoken(f.shots) : at.start \in Nat /\ at.end \in Nat /\ at.start <= at.end
  <2> SUFFICES ASSUME NEW i \in DOMAIN f.shots, NEW at \in VoiceOvers(f.shots[i])
               PROVE  at.start \in Nat /\ at.end \in Nat /\ at.start <= at.end
    BY DEF Spoken
  <2>1. PICK x \in Range(f.shots[i].content) : x.at = at
    BY DEF VoiceOvers
  <2>2. Within(x, f.shots[i].at)
    BY DEF Timeline, Laid, IsShot
  <2> QED
    BY <2>1, <2>2 DEF Within
<1>5. ASSUME NEW at \in Spoken(f.shots), NEW v, v.at = at
      PROVE  Intersection(m.at, at) = IF Intersects(at, m.at) THEN {Shared(v, m)} ELSE {}
  <2>1. at.start \in Nat /\ at.end \in Nat /\ at.start <= at.end
    BY <1>4
  <2>2. Intersects(at, m.at) <=> at.start < at.end /\ at.start < m.at.end
    BY <1>1, <2>1 DEF Intersects, IsEmpty
  <2> DEFINE start == IF m.at.start >= at.start THEN m.at.start ELSE at.start
             end == IF m.at.end <= at.end THEN m.at.end ELSE at.end
  <2>3. start = at.start /\ end = IF at.end <= m.at.end THEN at.end ELSE m.at.end
    BY <1>1, <2>1
  <2>4. Intersection(m.at, at) = IF start < end THEN {Interval(start, end)} ELSE {}
    BY DEF Intersection
  <2>5. start < end <=> Intersects(at, m.at)
    BY <1>1, <2>1, <2>2, <2>3
  <2> HIDE DEF start, end
  <2>6. Shared(v, m) = Interval(start, end)
    BY <1>5, <2>3 DEF Shared
  <2> QED
    BY ONLY <2>4, <2>5, <2>6
<1>6. ASSUME NEW i \in DOMAIN m.ducked PROVE \E v \in Spoke(f, m) : m.ducked[i] = Shared(v, m)
  <2>1. PICK at \in Spoken(f.shots) : m.ducked[i] \in Intersection(m.at, at)
    <3>1. m.ducked[i] \in Range(m.ducked)
      BY DEF Range
    <3> QED
      BY <1>1, <3>1
  <2>2. Intersects(at, m.at)
    <3>1. \E v : v.at = at
      <4>1. [at |-> at].at = at
        OBVIOUS
      <4> QED
        BY <4>1
    <3> QED
      BY <1>5, <2>1, <3>1
  <2>3. at.start < at.end
    BY <1>4, <2>2 DEF Intersects, IsEmpty
  <2>4. PICK v \in Range(Audio(f)) : v.kind = "voice" /\ v.at = at
    BY <1>3, <2>3
  <2>5. v \in Spoke(f, m) /\ m.ducked[i] = Shared(v, m)
    BY <1>5, <2>1, <2>2, <2>4 DEF Spoke
  <2> QED
    BY <2>5
<1>7. ASSUME NEW v \in Spoke(f, m)
      PROVE  /\ v.at.start \in Nat /\ v.at.end \in Nat
             /\ Shared(v, m).start < Shared(v, m).end /\ Shared(v, m).end <= m.at.end
             /\ \E i \in DOMAIN m.ducked : m.ducked[i] = Shared(v, m)
  <2>1. v \in Range(Audio(f)) /\ v.kind = "voice" /\ Intersects(v.at, m.at)
    BY DEF Spoke
  <2>2. v.at \in Spoken(f.shots)
    BY <1>3, <2>1 DEF IsInput
  <2>3. v.at.start \in Nat /\ v.at.end \in Nat /\ v.at.start < v.at.end /\ v.at.start < m.at.end
    BY <1>4, <2>1, <2>2 DEF Intersects, IsEmpty
  <2>4. Shared(v, m) \in Range(m.ducked)
    BY <1>1, <1>5, <2>1, <2>2
  <2>5. \E i \in DOMAIN m.ducked : m.ducked[i] = Shared(v, m)
    BY <2>4 DEF Range
  <2>6. Shared(v, m).start < Shared(v, m).end /\ Shared(v, m).end <= m.at.end
    BY <1>1, <2>3 DEF Shared, Interval
  <2> QED
    BY <2>3, <2>5, <2>6
<1> QED
  BY <1>2, <1>6, <1>7

(* The window of a voice-over, and the samples that it reaches.            *)
LEMMA WindowOfVoice ==
    ASSUME EveryFrameSounds, NEW end \in Nat, NEW d, d.start \in Nat, d.end \in Nat,
           d.start < d.end, d.end <= end, NEW w, w = Window(d, 0, SamplesFor(end))
    PROVE  /\ IsWindow(w, SamplesFor(end)) /\ SamplesFor(end) \in Nat
           /\ w.voiceStart = SamplesFor(d.start) /\ w.voiceEnd = SamplesFor(d.end)
           /\ \A s \in Nat : s < SamplesFor(end) =>
                (Reaches(w, s) <=> /\ SamplesFor(d.start) <= s + SamplesFor(DuckingAttack)
                                   /\ s < SamplesFor(d.end) + SamplesFor(DuckingRelease))
<1> DEFINE samples == SamplesFor(end)
           start == SamplesFor(d.start)
           final == SamplesFor(d.end)
           attack == SamplesFor(DuckingAttack)
           release == SamplesFor(DuckingRelease)
<1>1. /\ samples \in Nat /\ start \in Nat /\ final \in Nat /\ start < final /\ final <= samples
      /\ attack \in Nat /\ release \in Nat
  BY SampleBounds, RampLengths
<1>2. d.start - 0 = d.start /\ d.end - 0 = d.end
  OBVIOUS
<1>3. w = [attackStart |-> IF start < attack THEN 0 ELSE start - attack,
           voiceStart |-> start, voiceEnd |-> final,
           releaseEnd |-> IF final + release < samples THEN final + release ELSE samples]
  BY <1>2 DEF Window
<1> HIDE DEF samples, start, final, attack, release
<1>4. /\ w.attackStart = (IF start < attack THEN 0 ELSE start - attack)
      /\ w.voiceStart = start /\ w.voiceEnd = final
      /\ w.releaseEnd = IF final + release < samples THEN final + release ELSE samples
      /\ w = [attackStart |-> w.attackStart, voiceStart |-> w.voiceStart,
              voiceEnd |-> w.voiceEnd, releaseEnd |-> w.releaseEnd]
  BY <1>3
<1>5. w.attackStart \in Nat /\ w.releaseEnd \in Nat
  BY <1>1, <1>4
<1>6. IsWindow(w, samples)
  BY <1>1, <1>4, <1>5 DEF IsWindow, attack, release
<1>7. \A s \in Nat : s < samples =>
        (Reaches(w, s) <=> start <= s + attack /\ s < final + release)
  BY <1>1, <1>4 DEF Reaches
<1> QED
  BY <1>1, <1>4, <1>6, <1>7 DEF samples, start, final, attack, release

(* The windows of music that gives way, and the samples of the voices.     *)
LEMMA WindowsOfMusic ==
    ASSUME EveryFrameSounds, NEW f, Timeline(f), Sounded(f), NEW m, IsMusic(f, m),
           m.target # {}, m.at.start < m.at.end,
           NEW samples, samples = SamplesFor(m.at.end),
           NEW windows, windows = [i \in DOMAIN m.ducked |-> Window(m.ducked[i], m.at.start, samples)]
    PROVE  /\ samples \in Nat /\ windows \in Seq(Range(windows))
           /\ \A i \in DOMAIN windows :
                /\ IsWindow(windows[i], samples)
                /\ \E v \in Spoke(f, m) : \A s \in Nat : s < samples =>
                     (Reaches(windows[i], s) <=>
                        /\ SamplesFor(Shared(v, m).start) <= s + SamplesFor(DuckingAttack)
                        /\ s < SamplesFor(Shared(v, m).end) + SamplesFor(DuckingRelease))
           /\ \A v \in Spoke(f, m) : \E i \in DOMAIN windows :
                /\ windows[i].voiceStart = SamplesFor(Shared(v, m).start)
                /\ windows[i].voiceEnd = SamplesFor(Shared(v, m).end)
                /\ \A s \in Nat : s < samples =>
                     (Reaches(windows[i], s) <=>
                        /\ SamplesFor(Shared(v, m).start) <= s + SamplesFor(DuckingAttack)
                        /\ s < SamplesFor(Shared(v, m).end) + SamplesFor(DuckingRelease))
<1>1. m.at.start = 0 /\ m.at.end \in Nat
  BY DEF IsMusic, Interval, Timeline
<1>2. /\ DOMAIN m.ducked = 1 .. Len(m.ducked) /\ Len(m.ducked) \in Nat
      /\ \A i \in DOMAIN m.ducked : \E v \in Spoke(f, m) : m.ducked[i] = Shared(v, m)
      /\ \A v \in Spoke(f, m) :
           /\ v.at.start \in Nat /\ v.at.end \in Nat
           /\ Shared(v, m).start < Shared(v, m).end /\ Shared(v, m).end <= m.at.end
           /\ \E i \in DOMAIN m.ducked : m.ducked[i] = Shared(v, m)
  BY DuckedVoices
<1>3. DOMAIN windows = DOMAIN m.ducked /\ \A i \in DOMAIN windows : windows[i] = Window(m.ducked[i], 0, samples)
  BY <1>1
<1>4. samples \in Nat
  BY <1>1, SampleBounds
<1>5. windows \in Seq(Range(windows))
  <2>1. windows = [i \in 1 .. Len(m.ducked) |-> windows[i]]
    BY <1>2
  <2> QED
    BY ONLY <1>2, <1>3, <2>1 DEF Range
<1>6. ASSUME NEW v \in Spoke(f, m), NEW i \in DOMAIN windows, m.ducked[i] = Shared(v, m)
      PROVE  /\ IsWindow(windows[i], samples)
             /\ windows[i].voiceStart = SamplesFor(Shared(v, m).start)
             /\ windows[i].voiceEnd = SamplesFor(Shared(v, m).end)
             /\ \A s \in Nat : s < samples =>
                  (Reaches(windows[i], s) <=>
                     /\ SamplesFor(Shared(v, m).start) <= s + SamplesFor(DuckingAttack)
                     /\ s < SamplesFor(Shared(v, m).end) + SamplesFor(DuckingRelease))
  <2> DEFINE d == Shared(v, m)
             w == windows[i]
  <2>1. d.start = v.at.start /\ (d.end = v.at.end \/ d.end = m.at.end)
    BY DEF Shared, Interval
  <2>2. d.start \in Nat /\ d.end \in Nat /\ d.start < d.end /\ d.end <= m.at.end
    BY <1>1, <1>2, <2>1
  <2>3. w = Window(d, 0, SamplesFor(m.at.end))
    BY <1>3, <1>6
  <2> HIDE DEF d, w
  <2>4. /\ IsWindow(w, SamplesFor(m.at.end))
        /\ w.voiceStart = SamplesFor(d.start) /\ w.voiceEnd = SamplesFor(d.end)
        /\ \A s \in Nat : s < SamplesFor(m.at.end) =>
             (Reaches(w, s) <=> /\ SamplesFor(d.start) <= s + SamplesFor(DuckingAttack)
                                /\ s < SamplesFor(d.end) + SamplesFor(DuckingRelease))
    BY <1>1, <2>2, <2>3, WindowOfVoice
  <2> QED
    BY <2>4 DEF d, w
<1> QED
  BY <1>2, <1>3, <1>4, <1>5, <1>6

(* Music that ducks gives way to every voice, and to nothing else.         *)
LEMMA MusicGivesWay ==
    ASSUME EveryFrameSounds, Timeline(TheFilm), Sounded(TheFilm), NEW m, IsMusic(TheFilm, m),
           m.target \notin {{}, {m.gain}}, m.gain # 0, m.ducked # <<>>, m.at.start < m.at.end
    PROVE  GivesWay(m, Track(m, 0))
<1> DEFINE track == Track(m, 0)
           samples == SamplesFor(m.at.end)
           windows == [i \in DOMAIN m.ducked |-> Window(m.ducked[i], m.at.start, samples)]
           q == MergeWindows(windows)
           segs == GainSegments(q, samples)
           attack == SamplesFor(DuckingAttack)
           release == SamplesFor(DuckingRelease)
           first(v) == SamplesFor(Shared(v, m).start)
           final(v) == SamplesFor(Shared(v, m).end)
           voices == Spoke(TheFilm, m)
           near(v, s) == first(v) <= s + attack /\ s < final(v) + release
<1>1. m.kind = "music" /\ m.at.start = 0 /\ m.at.end \in Nat
  BY DEF IsMusic, Interval, Timeline
<1>2. /\ samples \in Nat /\ windows \in Seq(Range(windows))
      /\ \A i \in DOMAIN windows : IsWindow(windows[i], samples)
      /\ \A i \in DOMAIN windows : \E v \in voices : \A s \in Nat : s < samples =>
           (Reaches(windows[i], s) <=> near(v, s))
      /\ \A v \in voices : \E i \in DOMAIN windows :
           /\ windows[i].voiceStart = first(v) /\ windows[i].voiceEnd = final(v)
           /\ \A s \in Nat : s < samples => (Reaches(windows[i], s) <=> near(v, s))
  <2> HIDE DEF samples, windows, voices
  <2>1. samples = SamplesFor(m.at.end)
    BY DEF samples
  <2>2. windows = [i \in DOMAIN m.ducked |-> Window(m.ducked[i], m.at.start, samples)]
    BY DEF windows
  <2>3. m.target # {}
    OBVIOUS
  <2>4. /\ samples \in Nat /\ windows \in Seq(Range(windows))
        /\ \A i \in DOMAIN windows :
             /\ IsWindow(windows[i], samples)
             /\ \E v \in Spoke(TheFilm, m) : \A s \in Nat : s < samples =>
                  (Reaches(windows[i], s) <=>
                     /\ SamplesFor(Shared(v, m).start) <= s + SamplesFor(DuckingAttack)
                     /\ s < SamplesFor(Shared(v, m).end) + SamplesFor(DuckingRelease))
        /\ \A v \in Spoke(TheFilm, m) : \E i \in DOMAIN windows :
             /\ windows[i].voiceStart = SamplesFor(Shared(v, m).start)
             /\ windows[i].voiceEnd = SamplesFor(Shared(v, m).end)
             /\ \A s \in Nat : s < samples =>
                  (Reaches(windows[i], s) <=>
                     /\ SamplesFor(Shared(v, m).start) <= s + SamplesFor(DuckingAttack)
                     /\ s < SamplesFor(Shared(v, m).end) + SamplesFor(DuckingRelease))
    <3> HIDE DEF first, final, attack, release, near
    <3> QED
      BY ONLY <2>1, <2>2, <2>3, EveryFrameSounds, Timeline(TheFilm), Sounded(TheFilm), IsMusic(TheFilm, m),
              m.at.start < m.at.end, WindowsOfMusic
  <2> QED
    BY ONLY <2>4 DEF voices, near, first, final, attack, release
<1>3. /\ track.delay = 0 /\ track.samples = samples /\ track.segments = segs
  <2>1. m.at.end - m.at.start = m.at.end /\ m.at.start - 0 = 0
    BY <1>1
  <2>2. SamplesFor(0) = 0
    BY SampleBounds
  <2>3. Ducking(m, samples) = segs
    BY <1>1 DEF Ducking
  <2>4. Span(m.at) = m.at.end
    BY <2>1 DEF Span
  <2> HIDE DEF samples, segs
  <2>5. samples = SamplesFor(m.at.end)
    BY DEF samples
  <2> QED
    BY <2>1, <2>2, <2>3, <2>4, <2>5 DEF Track
<1> HIDE DEF samples, windows, voices
<1>4. /\ q \in Seq(Range(q)) /\ \A i \in DOMAIN q : IsWindow(q[i], samples)
      /\ \A i, j \in DOMAIN q : i < j => q[i].releaseEnd <= q[j].attackStart
      /\ \A i \in DOMAIN windows : \E j \in DOMAIN q : Envelops(q[j], windows[i])
      /\ \A j \in DOMAIN q, s \in Nat : Reaches(q[j], s) => \E i \in DOMAIN windows : Reaches(windows[i], s)
  BY <1>2, MergesWindows
<1> HIDE DEF q
<1>5. Apart(q, samples)
  BY <1>4 DEF Apart
<1>60. segs = GainSegments(q, samples)
  OBVIOUS
<1> HIDE DEF segs
<1>6. /\ \A n \in 1 .. Len(segs) - 1 : EndsDucked(segs[n].phase) <=> StartsDucked(segs[n + 1].phase)
      /\ \A s \in Nat : s < samples =>
           /\ Cardinality(Phases(segs, s)) = 1
           /\ (\E i \in DOMAIN q : q[i].voiceStart <= s /\ s < q[i].voiceEnd) => Phases(segs, s) = {"Target"}
           /\ Phases(segs, s) = {"Base"} <=> \A i \in DOMAIN q : ~Reaches(q[i], s)
  BY <1>2, <1>5, <1>60, PhasesFollow, RampsMeet
<1>7. \A v \in voices : v.at.start \in Nat /\ v.at.end \in Nat
  BY DuckedVoices DEF voices
<1>8. \A v \in voices : /\ first(v) = SamplesFor(v.at.start)
                        /\ final(v) = SamplesFor(Min({v.at.end, m.at.end}))
                        /\ first(v) \in Nat /\ final(v) \in Nat
  <2> SUFFICES ASSUME NEW v \in voices
               PROVE  /\ first(v) = SamplesFor(v.at.start)
                      /\ final(v) = SamplesFor(Min({v.at.end, m.at.end}))
                      /\ first(v) \in Nat /\ final(v) \in Nat
    OBVIOUS
  <2>1. Min({v.at.end, m.at.end}) = IF v.at.end <= m.at.end THEN v.at.end ELSE m.at.end
    BY <1>1, <1>7, SmallerAndLarger
  <2>2. Shared(v, m).start = v.at.start /\ Shared(v, m).end = Min({v.at.end, m.at.end})
    BY <2>1 DEF Shared, Interval
  <2>3. Shared(v, m).end \in Nat
    BY <1>1, <1>7, <2>1, <2>2
  <2> QED
    BY <1>7, <2>2, <2>3, SampleBounds
<1>9. \A s \in Nat : s < samples =>
        /\ (\E v \in voices : first(v) <= s /\ s < final(v)) => Phases(segs, s) = {"Target"}
        /\ Phases(segs, s) = {"Base"} <=> \A v \in voices : ~near(v, s)
  <2> SUFFICES ASSUME NEW s \in Nat, s < samples
               PROVE  /\ (\E v \in voices : first(v) <= s /\ s < final(v)) => Phases(segs, s) = {"Target"}
                      /\ Phases(segs, s) = {"Base"} <=> \A v \in voices : ~near(v, s)
    OBVIOUS
  <2> HIDE DEF first, final
  <2>1. ASSUME NEW j \in DOMAIN q, NEW i \in DOMAIN windows, Envelops(q[j], windows[i])
        PROVE  /\ windows[i].voiceStart <= s /\ s < windows[i].voiceEnd =>
                    q[j].voiceStart <= s /\ s < q[j].voiceEnd
               /\ Reaches(windows[i], s) => Reaches(q[j], s)
    <3>1. IsWindow(q[j], samples) /\ IsWindow(windows[i], samples)
      BY <1>2, <1>4
    <3>2. /\ {q[j].attackStart, q[j].voiceStart, q[j].voiceEnd, q[j].releaseEnd} \subseteq Nat
          /\ {windows[i].attackStart, windows[i].voiceStart, windows[i].voiceEnd, windows[i].releaseEnd} \subseteq Nat
      BY <3>1 DEF IsWindow
    <3> QED
      BY <2>1, <3>2 DEF Envelops, Reaches
  <2>2. ASSUME NEW v \in voices, first(v) <= s, s < final(v)
        PROVE  \E i \in DOMAIN q : q[i].voiceStart <= s /\ s < q[i].voiceEnd
    BY <1>2, <1>4, <2>1, <2>2
  <2>3. ASSUME NEW v \in voices, near(v, s) PROVE \E i \in DOMAIN q : Reaches(q[i], s)
    <3> HIDE DEF near
    <3> QED
      BY <1>2, <1>4, <2>1, <2>3
  <2>4. ASSUME NEW j \in DOMAIN q, Reaches(q[j], s) PROVE \E v \in voices : near(v, s)
    <3> HIDE DEF near
    <3> QED
      BY <1>2, <1>4, <2>4
  <2> HIDE DEF near
  <2> QED
    BY <1>6, <2>2, <2>3, <2>4
<1>10. /\ \A s \in Nat : Sounds(track, s) <=> s < samples
       /\ \A s \in Nat : PhaseAt(track, s) = Phases(segs, s)
  <2>1. \A s \in Nat : s - track.delay = s
    BY <1>3
  <2> HIDE DEF track
  <2> QED
    BY <1>2, <1>3, <2>1 DEF Sounds, PhaseAt, Phases
<1>11. voices = {v \in Range(Audio(TheFilm)) : v.kind = "voice" /\ Intersects(v.at, m.at)}
  BY DEF voices, Spoke
<1> HIDE DEF track
<1>12. \A s \in 0 .. OutputSamples(TheFilm) - 1 : s \in Nat
  BY SampleBounds DEF Timeline, OutputSamples
<1>13. \A s \in Nat : Sounds(track, s) =>
         /\ Cardinality(PhaseAt(track, s)) = 1
         /\ (\E v \in voices : SamplesFor(v.at.start) <= s /\ s < SamplesFor(Min({v.at.end, m.at.end})))
               => PhaseAt(track, s) = {"Target"}
         /\ PhaseAt(track, s) = {"Base"} <=>
              \A v \in voices : ~(/\ SamplesFor(v.at.start) <= s + attack
                                  /\ s < SamplesFor(Min({v.at.end, m.at.end})) + release)
  <2> HIDE DEF first, final, attack, release
  <2> QED
    BY <1>6, <1>8, <1>9, <1>10, ZenonT(30)
<1> QED
  BY <1>3, <1>6, <1>11, <1>12, <1>13 DEF GivesWay, track

(* The audio of a film that is rendered.                                   *)
(* AudioIsMixedOnce                                                        *)
THEOREM AudioIsMixedOnceHolds ==
  ASSUME EveryFrameSounds
  PROVE  Spec => []AudioIsMixedOnce
<1>1. ASSUME TInv, Plannable, Audible PROVE AudioIsMixedOnce
  <2> SUFFICES ASSUME Renders, snapshot = {} PROVE
                 /\ Mix(units) = [n \in DOMAIN Audio(TheFilm) |-> n]
                 /\ MixFaults(units) \subseteq {"PlanTooLarge"}
                 /\ \A n \in DOMAIN Audio(TheFilm) :
                      LET audio == Audio(TheFilm)[n]
                          track == Track(audio, units[1].plan.output.start)
                      IN /\ track.delay < OutputSamples(TheFilm)
                         /\ track.envelope.inSamples <= track.envelope.outStart /\ track.envelope.outSamples >= 0
                         /\ audio.kind = "music" /\ audio.gain # 0 /\ audio.target \notin {{}, {audio.gain}}
                              /\ audio.ducked # <<>> => GivesWay(audio, track)
    BY DEF AudioIsMixedOnce
  <2>1. phase = "planned"
    BY DEF Renders
  <2>2. Timeline(TheFilm) /\ Sounded(TheFilm) /\ PlannedAs(TheFilm, units, refused, presentation)
    BY <1>1, <2>1, SolvedFilm, SoundedFilm DEF Plannable, Planned
  <2>3. Mix(units) = [n \in DOMAIN Audio(TheFilm) |-> n] /\ MixFaults(units) \subseteq {"PlanTooLarge"}
    BY <2>2, MixIsCanonical
  <2>4. ASSUME NEW n \in DOMAIN Audio(TheFilm)
        PROVE  LET audio == Audio(TheFilm)[n]
                   track == Track(audio, units[1].plan.output.start)
               IN /\ track.delay < OutputSamples(TheFilm)
                  /\ track.envelope.inSamples <= track.envelope.outStart /\ track.envelope.outSamples >= 0
                  /\ audio.kind = "music" /\ audio.gain # 0 /\ audio.target \notin {{}, {audio.gain}}
                       /\ audio.ducked # <<>> => GivesWay(audio, track)
    <3> DEFINE audio == Audio(TheFilm)[n]
               track == Track(audio, units[1].plan.output.start)
    <3>1. IsInput(TheFilm, audio)
      <4>1. Audio(TheFilm)[n] \in Range(Audio(TheFilm))
        BY DEF Range
      <4> QED
        BY <2>2, <4>1, AudioOfFilm
    <3>2. audio.at.start \in Nat /\ audio.at.start < audio.at.end /\ audio.at.end \in Nat
          /\ audio.at.end <= TheFilm.end /\ TheFilm.end \in Nat
      BY <2>2, <3>1, SolveAssumption DEF IsInput, Timeline
    <3>3. units[1].plan.output.start = 0
      <4>1. 0 \in 0 .. TheFilm.end - 1
        BY <3>2
      <4>2. 1 \in DOMAIN Regions(TheFilm)
        BY <2>2, <4>1, RegionsCover, RegionsOfFilm
      <4>3. Regions(TheFilm)[1].output.start = 0
        BY <2>2, <4>2, RegionsOfFilm DEF Tiles
      <4> QED
        BY <1>1, <2>1, <4>2, <4>3, PlannedUnits
    <3>4. track = Track(audio, 0)
      BY <3>3
    <3> HIDE DEF audio, track
    <3>5. /\ track.delay < OutputSamples(TheFilm)
          /\ track.envelope.inSamples <= track.envelope.outStart /\ track.envelope.outSamples >= 0
      BY <3>1, <3>2, <3>4, TrackFits
    <3>6. ASSUME audio.kind = "music", audio.gain # 0, audio.target \notin {{}, {audio.gain}}, audio.ducked # <<>>
          PROVE  GivesWay(audio, track)
      <4>1. IsMusic(TheFilm, audio)
        BY <3>1, <3>6 DEF IsInput
      <4> QED
        BY <2>2, <3>2, <3>4, <3>6, <4>1, MusicGivesWay
    <3> QED
      BY <3>5, <3>6 DEF audio, track
  <2> QED
    BY <2>3, <2>4
<1> QED
  BY <1>1, SolverHolds, PlannableHolds, AudibleHolds, PTL
=============================================================================
