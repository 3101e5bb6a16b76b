---------------------------- MODULE Assembly_proofs ----------------------------
(***************************************************************************)
(* For any plan, workers, destinations, faults, retries and damage: a      *)
(* published artifact is whole, never replaced, what a capture returns has *)
(* been verified, and the video that is published is the film of the plan. *)
(*                                                                         *)
(* The invariant follows an artifact from its draft, whose records are a   *)
(* prefix of the unit's film, over the sealed and synced file to the       *)
(* published one.  Shelf says what damage cannot do to it: no damaged file *)
(* passes the digest of a header that still names a unit.                  *)
(*                                                                         *)
(* What the encoder is fed is a prefix of the reader's records until the   *)
(* reader has verified all of them; the digest then makes them the film    *)
(* that the header vouches for, by what Shelf says about every file.       *)
(***************************************************************************)
EXTENDS Assembly, TLAPS

(* Part one: the artifacts, as FrameArtifact captures them. *)
Shape ==
    /\ files \in [Paths -> Files \cup {None}]
    /\ damaged \subseteq Paths
    /\ pc \in [Workers -> Labels]
    /\ at \in [Workers -> Nat]
    /\ staged \in [Workers -> Seq(Files)]
    /\ claim \in [Workers -> Headers \cup {None}]
    /\ results \in [Workers -> Seq(Headers)]

Bounds == faults \in 0..MaxFaults /\ restarts \in 0..MaxRestarts

(* The records are frames 1, 2, ... of the unit. *)
Draft(file, u) ==
    \A i \in DOMAIN file.records : \E t \in Takes : file.records[i] = Frame(u, i, t)

Whole(file, u) == file.records \in Films(u) /\ file.header = Header(u, file.records)

Progress(w) ==
    /\ at[w] \in 1..Len(Jobs[w])
    /\ Len(staged[w]) <= Len(Jobs[w])
    /\ pc[w] = "create" => Len(staged[w]) = at[w] - 1
    /\ pc[w] \in {"capture", "seal", "sync", "link"} => Len(staged[w]) = Len(Jobs[w])
    /\ pc[w] = "failed" => at[w] = 1 /\ staged[w] = <<>>
    /\ pc[w] \in {"create", "capture", "failed"} => results[w] = <<>>
    /\ pc[w] \in {"seal", "sync", "link", "classify", "open", "verify"} =>
         Len(results[w]) = at[w] - 1

Drafts(w) == \A k \in DOMAIN staged[w] : Draft(staged[w][k], Jobs[w][k].unit)

Sealed(w) ==
    pc[w] \in {"sync", "link"} =>
        Whole(Mine(w), MyJob(w).unit) /\ (pc[w] = "link" => Mine(w).synced)

Claimed(w) ==
    /\ pc[w] \in {"open", "verify"} => w \in Reusing
    /\ pc[w] = "verify" => claim[w] # None /\ claim[w].unit = MyJob(w).unit

Worker(w) == Progress(w) /\ Drafts(w) /\ Sealed(w) /\ Claimed(w)

(* What a published file may be, damaged ones included. *)
Shelved(file) ==
    /\ file.synced
    /\ Len(file.records) > 0
    /\ \/ file.header = None
       \/ file.header.unit = None
       \/ file.header.digest = <<>>
       \/ file.header.digest \in Films(file.header.unit)

Shelf == \A p \in Paths : Exists(p) => Shelved(files[p])

IInv == Shape /\ Bounds /\ (\A w \in Workers : Worker(w)) /\ Shelf /\ PublishedIsWhole

-----------------------------------------------------------------------------
(* Facts about jobs and films *)

(* A worker is always at a job it has. *)
LEMMA JobFact ==
    ASSUME NEW w \in Workers, at[w] \in 1..Len(Jobs[w])
    PROVE MyJob(w) \in Job /\ MyJob(w).unit \in Units /\ MyJob(w).path \in Paths
<1>1. Jobs[w] \in Seq(Job)
  BY FrameArtifactAssumption
<1>2. MyJob(w) \in Job
  BY <1>1 DEF MyJob
<1> QED BY <1>2 DEF Job

(* A film is a sequence of frames, as long as its unit, and not empty. *)
LEMMA FilmFact ==
    ASSUME NEW u \in Units, NEW film \in Films(u)
    PROVE film \in Seq(Frames) /\ Len(film) = Length[u] /\ Len(film) > 0
<1>1. Length[u] \in Nat /\ Length[u] > 0
  BY FrameArtifactAssumption
<1>2. PICK t \in [1..Length[u] -> Takes] : film = [i \in 1..Length[u] |-> Frame(u, i, t[i])]
  BY DEF Films
<1>3. \A i \in 1..Length[u] : Frame(u, i, t[i]) \in Frames
  BY <1>1 DEF Frame, Frames
<1> QED BY <1>1, <1>2, <1>3

(* A draft as long as its unit is a film of it. *)
LEMMA DraftIsFilm ==
    ASSUME NEW u \in Units, NEW file \in Files, Draft(file, u), Len(file.records) = Length[u]
    PROVE file.records \in Films(u)
<1>1. Length[u] \in Nat /\ file.records \in Seq(Frames)
  BY FrameArtifactAssumption DEF Files
<1> DEFINE t == [i \in 1..Length[u] |-> CHOOSE x \in Takes : file.records[i] = Frame(u, i, x)]
<1>2. t \in [1..Length[u] -> Takes] /\ \A i \in 1..Length[u] : file.records[i] = Frame(u, i, t[i])
  BY <1>1 DEF Draft
<1>3. file.records = [i \in 1..Length[u] |-> file.records[i]]
  BY <1>1
<1>4. file.records = [i \in 1..Length[u] |-> Frame(u, i, t[i])]
  BY <1>2, <1>3
<1> HIDE DEF t
<1> QED BY <1>2, <1>4 DEF Films

(* A whole file goes onto the shelf. *)
LEMMA WholeIsShelved ==
    ASSUME NEW u \in Units, NEW file \in Files, Whole(file, u), file.synced
    PROVE Shelved(file)
BY FilmFact DEF Whole, Shelved, Header

(* Damage leaves a file that no header vouches for. *)
LEMMA HarmFact ==
    ASSUME NEW file \in Files, Shelved(file), file.header # None, NEW harmed \in Harmed(file)
    PROVE harmed \in Files /\ Shelved(harmed)
<1>1. file.records \in Seq(Frames) /\ file.header \in Headers /\ file.synced \in BOOLEAN
  BY DEF Files
<1>2. CASE harmed = [file EXCEPT !.header = None]
  BY <1>1, <1>2 DEF Files, Shelved
<1>3. CASE harmed = [file EXCEPT !.header.unit = None]
  BY <1>1, <1>3 DEF Files, Shelved, Headers
<1>4. CASE harmed = [file EXCEPT !.header.digest = <<>>]
  <2>0. <<>> \in Seq(Frames)
    OBVIOUS
  <2>1. [file.header EXCEPT !.digest = <<>>] \in Headers
    BY <1>1, <2>0 DEF Headers
  <2>2. harmed.header = [file.header EXCEPT !.digest = <<>>] /\ harmed.records = file.records
        /\ harmed.synced = file.synced /\ harmed = [header |-> harmed.header,
             records |-> harmed.records, synced |-> harmed.synced]
    BY <1>4 DEF Files
  <2>3. harmed.header.digest = <<>>
    BY <1>1, <2>2 DEF Headers
  <2> QED BY <1>1, <2>1, <2>2, <2>3 DEF Files, Shelved
<1>5. CASE \E i \in DOMAIN file.records, harm \in {"torn", "altered"} :
               harmed = [file EXCEPT !.records[i].harm = harm]
  <2>1. PICK i \in DOMAIN file.records, harm \in {"torn", "altered"} :
               harmed = [file EXCEPT !.records[i].harm = harm]
    BY <1>5
  <2>2. /\ harmed = [file EXCEPT !.records = [file.records EXCEPT ![i] = [@ EXCEPT !.harm = harm]]]
        /\ file.records[i] \in Frames
    BY <1>1, <2>1 DEF Files
  <2>3. [file.records[i] EXCEPT !.harm = harm] \in Frames
    BY <2>1, <2>2 DEF Frames
  <2>4. [file.records EXCEPT ![i] = [@ EXCEPT !.harm = harm]] \in Seq(Frames)
    BY <1>1, <2>1, <2>3
  <2>5. Len([file.records EXCEPT ![i] = [@ EXCEPT !.harm = harm]]) = Len(file.records)
    BY <1>1, <2>1
  <2> QED BY <1>1, <2>2, <2>4, <2>5 DEF Files, Shelved
<1> QED BY <1>2, <1>3, <1>4, <1>5 DEF Harmed

-----------------------------------------------------------------------------
(* The steps of one worker *)

Untouched(v) ==
    /\ pc'[v] = pc[v] /\ at'[v] = at[v] /\ staged'[v] = staged[v]
    /\ claim'[v] = claim[v] /\ results'[v] = results[v]

LEMMA OthersKeep ==
    ASSUME NEW v, Worker(v), Untouched(v)
    PROVE Worker(v)'
BY DEF Untouched, Worker, Progress, Drafts, Draft, Sealed, Whole, Claimed, Mine, MyJob

(* A step of w that leaves the published files alone. *)
LEMMA LocalStep ==
    ASSUME IInv, NEW w \in Workers, UNCHANGED <<files, damaged>>, Bounds', Shape',
           \A v \in Workers \ {w} : Untouched(v), Worker(w)'
    PROVE IInv'
<1>1. \A v \in Workers : Worker(v)'
  BY OthersKeep DEF IInv
<1>2. Shelf' /\ PublishedIsWhole'
  BY DEF IInv, Shelf, Shelved, PublishedIsWhole, Exists
<1> QED BY <1>1, <1>2 DEF IInv

(* Replacing a member of a sequence. *)
LEMMA ReplaceFact ==
    ASSUME NEW S, NEW s \in Seq(S), NEW k \in DOMAIN s, NEW x \in S
    PROVE /\ [s EXCEPT ![k] = x] \in Seq(S) /\ Len([s EXCEPT ![k] = x]) = Len(s)
          /\ [s EXCEPT ![k] = x][k] = x
          /\ \A j \in DOMAIN s : j # k => [s EXCEPT ![k] = x][j] = s[j]
OBVIOUS

LEMMA BlankFact == Blank \in Files /\ Blank.records = <<>>
<1>1. <<>> \in Seq(Frames)
  OBVIOUS
<1> QED BY <1>1 DEF Blank, Files

(* What a worker of the invariant is: its types, and the job it is at. *)
LEMMA AtWork ==
    ASSUME IInv, NEW w \in Workers
    PROVE /\ Shape /\ Bounds /\ Progress(w) /\ Drafts(w) /\ Sealed(w) /\ Claimed(w)
          /\ at[w] \in Nat /\ at[w] \in 1..Len(Jobs[w]) /\ Len(Jobs[w]) \in Nat
          /\ Jobs[w] \in Seq(Job)
          /\ MyJob(w) \in Job /\ MyJob(w).unit \in Units /\ MyJob(w).path \in Paths
          /\ staged[w] \in Seq(Files) /\ results[w] \in Seq(Headers)
<1>1. Shape /\ Bounds /\ Worker(w)
  BY DEF IInv
<1>2. Progress(w) /\ at[w] \in 1..Len(Jobs[w])
  BY <1>1 DEF Worker, Progress
<1>3. Jobs[w] \in Seq(Job)
  BY FrameArtifactAssumption
<1> QED BY <1>1, <1>2, <1>3, JobFact DEF Shape, Worker

LEMMA CreateStep == ASSUME IInv, NEW w \in Workers, Create(w) PROVE IInv'
<1> USE AtWork
<1>1. Shape' /\ Bounds'
  BY BlankFact DEF Create, Shape, Bounds, Advance, quiet, Labels
<1>2. \A v \in Workers \ {w} : Untouched(v)
  BY DEF Create, Shape, Advance, Untouched
<1>3. /\ staged'[w] = Append(staged[w], Blank) /\ claim'[w] = claim[w] /\ results'[w] = results[w]
      /\ pc'[w] = IF Last(w) THEN "capture" ELSE "create"
      /\ at'[w] = IF Last(w) THEN 1 ELSE at[w] + 1
      /\ pc[w] = "create"
  BY DEF Create, Shape, Advance
<1>4. Progress(w)'
  BY <1>3, BlankFact DEF Progress, Last
<1>5. Drafts(w)'
  <2> SUFFICES ASSUME NEW k \in DOMAIN staged'[w]
               PROVE Draft(staged'[w][k], Jobs[w][k].unit)
    BY DEF Drafts, Draft
  <2>1. CASE k \in DOMAIN staged[w]
    BY <1>3, <2>1 DEF Drafts
  <2>2. CASE k = Len(staged[w]) + 1
    BY <1>3, <2>2, BlankFact DEF Draft
  <2> QED BY <1>3, <2>1, <2>2
<1>6. Sealed(w)' /\ Claimed(w)'
  BY <1>3 DEF Sealed, Claimed
<1> QED BY <1>1, <1>2, <1>4, <1>5, <1>6, LocalStep DEF Create, Worker, quiet

LEMMA CaptureStep == ASSUME IInv, NEW w \in Workers, Capture(w) PROVE IInv'
<1> USE AtWork
<1> DEFINE u == MyJob(w).unit
<1> DEFINE n == Len(Mine(w).records)
<1>0. at[w] \in DOMAIN staged[w] /\ Mine(w) \in Files
  BY DEF Capture, Progress, Mine
<1>1. at[w] \in DOMAIN staged[w] /\ Mine(w) \in Files /\ Mine(w).records \in Seq(Frames) /\ n \in Nat
  BY <1>0 DEF Files
<1>2. PICK t \in Takes : staged' = [staged EXCEPT ![w][at[w]].records = Append(@, Frame(u, n + 1, t))]
  BY DEF Capture
<1> DEFINE file == [Mine(w) EXCEPT !.records = Append(@, Frame(u, n + 1, t))]
<1>3. Frame(u, n + 1, t) \in Frames
  BY <1>1 DEF Frame, Frames
<1>4. file \in Files /\ file.records = Append(Mine(w).records, Frame(u, n + 1, t))
  <2>1. Append(Mine(w).records, Frame(u, n + 1, t)) \in Seq(Frames)
    BY <1>1, <1>3
  <2> QED BY <1>1, <2>1 DEF Files
<1>5. staged' = [staged EXCEPT ![w] = [staged[w] EXCEPT ![at[w]] = file]]
  BY <1>2 DEF Mine, Shape
<1> HIDE DEF file
<1>6. /\ staged'[w] = [staged[w] EXCEPT ![at[w]] = file] /\ staged'[w] \in Seq(Files)
      /\ Len(staged'[w]) = Len(staged[w])
  <2>1. staged'[w] = [staged[w] EXCEPT ![at[w]] = file]
    BY <1>5 DEF Shape
  <2> QED BY <1>1, <1>4, <2>1, ReplaceFact
<1>7. Shape' /\ Bounds'
  BY <1>5, <1>6 DEF Capture, Shape, Bounds, quiet
<1>8. \A v \in Workers \ {w} : Untouched(v)
  BY <1>5 DEF Capture, Shape, Untouched
<1>9. Draft(Mine(w), u)
  BY <1>1 DEF Drafts, Mine, MyJob
<1>10. Draft(file, u)
  <2> SUFFICES ASSUME NEW i \in DOMAIN file.records
               PROVE \E x \in Takes : file.records[i] = Frame(u, i, x)
    BY DEF Draft
  <2>1. CASE i \in DOMAIN Mine(w).records
    <3>1. file.records[i] = Mine(w).records[i]
      BY <1>1, <1>3, <1>4, <2>1
    <3> QED BY <1>9, <2>1, <3>1 DEF Draft
  <2>2. CASE i = n + 1
    <3>1. file.records[i] = Frame(u, n + 1, t)
      BY <1>1, <1>3, <1>4, <2>2
    <3> QED BY <2>2, <3>1
  <2> QED BY <1>1, <1>3, <1>4, <2>1, <2>2
<1>11. Drafts(w)'
  <2> SUFFICES ASSUME NEW k \in DOMAIN staged'[w]
               PROVE Draft(staged'[w][k], Jobs[w][k].unit)
    BY DEF Drafts, Draft
  <2>1. CASE k = at[w]
    BY <1>1, <1>6, <1>10, <2>1 DEF MyJob
  <2>2. CASE k # at[w]
    BY <1>1, <1>6, <2>2 DEF Drafts
  <2> QED BY <2>1, <2>2
<1>12. Progress(w)' /\ Sealed(w)' /\ Claimed(w)'
  BY <1>6 DEF Capture, Progress, Sealed, Claimed
<1> QED BY <1>7, <1>8, <1>11, <1>12, LocalStep DEF Capture, Worker, quiet

(* The file a worker has in hand once it captures. *)
LEMMA MineFact ==
    ASSUME IInv, NEW w \in Workers, pc[w] \in {"capture", "seal", "sync", "link"}
    PROVE /\ at[w] \in DOMAIN staged[w] /\ Mine(w) \in Files
          /\ Mine(w).records \in Seq(Frames) /\ Draft(Mine(w), MyJob(w).unit)
<1>1. at[w] \in DOMAIN staged[w]
  BY AtWork DEF Progress
<1>2. Mine(w) \in Files /\ Draft(Mine(w), MyJob(w).unit)
  BY <1>1, AtWork DEF Mine, MyJob, Drafts
<1> QED BY <1>1, <1>2 DEF Files

(* Exchanging the file in hand for one with the same records, or none. *)
LEMMA ExchangeFact ==
    ASSUME IInv, NEW w \in Workers, pc[w] \in {"capture", "seal", "sync", "link"},
           NEW file \in Files, Draft(file, MyJob(w).unit),
           staged' = [staged EXCEPT ![w] = [staged[w] EXCEPT ![at[w]] = file]]
    PROVE /\ staged' \in [Workers -> Seq(Files)]
          /\ Len(staged'[w]) = Len(staged[w])
          /\ staged'[w][at[w]] = file
          /\ Drafts(w)'
          /\ \A v \in Workers \ {w} : staged'[v] = staged[v]
<1>1. /\ staged'[w] = [staged[w] EXCEPT ![at[w]] = file] /\ staged'[w] \in Seq(Files)
      /\ Len(staged'[w]) = Len(staged[w]) /\ staged'[w][at[w]] = file
      /\ \A j \in DOMAIN staged[w] : j # at[w] => staged'[w][j] = staged[w][j]
  <2>1. staged'[w] = [staged[w] EXCEPT ![at[w]] = file]
    BY AtWork DEF Shape
  <2> QED BY MineFact, AtWork, ReplaceFact, <2>1
<1>2. Drafts(w)'
  <2> SUFFICES ASSUME NEW k \in DOMAIN staged'[w]
               PROVE Draft(staged'[w][k], Jobs[w][k].unit)
    BY DEF Drafts, Draft
  <2>1. k \in DOMAIN staged[w]
    BY <1>1, AtWork
  <2>2. CASE k = at[w]
    BY <1>1, <2>2 DEF MyJob
  <2>3. CASE k # at[w]
    BY <1>1, <2>1, <2>3, AtWork DEF Drafts
  <2> QED BY <2>2, <2>3
<1> QED BY <1>1, <1>2, AtWork DEF Shape

LEMMA CapturedStep == ASSUME IInv, NEW w \in Workers, Captured(w) PROVE IInv'
<1> USE AtWork
<1>1. Shape' /\ Bounds'
  BY DEF Captured, Shape, Bounds, Advance, quiet, Labels
<1>2. \A v \in Workers \ {w} : Untouched(v)
  BY DEF Captured, Shape, Advance, Untouched
<1>3. /\ UNCHANGED <<staged, claim, results>> /\ pc[w] = "capture"
      /\ pc'[w] = IF Last(w) THEN "seal" ELSE "capture"
      /\ at'[w] = IF Last(w) THEN 1 ELSE at[w] + 1
  BY DEF Captured, Shape, Advance
<1>4. Progress(w)'
  BY <1>3 DEF Progress, Last
<1>5. Drafts(w)' /\ Sealed(w)' /\ Claimed(w)'
  BY <1>3 DEF Drafts, Draft, Sealed, Claimed
<1> QED BY <1>1, <1>2, <1>4, <1>5, LocalStep DEF Captured, Worker, quiet

LEMMA SealStep == ASSUME IInv, NEW w \in Workers, Seal(w) PROVE IInv'
<1> USE AtWork
<1> DEFINE u == MyJob(w).unit
<1> DEFINE file == [Mine(w) EXCEPT !.header = Header(u, Mine(w).records)]
<1>1. Mine(w) \in Files /\ Mine(w).records \in Films(u)
  BY MineFact, DraftIsFilm DEF Seal
<1>2. Header(u, Mine(w).records) \in Headers
  BY MineFact DEF Seal, Header, Headers
<1>3. /\ file \in Files /\ file.records = Mine(w).records
      /\ file.header = Header(u, Mine(w).records)
  BY <1>1, <1>2 DEF Files
<1>4. staged' = [staged EXCEPT ![w] = [staged[w] EXCEPT ![at[w]] = file]]
  BY DEF Seal, Mine, Shape
<1> HIDE DEF file
<1>5. Draft(file, u)
  BY <1>3, MineFact DEF Draft, Seal
<1>6. /\ staged' \in [Workers -> Seq(Files)] /\ Len(staged'[w]) = Len(staged[w])
      /\ staged'[w][at[w]] = file /\ Drafts(w)'
      /\ \A v \in Workers \ {w} : staged'[v] = staged[v]
  BY <1>3, <1>4, <1>5, ExchangeFact DEF Seal
<1>7. Shape' /\ Bounds'
  BY <1>6 DEF Seal, Shape, Bounds, Goto, quiet, Labels
<1>8. \A v \in Workers \ {w} : Untouched(v)
  BY <1>6 DEF Seal, Shape, Goto, Untouched
<1>9. pc[w] = "seal" /\ pc'[w] = "sync" /\ UNCHANGED <<at, claim, results>>
  BY DEF Seal, Goto, Shape
<1>10. Progress(w)' /\ Claimed(w)'
  BY <1>6, <1>9 DEF Progress, Claimed
<1>11. Sealed(w)'
  BY <1>1, <1>3, <1>6, <1>9 DEF Sealed, Whole, Mine, MyJob
<1> QED BY <1>6, <1>7, <1>8, <1>10, <1>11, LocalStep DEF Seal, Worker, quiet

LEMMA SyncStep == ASSUME IInv, NEW w \in Workers, Sync(w) PROVE IInv'
<1> USE AtWork
<1> DEFINE u == MyJob(w).unit
<1> DEFINE file == [Mine(w) EXCEPT !.synced = TRUE]
<1>1. Mine(w) \in Files /\ Whole(Mine(w), u) /\ Draft(Mine(w), u)
  BY MineFact DEF Sync, Sealed
<1>2. /\ file \in Files /\ file.records = Mine(w).records
      /\ file.header = Mine(w).header /\ file.synced
  BY <1>1 DEF Files
<1>3. staged' = [staged EXCEPT ![w] = [staged[w] EXCEPT ![at[w]] = file]]
  BY DEF Sync, Mine, Shape
<1> HIDE DEF file
<1>4. Draft(file, u) /\ Whole(file, u)
  BY <1>1, <1>2 DEF Draft, Whole
<1>5. /\ staged' \in [Workers -> Seq(Files)] /\ Len(staged'[w]) = Len(staged[w])
      /\ staged'[w][at[w]] = file /\ Drafts(w)'
      /\ \A v \in Workers \ {w} : staged'[v] = staged[v]
  BY <1>2, <1>3, <1>4, ExchangeFact DEF Sync
<1>6. Shape' /\ Bounds'
  BY <1>5 DEF Sync, Shape, Bounds, Goto, quiet, Labels
<1>7. \A v \in Workers \ {w} : Untouched(v)
  BY <1>5 DEF Sync, Shape, Goto, Untouched
<1>8. pc[w] = "sync" /\ pc'[w] = "link" /\ UNCHANGED <<at, claim, results>>
  BY DEF Sync, Goto, Shape
<1>9. Progress(w)' /\ Claimed(w)'
  BY <1>5, <1>8 DEF Progress, Claimed
<1>10. Sealed(w)'
  BY <1>2, <1>4, <1>5, <1>8 DEF Sealed, Whole, Mine, MyJob
<1> QED BY <1>5, <1>6, <1>7, <1>9, <1>10, LocalStep DEF Sync, Worker, quiet

(* The file in hand, once linked, and what its header says. *)
LEMMA LinkedFact ==
    ASSUME IInv, NEW w \in Workers, pc[w] = "link"
    PROVE /\ Mine(w) \in Files /\ Mine(w) # None
          /\ Mine(w).synced /\ Shelved(Mine(w))
          /\ Mine(w).records \in Films(MyJob(w).unit)
          /\ Mine(w).header = Header(MyJob(w).unit, Mine(w).records)
          /\ Mine(w).header \in Headers
<1>1. Mine(w) \in Files /\ Mine(w).records \in Seq(Frames)
  BY MineFact
<1>2. Whole(Mine(w), MyJob(w).unit) /\ Mine(w).synced
  BY AtWork DEF Sealed
<1>3. Shelved(Mine(w))
  BY <1>1, <1>2, AtWork, WholeIsShelved
<1>4. Mine(w).header \in Headers
  BY <1>1, <1>2, AtWork DEF Whole, Header, Headers
<1> QED BY <1>1, <1>2, <1>3, <1>4, FrameArtifactAssumption DEF Whole

(* The writer of a job gone: linked, or dropped after a failed link. *)
LEMMA BlankedFact ==
    ASSUME IInv, NEW w \in Workers, pc[w] = "link",
           staged' = [staged EXCEPT ![w][at[w]] = Blank]
    PROVE /\ staged' \in [Workers -> Seq(Files)]
          /\ Len(staged'[w]) = Len(staged[w])
          /\ Drafts(w)'
          /\ \A v \in Workers \ {w} : staged'[v] = staged[v]
<1>1. Draft(Blank, MyJob(w).unit) /\ Blank \in Files
  BY BlankFact DEF Draft
<1>2. staged' = [staged EXCEPT ![w] = [staged[w] EXCEPT ![at[w]] = Blank]]
  BY AtWork DEF Shape
<1> QED BY <1>1, <1>2, ExchangeFact

(* A worker whose artifact is returned goes on to its next job or is done. *)
LEMMA ReturnFact ==
    ASSUME IInv, NEW w \in Workers, pc[w] \in {"link", "verify"}, NEW header \in Headers,
           Return(w, header), Len(staged'[w]) = Len(staged[w]), Drafts(w)'
    PROVE /\ Worker(w)' /\ pc'[w] \in {"seal", "done"}
          /\ pc' \in [Workers -> Labels] /\ at' \in [Workers -> Nat]
          /\ results' \in [Workers -> Seq(Headers)]
          /\ results'[w] = Append(results[w], header)
          /\ pc'[w] = "done" => Len(results'[w]) = Len(Jobs[w])
          /\ \A v \in Workers \ {w} :
               pc'[v] = pc[v] /\ at'[v] = at[v] /\ results'[v] = results[v]
<1> USE AtWork
<1>1. /\ results'[w] = Append(results[w], header)
      /\ pc'[w] = IF Last(w) THEN "done" ELSE "seal"
      /\ at'[w] = IF Last(w) THEN 1 ELSE at[w] + 1
      /\ Len(results[w]) = at[w] - 1
  BY DEF Return, Advance, Shape, Progress
<1>2. /\ pc' \in [Workers -> Labels] /\ at' \in [Workers -> Nat]
      /\ results' \in [Workers -> Seq(Headers)]
      /\ \A v \in Workers \ {w} :
           pc'[v] = pc[v] /\ at'[v] = at[v] /\ results'[v] = results[v]
  BY DEF Return, Advance, Shape, Labels
<1>3. pc[w] = "verify" => Last(w)
  <2> SUFFICES ASSUME pc[w] = "verify" PROVE Last(w)
    OBVIOUS
  <2>1. Len(Jobs[w]) = 1
    BY FrameArtifactAssumption DEF Claimed
  <2>2. at[w] \in 1..Len(Jobs[w])
    BY AtWork
  <2> QED BY <2>1, <2>2 DEF Last
<1>4. Len(results'[w]) = at[w]
  BY <1>1
<1>5. Progress(w)'
  <2>1. CASE Last(w)
    BY <1>1, <2>1 DEF Progress, Last
  <2>2. CASE ~Last(w)
    <3>1. pc[w] = "link" /\ Len(staged'[w]) = Len(Jobs[w]) /\ at'[w] \in 1..Len(Jobs[w])
      BY <1>1, <1>3, <2>2 DEF Progress, Last
    <3> QED BY <1>1, <1>4, <2>2, <3>1 DEF Progress
  <2> QED BY <2>1, <2>2
<1>6. Sealed(w)' /\ Claimed(w)'
  BY <1>1 DEF Sealed, Claimed
<1>7. pc'[w] = "done" => Len(results'[w]) = Len(Jobs[w])
  BY <1>1, <1>4 DEF Last
<1> QED BY <1>1, <1>2, <1>5, <1>6, <1>7 DEF Worker

LEMMA LinkStep == ASSUME IInv, NEW w \in Workers, Link(w) PROVE IInv'
<1> USE AtWork
<1> DEFINE job == MyJob(w)
<1>0. pc[w] = "link"
  BY DEF Link
<1>1. /\ files'[job.path] = Mine(w)
      /\ \A p \in Paths \ {job.path} : files'[p] = files[p]
      /\ files' \in [Paths -> Files \cup {None}]
      /\ damaged' = damaged \ {job.path}
  BY <1>0, LinkedFact DEF Link, Shape
<1>2. /\ staged' \in [Workers -> Seq(Files)] /\ Len(staged'[w]) = Len(staged[w])
      /\ Drafts(w)' /\ \A v \in Workers \ {w} : staged'[v] = staged[v]
  BY <1>0, BlankedFact DEF Link
<1>3. /\ Worker(w)'
      /\ pc' \in [Workers -> Labels] /\ at' \in [Workers -> Nat]
      /\ results' \in [Workers -> Seq(Headers)]
      /\ \A v \in Workers \ {w} :
           pc'[v] = pc[v] /\ at'[v] = at[v] /\ results'[v] = results[v]
  BY <1>0, <1>2, LinkedFact, ReturnFact DEF Link
<1>4. Shape' /\ Bounds'
  BY <1>1, <1>2, <1>3 DEF Link, Shape, Bounds
<1>5. \A v \in Workers : Worker(v)'
  <2>1. \A v \in Workers \ {w} : Untouched(v)
    BY <1>2, <1>3 DEF Link, Untouched
  <2> QED BY <1>3, <2>1, OthersKeep DEF IInv
<1>6. Shelf'
  <2> SUFFICES ASSUME NEW p \in Paths, files'[p] # None PROVE Shelved(files'[p])
    BY DEF Shelf, Exists, Shelved
  <2>1. CASE p = job.path
    BY <1>0, <1>1, <2>1, LinkedFact
  <2>2. CASE p # job.path
    BY <1>1, <2>2 DEF IInv, Shelf, Exists
  <2> QED BY <2>1, <2>2
<1>7. PublishedIsWhole'
  <2> SUFFICES ASSUME NEW p \in Paths, p \notin damaged', files'[p] # None
               PROVE /\ files'[p].synced
                     /\ \E v \in Workers : \E j \in DOMAIN Jobs[v] :
                          /\ Jobs[v][j].path = p
                          /\ files'[p].records \in Films(Jobs[v][j].unit)
                          /\ files'[p].header = Header(Jobs[v][j].unit, files'[p].records)
    BY DEF PublishedIsWhole, Exists
  <2>1. CASE p = job.path
    <3>1. at[w] \in DOMAIN Jobs[w] /\ Jobs[w][at[w]] = job
      BY DEF MyJob
    <3> QED BY <1>0, <1>1, <2>1, <3>1, LinkedFact, SMTT(30)
  <2>2. CASE p # job.path
    <3>1. p \in Paths \ damaged /\ files'[p] = files[p]
      BY <1>1, <2>2
    <3> QED BY <3>1 DEF IInv, PublishedIsWhole, Exists
  <2> QED BY <2>1, <2>2
<1> QED BY <1>4, <1>5, <1>6, <1>7 DEF IInv

LEMMA CollideStep == ASSUME IInv, NEW w \in Workers, Collide(w) PROVE IInv'
<1> USE AtWork
<1>1. /\ staged' \in [Workers -> Seq(Files)] /\ Len(staged'[w]) = Len(staged[w])
      /\ Drafts(w)' /\ \A v \in Workers \ {w} : staged'[v] = staged[v]
  BY BlankedFact DEF Collide
<1>2. Shape' /\ Bounds'
  BY <1>1 DEF Collide, Shape, Bounds, Goto, quiet, Labels
<1>3. \A v \in Workers \ {w} : Untouched(v)
  BY <1>1 DEF Collide, Shape, Goto, Untouched
<1>4. pc[w] = "link" /\ pc'[w] = "classify" /\ UNCHANGED <<at, claim, results>>
  BY DEF Collide, Goto, Shape
<1>5. Progress(w)' /\ Sealed(w)' /\ Claimed(w)'
  BY <1>1, <1>4 DEF Progress, Sealed, Claimed
<1> QED BY <1>1, <1>2, <1>3, <1>5, LocalStep DEF Collide, Worker, quiet

LEMMA FoundExistingStep == ASSUME IInv, NEW w \in Workers, FoundExisting(w) PROVE IInv'
<1> USE AtWork
<1>1. Shape' /\ Bounds'
  BY DEF FoundExisting, Shape, Bounds, Goto, quiet, Labels
<1>2. \A v \in Workers \ {w} : Untouched(v)
  BY DEF FoundExisting, Shape, Goto, Untouched
<1>3. /\ pc[w] \in {"create", "classify"} /\ pc'[w] = "open" /\ w \in Reusing
      /\ UNCHANGED <<at, staged, claim, results>>
  BY DEF FoundExisting, Goto, Shape
<1>4. Len(Jobs[w]) = 1
  BY <1>3, FrameArtifactAssumption
<1>5. Progress(w)'
  <2>1. Len(results[w]) = at[w] - 1
    <3>1. CASE pc[w] = "create"
      <4>1. results[w] = <<>> /\ at[w] = 1
        BY <1>4, <3>1 DEF Progress
      <4> QED BY <4>1
    <3>2. CASE pc[w] = "classify"
      BY <3>2 DEF Progress
    <3> QED BY <1>3, <3>1, <3>2
  <2> QED BY <1>3, <2>1 DEF Progress
<1>6. Drafts(w)' /\ Sealed(w)' /\ Claimed(w)'
  BY <1>3 DEF Drafts, Draft, Sealed, Claimed
<1> QED BY <1>1, <1>2, <1>5, <1>6, LocalStep DEF FoundExisting, Worker, quiet

LEMMA OpenStep == ASSUME IInv, NEW w \in Workers, Open(w) PROVE IInv'
<1> USE AtWork
<1> DEFINE header == files[MyJob(w).path].header
<1>1. header \in Headers /\ header # None /\ header.unit = MyJob(w).unit
  BY DEF Open, Readable, Exists, Shape, Files
<1>2. Shape' /\ Bounds'
  BY <1>1 DEF Open, Shape, Bounds, Goto, quiet, Labels
<1>3. \A v \in Workers \ {w} : Untouched(v)
  BY DEF Open, Shape, Goto, Untouched
<1>4. /\ pc[w] = "open" /\ pc'[w] = "verify" /\ claim'[w] = header
      /\ UNCHANGED <<at, staged, results>>
  BY DEF Open, Goto, Shape
<1>5. Progress(w)' /\ Drafts(w)' /\ Sealed(w)'
  BY <1>4 DEF Progress, Drafts, Draft, Sealed
<1>6. Claimed(w)'
  BY <1>1, <1>4 DEF Claimed, MyJob
<1> QED BY <1>2, <1>3, <1>5, <1>6, LocalStep DEF Open, Worker, quiet

LEMMA VerifyStep == ASSUME IInv, NEW w \in Workers, Verify(w) PROVE IInv'
<1> USE AtWork
<1>1. claim[w] \in Headers /\ pc[w] = "verify"
  BY DEF Verify, Claimed, Shape
<1>2. Len(staged'[w]) = Len(staged[w]) /\ Drafts(w)'
  BY DEF Verify, Drafts, Draft
<1>3. /\ Worker(w)'
      /\ pc' \in [Workers -> Labels] /\ at' \in [Workers -> Nat]
      /\ results' \in [Workers -> Seq(Headers)]
      /\ \A v \in Workers \ {w} :
           pc'[v] = pc[v] /\ at'[v] = at[v] /\ results'[v] = results[v]
  BY <1>1, <1>2, ReturnFact DEF Verify
<1>4. Shape' /\ Bounds'
  BY <1>3 DEF Verify, Shape, Bounds, quiet
<1>5. \A v \in Workers \ {w} : Untouched(v)
  BY <1>3 DEF Verify, Untouched
<1> QED BY <1>3, <1>4, <1>5, LocalStep DEF Verify, quiet

(* Dropped workers start over, the others do not notice. *)
LEMMA DropFact ==
    ASSUME IInv, NEW gone \in SUBSET Workers, Drop(gone)
    PROVE /\ \A w \in Workers : Worker(w)'
          /\ pc' \in [Workers -> Labels] /\ at' \in [Workers -> Nat]
          /\ staged' \in [Workers -> Seq(Files)]
          /\ claim' \in [Workers -> Headers \cup {None}]
          /\ results' \in [Workers -> Seq(Headers)]
<1>1. \A w \in gone :
        pc'[w] = "failed" /\ at'[w] = 1 /\ staged'[w] = <<>> /\ results'[w] = <<>>
  BY DEF Drop
<1>2. ASSUME NEW w \in gone PROVE Worker(w)'
  <2>1. Len(Jobs[w]) \in Nat /\ Len(Jobs[w]) > 0
    BY FrameArtifactAssumption
  <2>2. Progress(w)'
    BY <1>1, <2>1 DEF Progress
  <2>3. Drafts(w)' /\ Sealed(w)' /\ Claimed(w)'
    BY <1>1 DEF Drafts, Sealed, Claimed
  <2> QED BY <2>2, <2>3 DEF Worker
<1>3. ASSUME NEW w \in Workers \ gone PROVE Worker(w)'
  <2>1. Untouched(w)
    BY DEF Drop, Untouched
  <2> QED BY <2>1, OthersKeep DEF IInv
<1>4. /\ pc' \in [Workers -> Labels] /\ at' \in [Workers -> Nat]
      /\ claim' \in [Workers -> Headers \cup {None}]
  BY DEF Drop, IInv, Shape, Labels
<1>5. /\ staged' \in [Workers -> Seq(Files)] /\ results' \in [Workers -> Seq(Headers)]
  <2>1. <<>> \in Seq(Files) /\ <<>> \in Seq(Headers)
    OBVIOUS
  <2> QED BY <2>1 DEF Drop, IInv, Shape
<1> QED BY <1>2, <1>3, <1>4, <1>5

LEMMA DropStep ==
    ASSUME IInv, NEW w \in Workers, Drop({w}), UNCHANGED <<files, quiet>>
    PROVE IInv'
<1>1. Shape' /\ \A v \in Workers : Worker(v)'
  BY DropFact DEF IInv, Shape, quiet
<1>2. Bounds' /\ Shelf' /\ PublishedIsWhole'
  BY DEF IInv, Bounds, Shelf, Shelved, PublishedIsWhole, Exists, quiet
<1> QED BY <1>1, <1>2 DEF IInv

LEMMA RetryStep == ASSUME IInv, NEW w \in Workers, Retry(w) PROVE IInv'
<1> USE AtWork
<1>1. Shape'
  BY DEF Retry, Shape, Goto, Labels
<1>2. Bounds'
  BY FrameArtifactAssumption DEF Retry, Bounds
<1>3. \A v \in Workers \ {w} : Untouched(v)
  BY DEF Retry, Shape, Goto, Untouched
<1>4. /\ pc[w] = "failed" /\ pc'[w] = "create"
      /\ UNCHANGED <<at, staged, claim, results>>
  BY DEF Retry, Goto, Shape
<1>5. Progress(w)' /\ Drafts(w)' /\ Sealed(w)' /\ Claimed(w)'
  BY <1>4 DEF Progress, Drafts, Draft, Sealed, Claimed
<1> QED BY <1>1, <1>2, <1>3, <1>5, LocalStep DEF Retry, Worker

-----------------------------------------------------------------------------
(* The steps of the environment *)

LEMMA FaultFact == ASSUME IInv, Fault, restarts' = restarts PROVE Bounds'
BY FrameArtifactAssumption DEF IInv, Bounds, Fault

(* The workers do not notice what happens to a file. *)
LEMMA WorkersKeep ==
    ASSUME IInv, UNCHANGED <<pc, at, staged, claim, results>>
    PROVE \A w \in Workers : Worker(w)'
<1>1. \A w \in Workers : Untouched(w)
  BY DEF Untouched
<1> QED BY <1>1, OthersKeep DEF IInv

LEMMA DamageStep == ASSUME IInv, NEW p \in Paths, Damage(p) PROVE IInv'
<1>1. PICK file \in Harmed(files[p]) : files' = [files EXCEPT ![p] = file]
  BY DEF Damage
<1>2. files[p] \in Files /\ Shelved(files[p]) /\ files[p].header # None
  BY DEF Damage, Readable, Exists, IInv, Shape, Shelf
<1>3. file \in Files /\ Shelved(file)
  BY <1>2, HarmFact
<1>4. /\ files' \in [Paths -> Files \cup {None}] /\ files'[p] = file
      /\ \A q \in Paths \ {p} : files'[q] = files[q]
  BY <1>1, <1>3 DEF IInv, Shape
<1>5. Shape' /\ Bounds' /\ \A w \in Workers : Worker(w)'
  BY <1>4, WorkersKeep, FaultFact DEF Damage, IInv, Shape
<1>6. Shelf'
  <2> SUFFICES ASSUME NEW q \in Paths, files'[q] # None PROVE Shelved(files'[q])
    BY DEF Shelf, Exists, Shelved
  <2> QED BY <1>3, <1>4 DEF IInv, Shelf, Exists
<1>7. PublishedIsWhole'
  <2>1. \A q \in Paths \ damaged' : q \in Paths \ damaged /\ files'[q] = files[q]
    BY <1>4 DEF Damage
  <2> QED BY <2>1 DEF IInv, PublishedIsWhole, Exists
<1> QED BY <1>5, <1>6, <1>7 DEF IInv

LEMMA DeleteStep == ASSUME IInv, NEW p \in Paths, Delete(p) PROVE IInv'
<1>1. /\ files' \in [Paths -> Files \cup {None}] /\ files'[p] = None
      /\ \A q \in Paths \ {p} : files'[q] = files[q]
  BY DEF Delete, IInv, Shape
<1>2. Shape' /\ Bounds' /\ \A w \in Workers : Worker(w)'
  BY <1>1, WorkersKeep, FaultFact DEF Delete, IInv, Shape
<1>3. Shelf'
  <2> SUFFICES ASSUME NEW q \in Paths, files'[q] # None PROVE Shelved(files'[q])
    BY DEF Shelf, Exists, Shelved
  <2> QED BY <1>1 DEF IInv, Shelf, Exists
<1>4. PublishedIsWhole'
  <2>1. \A q \in Paths \ damaged' : files'[q] # None => q \in Paths \ damaged /\ files'[q] = files[q]
    BY <1>1 DEF Delete
  <2> QED BY <2>1 DEF IInv, PublishedIsWhole, Exists
<1> QED BY <1>2, <1>3, <1>4 DEF IInv

(* Every file that anybody can see has been synced: a power loss keeps it
   or takes all of it.                                                     *)
LEMMA PowerLossFact ==
    ASSUME IInv, PowerLoss
    PROVE /\ files' \in [Paths -> Files \cup {None}]
          /\ \A p \in Paths : files'[p] # None => files[p] # None /\ files'[p] = files[p]
<1>1. \A p \in Paths : files'[p] \in Survivors(files[p])
  BY DEF PowerLoss
<1>2. ASSUME NEW p \in Paths, files'[p] # None PROVE files[p] # None /\ files'[p] = files[p]
  <2>1. files[p] # None
    BY <1>1, <1>2 DEF Survivors
  <2>2. files[p].synced
    BY <2>1 DEF IInv, Shelf, Shelved, Exists
  <2> QED BY <1>1, <1>2, <2>1, <2>2 DEF Survivors
<1>3. files' \in [Paths -> {None, Blank} \cup {files[p] : p \in Paths}]
  BY DEF PowerLoss
<1>4. \A p \in Paths : files[p] \in Files \cup {None}
  BY DEF IInv, Shape
<1>5. \A p \in Paths : files'[p] \in Files \cup {None}
  BY <1>2, <1>4
<1> QED BY <1>2, <1>3, <1>5

LEMMA PowerLossStep == ASSUME IInv, PowerLoss PROVE IInv'
<1>1. /\ files' \in [Paths -> Files \cup {None}]
      /\ \A p \in Paths : files'[p] # None => files[p] # None /\ files'[p] = files[p]
  BY PowerLossFact
<1>2. damaged' \subseteq Paths /\ \A p \in Paths \ damaged' : files'[p] # None => p \notin damaged
  BY DEF PowerLoss, IInv, Shape
<1>3. Shape' /\ Bounds' /\ \A w \in Workers : Worker(w)'
  <2>1. Bounds'
    BY FaultFact DEF PowerLoss
  <2>2. Drop(Workers)
    BY DEF PowerLoss
  <2> QED BY <1>1, <1>2, <2>1, <2>2, DropFact DEF Shape
<1>4. Shelf'
  <2> SUFFICES ASSUME NEW q \in Paths, files'[q] # None PROVE Shelved(files'[q])
    BY DEF Shelf, Exists, Shelved
  <2> QED BY <1>1 DEF IInv, Shelf, Exists
<1>5. PublishedIsWhole'
  <2>1. \A q \in Paths \ damaged' :
          files'[q] # None => q \in Paths \ damaged /\ files[q] # None /\ files'[q] = files[q]
    BY <1>1, <1>2
  <2> QED BY <2>1 DEF IInv, PublishedIsWhole, Exists
<1> QED BY <1>3, <1>4, <1>5 DEF IInv

-----------------------------------------------------------------------------
(* The invariant *)

LEMMA InitInv == ASSUME Init PROVE IInv
<1>1. <<>> \in Seq(Files) /\ <<>> \in Seq(Headers)
  OBVIOUS
<1>2. Shape /\ Bounds
  BY <1>1, FrameArtifactAssumption DEF Init, Shape, Bounds, Labels
<1>3. ASSUME NEW w \in Workers PROVE Worker(w)
  <2>1. Len(Jobs[w]) \in Nat /\ Len(Jobs[w]) > 0
    BY FrameArtifactAssumption
  <2>2. pc[w] = "create" /\ at[w] = 1 /\ staged[w] = <<>> /\ results[w] = <<>>
    BY DEF Init
  <2>3. Progress(w) /\ Drafts(w) /\ Sealed(w) /\ Claimed(w)
    BY <2>1, <2>2 DEF Progress, Drafts, Sealed, Claimed
  <2> QED BY <2>3 DEF Worker
<1>4. Shelf /\ PublishedIsWhole
  BY DEF Init, Shelf, PublishedIsWhole, Exists
<1> QED BY <1>2, <1>3, <1>4 DEF IInv

LEMMA StepInv == ASSUME IInv, [Next]_vars PROVE IInv'
<1>1. CASE UNCHANGED vars
  <2>1. UNCHANGED <<files, damaged, faults, restarts>> /\ \A w \in Workers : Untouched(w)
    BY <1>1 DEF vars, Untouched
  <2>2. Shape' /\ Bounds' /\ \A w \in Workers : Worker(w)'
    <3>1. Shape' /\ Bounds'
      BY <1>1 DEF vars, IInv, Shape, Bounds
    <3> QED BY <2>1, <3>1, OthersKeep DEF IInv
  <2>3. Shelf' /\ PublishedIsWhole'
    BY <2>1 DEF IInv, Shelf, Shelved, PublishedIsWhole, Exists
  <2> QED BY <2>2, <2>3 DEF IInv
<1>2. ASSUME NEW w \in Workers, Capturing(w) PROVE IInv'
  <2>1. CASE Refuse(w) \/ Stop(w)
    BY <2>1, DropStep DEF Refuse, Stop
  <2>2. CASE Create(w) \/ Capture(w) \/ Captured(w) \/ Seal(w) \/ Sync(w) \/ Link(w)
    BY <2>2, CreateStep, CaptureStep, CapturedStep, SealStep, SyncStep, LinkStep
  <2>3. CASE Collide(w) \/ FoundExisting(w) \/ Open(w) \/ Verify(w) \/ Retry(w)
    BY <2>3, CollideStep, FoundExistingStep, OpenStep, VerifyStep, RetryStep
  <2> QED BY <1>2, <2>1, <2>2, <2>3 DEF Capturing
<1>3. ASSUME Environment PROVE IInv'
  BY <1>3, DamageStep, DeleteStep, PowerLossStep DEF Environment
<1> QED BY <1>1, <1>2, <1>3 DEF Next

LEMMA Invariance == Spec => []IInv
BY InitInv, StepInv, PTL DEF Spec

LEMMA TypeFact == ASSUME IInv PROVE TypeOK
<1>1. ASSUME NEW w \in Workers
      PROVE /\ at[w] \in 1..Len(Jobs[w])
            /\ pc[w] \in {"capture", "seal", "sync", "link"} => Len(staged[w]) = Len(Jobs[w])
            /\ pc[w] = "verify" => claim[w] # None
  BY AtWork DEF Progress, Claimed
<1> QED BY <1>1 DEF IInv, Shape, Bounds, TypeOK

(* Every variable keeps its type, a worker is at a job it has, and holds a
   writer for every job while it captures, whatever fails around it.        *)
THEOREM TypeCorrect == Spec => []TypeOK
BY TypeFact, Invariance, PTL

(* Every published file that the environment has not damaged holds all of a
   unit's frames in order, under a header that says so, and is synced.      *)
THEOREM PublishedIsWholeHolds == Spec => []PublishedIsWhole
<1>1. IInv => PublishedIsWhole
  BY DEF IInv
<1> QED BY <1>1, Invariance, PTL

-----------------------------------------------------------------------------
(* What a step may not do *)

LEMMA KeepsFiles ==
    ASSUME NEW w \in Workers, Capturing(w), ~Link(w)
    PROVE files' = files
BY DEF Capturing, Create, Capture, Captured, Seal, Sync, Collide, FoundExisting, Open, Verify,
       Refuse, Stop, Retry

(* No step puts another file where one is: of the captures that race for a
   destination one publishes, and only the environment changes it after.    *)
THEOREM NothingPublishedIsReplacedHolds == Spec => NothingPublishedIsReplaced
<1> DEFINE Keeps ==
      \A p \in Paths : Exists(p) /\ files'[p] # files[p] => files'[p] = None \/ p \in damaged'
<1>1. IInv /\ [Next]_vars => [Keeps]_vars
  <2> SUFFICES ASSUME IInv, Next, NEW p \in Paths, Exists(p), files'[p] # files[p]
               PROVE files'[p] = None \/ p \in damaged'
    OBVIOUS
  <2>1. ASSUME NEW w \in Workers, Capturing(w) PROVE FALSE
    <3>1. Link(w)
      BY <2>1, KeepsFiles
    <3>2. p # MyJob(w).path
      BY <3>1 DEF Link
    <3> QED BY <3>1, <3>2, AtWork DEF Link, Shape
  <2>2. CASE PowerLoss
    BY <2>2, PowerLossFact
  <2>3. ASSUME NEW q \in Paths, Damage(q) \/ Delete(q) PROVE files'[p] = None \/ p \in damaged'
    <3>1. q = p
      BY <2>3 DEF Damage, Delete, IInv, Shape
    <3> QED BY <2>3, <3>1 DEF Damage, Delete, IInv, Shape
  <2> QED BY <2>1, <2>2, <2>3 DEF Next, Environment
<1> QED BY <1>1, Invariance, PTL DEF Spec, NothingPublishedIsReplaced

(* What w does between two returns. *)
LEMMA NoReturn ==
    ASSUME IInv, NEW w \in Workers, pc'[w] # "done" \/ pc[w] = "done",
           results'[w] \in {results[w], <<>>}
    PROVE /\ ~(pc[w] # "done" /\ pc'[w] = "done")
          /\ ~(Len(results'[w]) > Len(results[w]))
<1>1. Len(results[w]) \in Nat
  BY AtWork
<1> QED BY <1>1

(* The file that an artifact is returned for. *)
LEMMA VerifiedFact ==
    ASSUME IInv, NEW w \in Workers, Verify(w)
    PROVE /\ claim[w] \in Headers /\ files[MyJob(w).path] # None
          /\ files[MyJob(w).path].records \in Films(MyJob(w).unit)
          /\ claim[w] = Header(MyJob(w).unit, files[MyJob(w).path].records)
<1> DEFINE file == files[MyJob(w).path]
<1>1. /\ file # None /\ file.header # None /\ file.header = claim[w]
      /\ file.records = file.header.digest
  BY DEF Verify, Unchanged, Readable, Exists, Verified
<1>2. file.header.unit = MyJob(w).unit /\ file.header.unit \in Units
  BY <1>1, AtWork DEF Claimed, Verify
<1>3. Shelved(file) /\ file.header \in Headers
  BY <1>1, AtWork DEF IInv, Shelf, Exists, Shape, Files
<1>4. file.header.unit # None /\ file.header.digest # <<>>
  BY <1>1, <1>2, <1>3, FrameArtifactAssumption DEF Shelved
<1>5. file.records \in Films(MyJob(w).unit)
  BY <1>1, <1>2, <1>3, <1>4 DEF Shelved
<1>6. file.header = [unit |-> file.header.unit, digest |-> file.header.digest]
  BY <1>3 DEF Headers
<1> QED BY <1>1, <1>2, <1>3, <1>5, <1>6 DEF Header

(* Each artifact that a capture returns is, at that moment, a file with
   exactly its unit's frames under the header returned, and a capture that
   succeeds returns one for each of its units, in order.                    *)
THEOREM ReturnedIsVerifiedHolds == Spec => ReturnedIsVerified
<1> DEFINE Returns(w) ==
      /\ pc[w] # "done" /\ pc'[w] = "done" => Len(results'[w]) = Len(Jobs[w])
      /\ Len(results'[w]) > Len(results[w]) =>
           LET job == MyJob(w)
               records == files'[job.path].records
           IN
             /\ files'[job.path] # None
             /\ records \in Films(job.unit)
             /\ results'[w] = Append(results[w], Header(job.unit, records))
<1>1. IInv /\ [Next]_vars => [\A w \in Workers : Returns(w)]_vars
  <2> SUFFICES ASSUME IInv, Next, NEW w \in Workers PROVE Returns(w)
    OBVIOUS
  <2>1. CASE Link(w)
    <3>1. pc[w] = "link" /\ Len(staged'[w]) = Len(staged[w]) /\ Drafts(w)'
      BY <2>1, BlankedFact DEF Link
    <3>2. /\ results'[w] = Append(results[w], Mine(w).header)
          /\ pc'[w] = "done" => Len(results'[w]) = Len(Jobs[w])
      BY <2>1, <3>1, LinkedFact, ReturnFact DEF Link
    <3>3. files'[MyJob(w).path] = Mine(w)
      BY <2>1, AtWork DEF Link, Shape
    <3> QED BY <3>1, <3>2, <3>3, LinkedFact
  <2>2. CASE Verify(w)
    <3>1. /\ pc[w] = "verify" /\ UNCHANGED <<files, staged>> /\ Return(w, claim[w])
          /\ Len(staged'[w]) = Len(staged[w]) /\ Drafts(w)'
      BY <2>2, AtWork DEF Verify, Drafts, Draft
    <3>2. /\ results'[w] = Append(results[w], claim[w])
          /\ pc'[w] = "done" => Len(results'[w]) = Len(Jobs[w])
      BY <2>2, <3>1, VerifiedFact, ReturnFact
    <3> QED BY <2>2, <3>1, <3>2, VerifiedFact
  <2>3. ASSUME Capturing(w), ~Link(w), ~Verify(w) PROVE Returns(w)
    <3>1. results'[w] \in {results[w], <<>>} /\ pc'[w] # "done"
      <4>1. CASE Refuse(w) \/ Stop(w)
        BY <4>1 DEF Refuse, Stop, Drop
      <4>2. CASE Create(w) \/ Captured(w)
        BY <4>2, AtWork DEF Create, Captured, Advance, Shape
      <4>3. CASE Capture(w)
        BY <4>3 DEF Capture
      <4>4. CASE Seal(w) \/ Sync(w) \/ Collide(w) \/ FoundExisting(w) \/ Open(w) \/ Retry(w)
        BY <4>4, AtWork DEF Seal, Sync, Collide, FoundExisting, Open, Retry, Goto, Shape
      <4> QED BY <2>3, <4>1, <4>2, <4>3, <4>4 DEF Capturing
    <3> QED BY <3>1, NoReturn
  <2>4. ASSUME NEW v \in Workers \ {w}, Capturing(v) PROVE Returns(w)
    <3>1. results'[w] = results[w] /\ pc'[w] = pc[w]
      <4>1. CASE Refuse(v) \/ Stop(v)
        BY <4>1 DEF Refuse, Stop, Drop
      <4>2. CASE ~(Refuse(v) \/ Stop(v))
        BY <2>4, <4>2, AtWork DEF Capturing, Create, Capture, Captured, Seal, Sync, Link,
           Collide, FoundExisting, Open, Verify, Retry, Goto, Advance, Return, Shape
      <4> QED BY <4>1, <4>2
    <3> QED BY <3>1, NoReturn
  <2>5. CASE PowerLoss
    <3>1. results'[w] = <<>> /\ pc'[w] # "done"
      BY <2>5 DEF PowerLoss, Drop
    <3> QED BY <3>1, NoReturn
  <2>6. ASSUME NEW p \in Paths, Damage(p) \/ Delete(p) PROVE Returns(w)
    <3>1. results'[w] = results[w] /\ pc'[w] = pc[w]
      BY <2>6 DEF Damage, Delete
    <3> QED BY <3>1, NoReturn
  <2> QED BY <2>1, <2>2, <2>3, <2>4, <2>5, <2>6 DEF Next, Environment
<1> QED BY <1>1, Invariance, PTL DEF Spec, ReturnedIsVerified

-----------------------------------------------------------------------------
(* Part two: the assembly. *)
Steps == {"collect", "start", "stream", "finish", "mix", "publish", "done", "failed"}

AShape ==
    /\ step \in Steps
    /\ artifacts \in Seq(Headers)
    /\ Len(artifacts) <= Len(Plan)
    /\ reader \in Files \cup {None}
    /\ encoded \in Seq(Seq(Frames))
    /\ Len(encoded) <= Len(Plan)

(* The artifact of a unit has gone to the encoder. *)
Streamed(i) == encoded[i] = artifacts[i].digest /\ encoded[i] \in Films(Plan[i].unit)

Matched ==
    step \notin {"collect", "failed"} =>
        /\ Len(artifacts) = Len(Plan)
        /\ \A i \in 1..Len(Plan) : artifacts[i].unit = Plan[i].unit

(* The frames of the open reader so far. *)
Streaming ==
    reader # None =>
        /\ step = "stream" /\ Len(encoded) > 0
        /\ Shelved(reader) /\ reader.header = artifacts[Current]
        /\ Len(encoded[Current]) <= Len(reader.records)
        /\ \A j \in 1..Len(encoded[Current]) : encoded[Current][j] = reader.records[j]
        /\ Len(encoded[Current]) = Len(reader.records) => Verified(reader)

Encoded ==
    /\ step \in {"collect", "start"} => encoded = <<>>
    /\ \A i \in 1..Len(encoded) : i < Len(encoded) \/ reader = None => Streamed(i)
    /\ step \in {"finish", "mix", "publish"} => Len(encoded) = Len(Plan)
    /\ step = "publish" => staged_output = encoded

AInv == AShape /\ Matched /\ Streaming /\ Encoded /\ VideoIsTheFilm

-----------------------------------------------------------------------------
(* To FrameArtifact the assembler is part of the environment. *)
LEMMA Beside == AInit => Init
BY DEF AInit

LEMMA BesideStep == [ANext]_avars => [Next]_vars
BY DEF ANext, avars, Storage, Blackout, Next, Environment

LEMMA FilesInvariance == ASpec => []IInv
<1>1. ASpec => Spec
  BY Beside, BesideStep, PTL DEF ASpec, Spec
<1> QED BY <1>1, Invariance, PTL

LEMMA PlanFact ==
    /\ Len(Plan) \in Nat /\ Len(Plan) > 0 /\ DOMAIN Plan = 1..Len(Plan)
    /\ \A i \in 1..Len(Plan) : Plan[i].unit \in Units /\ Plan[i].path \in Paths
<1>1. Plan \in Seq(Job) /\ Len(Plan) > 0
  BY AssemblyAssumption
<1>2. \A i \in 1..Len(Plan) : Plan[i] \in Job
  BY <1>1
<1> QED BY <1>1, <1>2 DEF Job

(* Two sequences of one length with the same members are the same. *)
LEMMA SameSequence ==
    ASSUME NEW S, NEW a \in Seq(S), NEW b \in Seq(S), Len(a) = Len(b),
           \A j \in 1..Len(a) : a[j] = b[j]
    PROVE a = b
OBVIOUS

LEMMA DomainFact == ASSUME NEW S, NEW a \in Seq(S) PROVE DOMAIN a = 1..Len(a)
OBVIOUS

(* Appending to a sequence. *)
LEMMA AppendFact ==
    ASSUME NEW S, NEW a \in Seq(S), NEW x \in S
    PROVE /\ Len(Append(a, x)) = Len(a) + 1 /\ Append(a, x)[Len(a) + 1] = x
          /\ \A j \in 1..Len(a) : Append(a, x)[j] = a[j]
OBVIOUS

LEMMA AInitInv == ASSUME AInit PROVE AInv
<1>1. <<>> \in Seq(Headers) /\ <<>> \in Seq(Seq(Frames))
  OBVIOUS
<1> QED BY <1>1, PlanFact DEF AInit, AInv, AShape, Steps, Matched, Streaming, Encoded, VideoIsTheFilm

LEMMA CollectStep == ASSUME IInv, AInv, Collect PROVE AInv'
<1> DEFINE p == Plan[Len(artifacts) + 1].path
<1>1. Len(artifacts) \in Nat /\ Len(artifacts) < Len(Plan) /\ Len(artifacts) + 1 \in 1..Len(Plan)
  BY PlanFact DEF Collect, AInv, AShape
<1>2. p \in Paths /\ files[p] \in Files /\ files[p].header \in Headers
  BY <1>1, PlanFact DEF Collect, Readable, Exists, IInv, Shape, Files
<1>3. artifacts' = Append(artifacts, files[p].header) /\ artifacts' \in Seq(Headers)
      /\ Len(artifacts') = Len(artifacts) + 1
  BY <1>1, <1>2 DEF Collect, AInv, AShape
<1>4. AShape'
  BY <1>1, <1>3, PlanFact DEF Collect, AInv, AShape
<1>5. step = "collect" /\ encoded = <<>> /\ reader = None
  BY DEF Collect, AInv, Encoded, Streaming
<1>6. Matched' /\ Streaming' /\ Encoded' /\ VideoIsTheFilm'
  BY <1>5 DEF Collect, AInv, Matched, Streaming, Encoded, VideoIsTheFilm
<1> QED BY <1>4, <1>6 DEF AInv

LEMMA ValidateStep == ASSUME AInv, Validate PROVE AInv'
<1>1. step = "collect" /\ step' = "start" /\ encoded = <<>> /\ reader = None
  BY DEF Validate, AInv, Encoded, Streaming
<1>2. AShape'
  BY <1>1 DEF Validate, AInv, AShape, Steps
<1>3. Matched'
  BY PlanFact DEF Validate, Matched
<1>4. Streaming' /\ Encoded' /\ VideoIsTheFilm'
  BY <1>1 DEF Validate, AInv, Streaming, Encoded, VideoIsTheFilm
<1> QED BY <1>2, <1>3, <1>4 DEF AInv

LEMMA StartStep == ASSUME AInv, Start PROVE AInv'
<1>1. step = "start" /\ step' = "stream" /\ encoded = <<>> /\ reader = None
  BY DEF Start, AInv, Encoded, Streaming
<1>2. AShape' /\ Matched' /\ Streaming' /\ Encoded' /\ VideoIsTheFilm'
  BY <1>1 DEF Start, AInv, AShape, Steps, Matched, Streaming, Encoded, VideoIsTheFilm
<1> QED BY <1>2 DEF AInv

LEMMA OpenReaderStep == ASSUME IInv, AInv, OpenReader PROVE AInv'
<1> DEFINE p == Plan[Current + 1].path
<1>1. /\ encoded \in Seq(Seq(Frames)) /\ Len(encoded) \in Nat
      /\ Len(encoded) < Len(Plan) /\ Len(encoded) + 1 \in 1..Len(Plan)
  BY PlanFact DEF OpenReader, Current, AInv, AShape
<1>2. p \in Paths
  BY <1>1, PlanFact DEF Current
<1>3. /\ reader' = files[p] /\ files[p] \in Files /\ Shelved(files[p])
      /\ files[p].header = artifacts[Len(encoded) + 1]
  BY <1>2 DEF OpenReader, Unchanged, Readable, Exists, IInv, Shape, Shelf, Current
<1>4. /\ encoded' = Append(encoded, <<>>) /\ encoded' \in Seq(Seq(Frames))
      /\ Len(encoded') = Len(encoded) + 1 /\ encoded'[Len(encoded) + 1] = <<>>
      /\ \A i \in 1..Len(encoded) : encoded'[i] = encoded[i]
  <2>1. <<>> \in Seq(Frames)
    OBVIOUS
  <2> QED BY <1>1, <2>1 DEF OpenReader
<1>5. step = "stream" /\ UNCHANGED <<step, artifacts, staged_output, video>> /\ reader = None
  BY DEF OpenReader
<1>6. AShape'
  BY <1>1, <1>3, <1>4, <1>5 DEF AInv, AShape
<1>7. Matched' /\ VideoIsTheFilm'
  BY <1>5 DEF AInv, Matched, VideoIsTheFilm
<1>8. Streaming'
  <2>1. Len(files[p].records) \in Nat /\ Len(files[p].records) > 0
    BY <1>3 DEF Files, Shelved
  <2>2. Shelved(reader)'
    BY <1>3 DEF Shelved
  <2> QED BY <1>1, <1>3, <1>4, <1>5, <2>1, <2>2 DEF Streaming, Current
<1>9. Encoded'
  <2>1. ASSUME NEW i \in 1..Len(encoded) PROVE Streamed(i)'
    BY <1>4, <1>5, <2>1 DEF AInv, Encoded, Streamed
  <2>2. reader' # None
    BY <1>3, FrameArtifactAssumption
  <2> QED BY <1>1, <1>4, <1>5, <2>1, <2>2 DEF Encoded
<1> QED BY <1>6, <1>7, <1>8, <1>9 DEF AInv

(* The open reader and what it has handed out. *)
LEMMA ReaderFact ==
    ASSUME AInv, reader # None
    PROVE /\ reader \in Files /\ reader.records \in Seq(Frames) /\ step = "stream"
          /\ encoded \in Seq(Seq(Frames)) /\ Current \in 1..Len(encoded)
          /\ Current = Len(encoded) /\ Len(encoded) \in 1..Len(Plan)
          /\ encoded[Current] \in Seq(Frames)
<1>1. /\ reader \in Files /\ step = "stream" /\ encoded \in Seq(Seq(Frames))
      /\ Len(encoded) \in 1..Len(Plan)
  BY PlanFact DEF AInv, AShape, Streaming
<1>2. encoded[Len(encoded)] \in Seq(Frames)
  BY <1>1
<1> QED BY <1>1, <1>2 DEF Current, Files

LEMMA WriteFrameStep == ASSUME AInv, WriteFrame PROVE AInv'
<1>0. reader # None /\ UNCHANGED <<step, artifacts, reader, staged_output, video>>
  BY DEF WriteFrame
<1> PICK c \in 1..Len(Plan) : c = Len(encoded) /\ c = Current
  BY <1>0, ReaderFact
<1>1. /\ reader \in Files /\ reader.records \in Seq(Frames) /\ step = "stream"
      /\ encoded \in Seq(Seq(Frames)) /\ c \in 1..Len(encoded) /\ c \in Nat
      /\ encoded[c] \in Seq(Frames)
  BY <1>0, ReaderFact, PlanFact
<1> PICK k \in Nat : k = Len(encoded[c]) + 1
  BY <1>1
<1>2. /\ k \in 1..Len(reader.records) /\ reader.records[k] \in Frames
      /\ k = Len(reader.records) => Verified(reader)
      /\ encoded' = [encoded EXCEPT ![c] = Append(@, reader.records[k])]
  BY <1>1 DEF WriteFrame, NextFrame, Position, Current
<1>4. Append(encoded[c], reader.records[k]) \in Seq(Frames)
  BY <1>1, <1>2
<1>5. /\ encoded' \in Seq(Seq(Frames)) /\ Len(encoded') = c
      /\ encoded'[c] = Append(encoded[c], reader.records[k])
      /\ \A i \in 1..c : i # c => encoded'[i] = encoded[i]
  <2> DEFINE more == Append(encoded[c], reader.records[k])
  <2>1. encoded' = [encoded EXCEPT ![c] = more]
    BY <1>2
  <2>2. DOMAIN encoded = 1..c /\ c \in DOMAIN encoded
    BY <1>1, DomainFact
  <2>3. more \in Seq(Frames)
    BY <1>4
  <2> HIDE DEF more
  <2>4. /\ [encoded EXCEPT ![c] = more] \in Seq(Seq(Frames))
        /\ Len([encoded EXCEPT ![c] = more]) = Len(encoded)
        /\ [encoded EXCEPT ![c] = more][c] = more
        /\ \A i \in DOMAIN encoded : i # c => [encoded EXCEPT ![c] = more][i] = encoded[i]
    BY <1>1, <2>2, <2>3, ReplaceFact
  <2> QED BY <2>1, <2>2, <2>4 DEF more
<1>6. AShape' /\ Matched' /\ VideoIsTheFilm'
  BY <1>0, <1>5 DEF AInv, AShape, Matched, VideoIsTheFilm
<1>7. Streaming'
  <2>1. /\ Len(encoded'[c]) = k /\ encoded'[c][k] = reader.records[k]
        /\ \A j \in 1..Len(encoded[c]) : encoded'[c][j] = encoded[c][j]
    BY <1>1, <1>2, <1>5, AppendFact
  <2>2. ASSUME NEW j \in 1..k PROVE encoded'[c][j] = reader.records[j]
    <3>1. CASE j = k
      BY <2>1, <3>1
    <3>2. CASE j # k
      <4>1. j \in 1..Len(encoded[c])
        BY <1>1, <2>2, <3>2
      <4> QED BY <1>0, <2>1, <4>1 DEF AInv, Streaming
    <3> QED BY <3>1, <3>2
  <2>3. Shelved(reader) /\ reader.header = artifacts[c]
    BY <1>0 DEF AInv, Streaming
  <2>4. Shelved(reader)'
    BY <1>0, <2>3 DEF Shelved
  <2>5. k = Len(reader.records) => Verified(reader)'
    BY <1>0, <1>2 DEF Verified
  <2>6. Len(encoded)' = c /\ Current' = c /\ c > 0 /\ k <= Len(reader.records)
    BY <1>1, <1>2, <1>5 DEF Current
  <2>7. UNCHANGED <<step, reader, artifacts>>
    BY <1>0
  <2> QED BY <1>1, <2>1, <2>2, <2>3, <2>4, <2>5, <2>6, <2>7 DEF Streaming
<1>8. Encoded'
  <2>1. ASSUME NEW i \in 1..c, i # c PROVE Streamed(i)'
    <3>1. Streamed(i)
      BY <2>1, <1>1 DEF AInv, Encoded
    <3> QED BY <1>0, <1>5, <2>1, <3>1 DEF Streamed
  <2> QED BY <1>0, <1>1, <1>5, <2>1 DEF Encoded
<1> QED BY <1>6, <1>7, <1>8 DEF AInv

(* A reader at its end has verified the film its header vouches for. *)
LEMMA CloseReaderStep == ASSUME AInv, CloseReader PROVE AInv'
<1> DEFINE c == Len(encoded)
<1>0. reader # None /\ reader' = None /\ step' \in {"stream", "finish"}
      /\ (step' = "finish" => c = Len(Plan))
      /\ UNCHANGED <<artifacts, encoded, staged_output, video>>
  BY DEF CloseReader, Current
<1>1. /\ reader \in Files /\ reader.records \in Seq(Frames) /\ step = "stream"
      /\ encoded \in Seq(Seq(Frames)) /\ c \in 1..Len(encoded) /\ c \in 1..Len(Plan)
      /\ encoded[c] \in Seq(Frames)
  BY <1>0, ReaderFact DEF Current
<1>2. /\ Len(encoded[c]) = Len(reader.records) /\ Shelved(reader)
      /\ reader.header = artifacts[c] /\ Verified(reader)
      /\ \A j \in 1..Len(encoded[c]) : encoded[c][j] = reader.records[j]
  BY <1>0, <1>1, SMTT(30) DEF CloseReader, Position, Current, AInv, Streaming
<1>3. encoded[c] = reader.records
  BY <1>1, <1>2, SameSequence
<1>4. Streamed(c)
  <2>1. artifacts[c].unit = Plan[c].unit /\ Plan[c].unit \in Units
    BY <1>1, PlanFact DEF AInv, Matched
  <2>2. artifacts[c] \in Headers
    BY <1>1 DEF AInv, AShape, Matched
  <2>3. artifacts[c].unit # None /\ artifacts[c] # None
    BY <2>1, <2>2, FrameArtifactAssumption
  <2>4. artifacts[c].digest = reader.records /\ artifacts[c].digest # <<>>
    BY <1>2 DEF Verified, Shelved
  <2>5. artifacts[c].digest \in Films(Plan[c].unit)
    BY <1>2, <2>1, <2>3, <2>4 DEF Shelved
  <2> QED BY <1>3, <2>4, <2>5 DEF Streamed
<1>5. AShape' /\ Streaming'
  BY <1>0 DEF AInv, AShape, Steps, Streaming
<1>6. Matched' /\ VideoIsTheFilm'
  BY <1>0, <1>1 DEF AInv, Matched, VideoIsTheFilm
<1>7. Encoded'
  <2>1. ASSUME NEW i \in 1..c PROVE Streamed(i)'
    <3>1. Streamed(i)
      BY <1>1, <1>4 DEF AInv, Encoded
    <3> QED BY <1>0, <3>1 DEF Streamed
  <2> QED BY <1>0, <2>1 DEF Encoded
<1> QED BY <1>5, <1>6, <1>7 DEF AInv

(* Steps that leave what was streamed alone. *)
LEMMA EncodedStep ==
    ASSUME AInv, FinishEncoder \/ StartMix \/ FinishMix \/ EncoderFails
    PROVE AInv'
<1>1. /\ UNCHANGED <<artifacts, reader, encoded, video>>
      /\ step' \in {step, "mix", "publish"}
      /\ step' # step => step \in {"finish", "mix"}
      /\ step' = "publish" => staged_output' = encoded \/ (step = "publish" /\ staged_output' = staged_output)
  BY DEF FinishEncoder, StartMix, FinishMix, EncoderFails
<1>2. AShape' /\ Matched'
  BY <1>1 DEF AInv, AShape, Matched, Steps
<1>3. Streaming'
  <2>1. Shelved(reader) => Shelved(reader)'
    BY <1>1 DEF Shelved
  <2> QED BY <1>1, <2>1 DEF AInv, Streaming, Current, Verified
<1>4. Encoded'
  <2>1. \A i \in 1..Len(encoded) : Streamed(i) => Streamed(i)'
    BY <1>1 DEF Streamed
  <2> QED BY <1>1, <2>1 DEF AInv, Encoded
<1>5. VideoIsTheFilm'
  BY <1>1 DEF AInv, VideoIsTheFilm
<1> QED BY <1>2, <1>3, <1>4, <1>5 DEF AInv

LEMMA PublishStep == ASSUME AInv, Publish PROVE AInv'
<1>1. /\ step = "publish" /\ step' = "done" /\ video' = encoded /\ reader = None
      /\ Len(encoded) = Len(Plan)
      /\ UNCHANGED <<artifacts, reader, encoded>>
  BY DEF Publish, AInv, Encoded, Streaming
<1>2. \A i \in 1..Len(Plan) : Streamed(i)
  BY <1>1 DEF AInv, Encoded
<1>3. VideoIsTheFilm'
  BY <1>1, <1>2, PlanFact DEF VideoIsTheFilm, Streamed
<1>4. AShape' /\ Matched' /\ Streaming'
  BY <1>1 DEF AInv, AShape, Steps, Matched, Streaming
<1>5. Encoded'
  <2>1. \A i \in 1..Len(encoded) : Streamed(i)'
    BY <1>1, <1>2 DEF Streamed
  <2> QED BY <1>1, <2>1 DEF Encoded
<1> QED BY <1>3, <1>4, <1>5 DEF AInv

LEMMA AbandonStep ==
    ASSUME AInv, Abandon, video' \in {video, None, Foreign}
    PROVE AInv'
<1>1. <<>> \in Seq(Headers) /\ <<>> \in Seq(Seq(Frames))
  OBVIOUS
<1>2. /\ step' = "failed" /\ artifacts' = <<>> /\ encoded' = <<>> /\ reader' = None
  BY DEF Abandon
<1>3. AShape' /\ Matched' /\ Streaming' /\ Encoded'
  BY <1>1, <1>2, PlanFact DEF AShape, Steps, Matched, Streaming, Encoded
<1>4. VideoIsTheFilm'
  BY <1>2 DEF AInv, VideoIsTheFilm
<1> QED BY <1>3, <1>4 DEF AInv

LEMMA AKeep == ASSUME AInv, UNCHANGED assembler, video' \in {video, Foreign} PROVE AInv'
<1>1. UNCHANGED <<step, artifacts, reader, encoded, staged_output>>
  BY DEF assembler
<1>2. AShape' /\ Matched'
  BY <1>1 DEF AInv, AShape, Matched
<1>3. Streaming'
  <2>1. Shelved(reader) => Shelved(reader)'
    BY <1>1 DEF Shelved
  <2> QED BY <1>1, <2>1 DEF AInv, Streaming, Current, Verified
<1>4. Encoded'
  <2>1. \A i \in 1..Len(encoded) : Streamed(i) => Streamed(i)'
    BY <1>1 DEF Streamed
  <2> QED BY <1>1, <2>1 DEF AInv, Encoded
<1>5. VideoIsTheFilm'
  BY <1>1 DEF AInv, VideoIsTheFilm
<1> QED BY <1>2, <1>3, <1>4, <1>5 DEF AInv

LEMMA AStepInv == ASSUME IInv, AInv, [ANext]_avars PROVE AInv'
<1>1. CASE UNCHANGED assembly
  BY <1>1, AKeep DEF assembly
<1>2. CASE Collect \/ Validate \/ Start \/ OpenReader
  BY <1>2, CollectStep, ValidateStep, StartStep, OpenReaderStep
<1>3. CASE WriteFrame \/ CloseReader \/ Publish
  BY <1>3, WriteFrameStep, CloseReaderStep, PublishStep
<1>4. CASE FinishEncoder \/ StartMix \/ FinishMix \/ EncoderFails
  BY <1>4, EncodedStep
<1>5. CASE Fail \/ Blackout
  BY <1>5, AbandonStep DEF Fail, Blackout
<1>6. CASE Intrude
  BY <1>6, AKeep DEF Intrude
<1> QED BY <1>1, <1>2, <1>3, <1>4, <1>5, <1>6 DEF ANext, Assembling, avars, assembly

LEMMA AInvariance == ASpec => [](IInv /\ AInv)
<1>1. ASpec => []AInv
  BY AInitInv, AStepInv, FilesInvariance, PTL DEF ASpec
<1> QED BY <1>1, FilesInvariance, PTL

(* The rest of the types. *)
Ends ==
    /\ encoder \in {"none", "running", "succeeded", "mixing", "failed"}
    /\ hasAudio \in BOOLEAN
    /\ staged_output \in Seq(Seq(Frames)) \cup {None}
    /\ video \in Seq(Seq(Frames)) \cup {None, Foreign}

LEMMA EndsStep == ASSUME AInv, Ends, [ANext]_avars PROVE Ends'
<1>1. encoded \in Seq(Seq(Frames))
  BY DEF AInv, AShape
<1>2. CASE Assembling
  BY <1>1, <1>2 DEF Ends, Assembling, Collect, Validate, Start, OpenReader, WriteFrame,
     CloseReader, FinishEncoder, StartMix, FinishMix, Publish, EncoderFails, Fail, Abandon
<1>3. CASE Intrude \/ Blackout
  BY <1>3 DEF Ends, Intrude, Blackout, Abandon, assembler
<1>4. CASE UNCHANGED assembly
  BY <1>4 DEF Ends, assembly, assembler
<1> QED BY <1>2, <1>3, <1>4 DEF ANext, avars, assembly

(* Every variable keeps its type, nothing is streamed before all artifacts
   are there, and a reader is open only for an artifact that has begun.     *)
THEOREM AssemblyTypeCorrect == ASpec => []AssemblyTypeOK
<1>1. AInit => Ends
  BY DEF AInit, Ends
<1>2. ASpec => []Ends
  BY <1>1, AInvariance, EndsStep, PTL DEF ASpec
<1>3. IInv /\ AInv /\ Ends => AssemblyTypeOK
  <2> SUFFICES ASSUME IInv, AInv, Ends PROVE AssemblyTypeOK
    OBVIOUS
  <2>1. TypeOK
    BY TypeFact
  <2>2. reader # None => step = "stream" /\ encoded # <<>>
    BY DEF AInv, Streaming
  <2> QED BY <2>1, <2>2 DEF AInv, AShape, Steps, Matched, Ends, AssemblyTypeOK
<1> QED BY <1>2, <1>3, AInvariance, PTL

(* Whatever is damaged, removed, captured again or published by others while
   it works: a video that the assembler publishes is the film of its plan,
   made of the artifacts it was given.                                      *)
THEOREM VideoIsTheFilmHolds == ASpec => []VideoIsTheFilm
<1>1. AInv => VideoIsTheFilm
  BY DEF AInv
<1> QED BY <1>1, AInvariance, PTL

(* No step of the assembler changes a video that is at the output path. *)
THEOREM VideoIsNotReplacedHolds == ASpec => VideoIsNotReplaced
<1> DEFINE Stays == video # None /\ video' # video => video' \in {None, Foreign}
<1>1. [ANext]_avars => [Stays]_avars
  BY DEF ANext, assembly, Assembling, Collect, Validate, Start, OpenReader, WriteFrame,
     CloseReader, FinishEncoder, StartMix, FinishMix, Publish, EncoderFails, Fail, Intrude, Blackout
<1> QED BY <1>1, PTL DEF ASpec, VideoIsNotReplaced
=============================================================================
