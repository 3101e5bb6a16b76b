----------------------------- MODULE FrameArtifact -----------------------------
(***************************************************************************)
(* Frame artifacts of crates/render/src/frame_artifact and the two captures *)
(* of executor/frame_capture.rs that produce them:                          *)
(*                                                                         *)
(*   capture_frame_artifact_report  one unit; a file that already exists is *)
(*                                  verified and reused (Reusing workers)   *)
(*   capture_frame_artifacts        a batch; every destination must be      *)
(*                                  absent                                  *)
(*                                                                         *)
(* A file is a header followed by frame records.  The writer owns a private *)
(* temporary file, fills in the header last, syncs it and publishes it with *)
(* a hard link that never replaces.  Bytes are abstracted: a digest is the  *)
(* sequence it was computed from, and a record is good, "torn" (its pixels  *)
(* do not match its fingerprint) or "altered" (only the digest tells).  To  *)
(* read a file is one step: a reader keeps the file it opened, and damage   *)
(* to a part it has not read yet is damage before it opened it.             *)
(***************************************************************************)
EXTENDS Naturals, Sequences

CONSTANTS
    Workers,
    Reusing,      \* workers that run capture_frame_artifact_report
    Units,
    Length,       \* output frames of a unit
    Takes,        \* byte-wise different captures of one frame
    Paths,
    Jobs,         \* the units a worker captures, each with its destination
    MaxFaults,    \* bound: damaged, deleted or power-cycled files
    MaxRestarts,  \* bound: calls retried by their callers
    None

Job == [unit : Units, path : Paths]
Frames == [unit : Units, index : Nat, take : Takes, harm : {"none", "torn", "altered"}]
Headers == [unit : Units \cup {None}, digest : Seq(Frames)]
Files == [header : Headers \cup {None}, records : Seq(Frames), synced : BOOLEAN]

ASSUME FrameArtifactAssumption ==
    /\ Reusing \subseteq Workers
    /\ Length \in [Units -> Nat \ {0}]
    /\ Jobs \in [Workers -> Seq(Job)]
    /\ \A w \in Workers : Len(Jobs[w]) > 0
    /\ \A w \in Reusing : Len(Jobs[w]) = 1
    /\ MaxFaults \in Nat /\ MaxRestarts \in Nat
    /\ None \notin Units \cup Headers \cup Files

VARIABLES
    files,    \* published files
    damaged,  \* paths whose file the environment changed
    pc,       \* the step of the capture a worker is at
    at,       \* the job it is at
    staged,   \* its private files: FrameArtifactWriter.staging
    claim,    \* the header of the FrameArtifact it opened
    results,  \* headers of the FrameArtifacts it returns
    faults, restarts

vars == <<files, damaged, pc, at, staged, claim, results, faults, restarts>>
quiet == <<damaged, faults, restarts>>

Frame(u, i, t) == [unit |-> u, index |-> i, take |-> t, harm |-> "none"]

(* What the unit's output interval may look like on disk. *)
Films(u) == {[i \in 1..Length[u] |-> Frame(u, i, t[i])] : t \in [1..Length[u] -> Takes]}

(* Header: the descriptor stands for its unit, the payload for its digest.
   None is a file that open_verified rejects: undecodable, or of a size the
   header does not declare. *)
Header(u, records) == [unit |-> u, digest |-> records]
Blank == [header |-> None, records |-> <<>>, synced |-> FALSE]

Exists(p) == files[p] # None

Readable(p) == Exists(p) /\ files[p].header # None

(* FrameArtifact::verify: every record, then the digest. *)
Verified(file) == file.records = file.header.digest

MyJob(w) == Jobs[w][at[w]]
Mine(w) == staged[w][at[w]]
Last(w) == at[w] = Len(Jobs[w])

Init ==
    /\ files = [p \in Paths |-> None]
    /\ damaged = {}
    /\ pc = [w \in Workers |-> "create"]
    /\ at = [w \in Workers |-> 1]
    /\ staged = [w \in Workers |-> <<>>]
    /\ claim = [w \in Workers |-> None]
    /\ results = [w \in Workers |-> <<>>]
    /\ faults = 0
    /\ restarts = 0

-----------------------------------------------------------------------------
(* Capture *)

Goto(w, label) == pc' = [pc EXCEPT ![w] = label] /\ UNCHANGED at

(* The next job of a batch at step label, or the first one at step next. *)
Advance(w, label, next) ==
    /\ pc' = [pc EXCEPT ![w] = IF Last(w) THEN next ELSE label]
    /\ at' = [at EXCEPT ![w] = IF Last(w) THEN 1 ELSE @ + 1]

(* FrameArtifactWriter::create, for every destination of a batch in turn. *)
Create(w) ==
    /\ pc[w] = "create"
    /\ ~Exists(MyJob(w).path)
    /\ staged' = [staged EXCEPT ![w] = Append(@, Blank)]
    /\ Advance(w, "create", "capture")
    /\ UNCHANGED <<files, claim, results, quiet>>

(* write_frame; the browser session delivers the frames in order. *)
Capture(w) ==
    /\ pc[w] = "capture"
    /\ Len(Mine(w).records) < Length[MyJob(w).unit]
    /\ \E t \in Takes :
         LET frame == Frame(MyJob(w).unit, Len(Mine(w).records) + 1, t) IN
         staged' = [staged EXCEPT ![w][at[w]].records = Append(@, frame)]
    /\ UNCHANGED <<files, pc, at, claim, results, quiet>>

Captured(w) ==
    /\ pc[w] = "capture"
    /\ Len(Mine(w).records) = Length[MyJob(w).unit]
    /\ Advance(w, "capture", "seal")
    /\ UNCHANGED <<files, staged, claim, results, quiet>>

(* Mutant: the file is published before its bytes are safe. *)
SealUnsynced(w) ==
    /\ pc[w] = "seal"
    /\ Len(Mine(w).records) = Length[MyJob(w).unit]
    /\ staged' = [staged EXCEPT ![w][at[w]].header = Header(MyJob(w).unit, Mine(w).records)]
    /\ Goto(w, "link")
    /\ UNCHANGED <<files, claim, results, quiet>>

(* finish: the header over the bytes reserved for it ... *)
Seal(w) ==
    /\ pc[w] = "seal"
    /\ Len(Mine(w).records) = Length[MyJob(w).unit]
    /\ staged' = [staged EXCEPT ![w][at[w]].header = Header(MyJob(w).unit, Mine(w).records)]
    /\ Goto(w, "sync")
    /\ UNCHANGED <<files, claim, results, quiet>>

(* ... sync_all ... *)
Sync(w) ==
    /\ pc[w] = "sync"
    /\ staged' = [staged EXCEPT ![w][at[w]].synced = TRUE]
    /\ Goto(w, "link")
    /\ UNCHANGED <<files, claim, results, quiet>>

Return(w, header) ==
    /\ results' = [results EXCEPT ![w] = Append(@, header)]
    /\ Advance(w, "seal", "done")

(* ... and publish: hard_link succeeds where nothing exists.               *)
Link(w) ==
    /\ pc[w] = "link"
    /\ ~Exists(MyJob(w).path)
    /\ files' = [files EXCEPT ![MyJob(w).path] = Mine(w)]
    /\ damaged' = damaged \ {MyJob(w).path}
    /\ staged' = [staged EXCEPT ![w][at[w]] = Blank]
    /\ Return(w, Mine(w).header)
    /\ UNCHANGED <<claim, faults, restarts>>

(* A failed link; the staged file is dropped before reuse_artifact runs. *)
Collide(w) ==
    /\ pc[w] = "link"
    /\ Exists(MyJob(w).path)
    /\ staged' = [staged EXCEPT ![w][at[w]] = Blank]
    /\ Goto(w, "classify")
    /\ UNCHANGED <<files, claim, results, quiet>>

(* output.exists() tells OutputExists from any other failure to link, and
   at creation a destination that is taken from one that is free.          *)
FoundExisting(w) ==
    /\ pc[w] \in {"create", "classify"}
    /\ Exists(MyJob(w).path)
    /\ w \in Reusing
    /\ Goto(w, "open")
    /\ UNCHANGED <<files, staged, claim, results, quiet>>

(* reuse_for_capture: open, then matches_capture. *)
Open(w) ==
    /\ pc[w] = "open"
    /\ Readable(MyJob(w).path)
    /\ files[MyJob(w).path].header.unit = MyJob(w).unit
    /\ claim' = [claim EXCEPT ![w] = files[MyJob(w).path].header]
    /\ Goto(w, "verify")
    /\ UNCHANGED <<files, staged, results, quiet>>

(* FrameArtifact::reader, which opens the path again, and verify. *)
Unchanged(p, header) == Readable(p) /\ files[p].header = header

(* Mutant: a file whose header fits is taken as it is. *)
VerifyHeader(w) ==
    /\ pc[w] = "verify"
    /\ Unchanged(MyJob(w).path, claim[w])
    /\ Return(w, claim[w])
    /\ UNCHANGED <<files, staged, claim, quiet>>

Verify(w) ==
    /\ pc[w] = "verify"
    /\ Unchanged(MyJob(w).path, claim[w])
    /\ Verified(files[MyJob(w).path])
    /\ Return(w, claim[w])
    /\ UNCHANGED <<files, staged, claim, quiet>>

(* Whatever ends a call drops its writers, and with them their files. *)
Drop(workers) ==
    /\ pc' = [w \in Workers |-> IF w \in workers THEN "failed" ELSE pc[w]]
    /\ at' = [w \in Workers |-> IF w \in workers THEN 1 ELSE at[w]]
    /\ staged' = [w \in Workers |-> IF w \in workers THEN <<>> ELSE staged[w]]
    /\ claim' = [w \in Workers |-> IF w \in workers THEN None ELSE claim[w]]
    /\ results' = [w \in Workers |-> IF w \in workers THEN <<>> ELSE results[w]]

(* A refusal of the file at the destination. *)
Refuse(w) ==
    /\ LET p == MyJob(w).path IN
       \/ pc[w] = "create" /\ Exists(p) /\ w \notin Reusing
       \/ pc[w] = "classify" /\ (Exists(p) => w \notin Reusing)
       \/ pc[w] = "open" /\ (Readable(p) => files[p].header.unit # MyJob(w).unit)
       \/ pc[w] = "verify" /\ (Unchanged(p, claim[w]) => ~Verified(files[p]))
    /\ Drop({w})
    /\ UNCHANGED <<files, quiet>>

(* An I/O or browser error, a dropped future or a killed process.          *)
Stop(w) ==
    /\ pc[w] \notin {"done", "failed"}
    /\ Drop({w})
    /\ UNCHANGED <<files, quiet>>

(* The caller calls again. *)
Retry(w) ==
    /\ pc[w] = "failed"
    /\ restarts < MaxRestarts
    /\ restarts' = restarts + 1
    /\ Goto(w, "create")
    /\ UNCHANGED <<files, damaged, staged, claim, results, faults>>

Capturing(w) ==
    \/ Create(w) \/ Capture(w) \/ Captured(w) \/ Seal(w) \/ Sync(w) \/ Link(w)
    \/ Collide(w) \/ FoundExisting(w) \/ Open(w) \/ Verify(w) \/ Refuse(w)
    \/ Stop(w) \/ Retry(w)

-----------------------------------------------------------------------------
(* The file system and its other users *)

Fault == faults < MaxFaults /\ faults' = faults + 1

(* Truncation or an undecodable header, a header that decodes to something
   else, a changed record.                                                 *)
Harmed(file) ==
    {[file EXCEPT !.header = None], [file EXCEPT !.header.unit = None],
     [file EXCEPT !.header.digest = <<>>]}
    \cup {[file EXCEPT !.records[i].harm = harm] :
             i \in DOMAIN file.records, harm \in {"torn", "altered"}}

Damage(p) ==
    /\ Fault
    /\ Readable(p)
    /\ \E file \in Harmed(files[p]) : files' = [files EXCEPT ![p] = file]
    /\ damaged' = damaged \cup {p}
    /\ UNCHANGED <<pc, at, staged, claim, results, restarts>>

(* The artifact cache removes an entry it finds corrupt or evicts. *)
Delete(p) ==
    /\ Fault
    /\ Exists(p)
    /\ files' = [files EXCEPT ![p] = None]
    /\ damaged' = damaged \ {p}
    /\ UNCHANGED <<pc, at, staged, claim, results, restarts>>

(* What a power loss leaves of a file: nobody syncs its directory, and its
   bytes are only certain once synced.                                     *)
Survivors(file) == IF file = None THEN {None} ELSE {None, IF file.synced THEN file ELSE Blank}

PowerLoss ==
    /\ Fault
    /\ \E survivors \in [Paths -> {None, Blank} \cup {files[p] : p \in Paths}] :
         /\ \A p \in Paths : survivors[p] \in Survivors(files[p])
         /\ files' = survivors
    /\ damaged' = {p \in damaged : files'[p] # None}
    /\ Drop(Workers)
    /\ UNCHANGED restarts

Environment == PowerLoss \/ \E p \in Paths : Damage(p) \/ Delete(p)

Next == Environment \/ \E w \in Workers : Capturing(w)

Spec == Init /\ [][Next]_vars

-----------------------------------------------------------------------------
(* Properties *)

Labels ==
    {"create", "capture", "seal", "sync", "link", "classify", "open", "verify", "done", "failed"}

(* Every variable has its type, a worker is at a job it has, and it holds a
   writer for every job once it captures.                                  *)
TypeOK ==
    /\ files \in [Paths -> Files \cup {None}]
    /\ damaged \subseteq Paths
    /\ pc \in [Workers -> Labels]
    /\ at \in [Workers -> Nat]
    /\ staged \in [Workers -> Seq(Files)]
    /\ claim \in [Workers -> Headers \cup {None}]
    /\ results \in [Workers -> Seq(Headers)]
    /\ faults \in 0..MaxFaults
    /\ restarts \in 0..MaxRestarts
    /\ \A w \in Workers :
         /\ at[w] \in 1..Len(Jobs[w])
         /\ pc[w] \in {"capture", "seal", "sync", "link"} => Len(staged[w]) = Len(Jobs[w])
         /\ pc[w] = "verify" => claim[w] # None

(* "A failed capture never publishes a partial artifact": whatever crashes,
   loses power, is cancelled or collides, a file that the environment has
   left alone holds all frames of a unit destined for that path, in order,
   under a header that says so, and survives the next power loss whole.    *)
PublishedIsWhole ==
    \A p \in Paths \ damaged : Exists(p) =>
        /\ files[p].synced
        /\ \E w \in Workers : \E j \in DOMAIN Jobs[w] :
             /\ Jobs[w][j].path = p
             /\ files[p].records \in Films(Jobs[w][j].unit)
             /\ files[p].header = Header(Jobs[w][j].unit, files[p].records)

(* A published artifact is immutable: of all captures that race for a path
   one publishes, and no later one changes what it published; only the
   environment damages or removes it.                                      *)
NothingPublishedIsReplaced ==
    [][\A p \in Paths : Exists(p) /\ files'[p] # files[p] =>
         files'[p] = None \/ p \in damaged']_vars

(* A capture returns an artifact for each of its units, and each it returns
   is, when it does, a file that holds exactly that unit's frames under the
   header the caller gets: also when it reuses a file that another process
   published, that was damaged, or that was replaced while it looked.      *)
ReturnedIsVerified ==
    [][\A w \in Workers :
         /\ pc[w] # "done" /\ pc'[w] = "done" => Len(results'[w]) = Len(Jobs[w])
         /\ Len(results'[w]) > Len(results[w]) =>
              LET job == MyJob(w)
                  records == files'[job.path].records
              IN
                /\ files'[job.path] # None
                /\ records \in Films(job.unit)
                /\ results'[w] = Append(results[w], Header(job.unit, records))]_vars
=============================================================================
