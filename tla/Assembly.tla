------------------------------- MODULE Assembly -------------------------------
(***************************************************************************)
(* assemble_frame_artifacts of crates/render/src/executor/mod.rs: the frame *)
(* artifacts of a partition plan become one video through one FFmpeg        *)
(* session (encoder/session.rs), one audio mix (encoder/audio.rs) and one   *)
(* hard link out of a private directory (executor/output.rs), while workers *)
(* and the environment of FrameArtifact change the files it reads.          *)
(*                                                                         *)
(* A reader keeps the file it has opened; damage to a part it has not read  *)
(* yet is the same as damage before it opened the file.                     *)
(***************************************************************************)
EXTENDS FrameArtifact

CONSTANTS
    Plan,     \* the units of the partition plan, each with its artifact
    Foreign   \* a video somebody else put at the output path

ASSUME AssemblyAssumption == Plan \in Seq(Job) /\ Len(Plan) > 0

VARIABLES
    step,      \* where assemble_frame_artifacts is
    artifacts, \* headers of the FrameArtifacts it was given
    reader,    \* the file of the open FrameArtifactReader
    encoder,   \* the FFmpeg child
    encoded,   \* frames written to it, for each artifact streamed so far
    hasAudio,  \* the units have audio tracks
    staged_output, \* the file the private directory offers for publication
    video      \* the file at the output path

assembler == <<step, artifacts, reader, encoder, encoded, hasAudio, staged_output>>
assembly == <<assembler, video>>

AInit ==
    /\ Init
    /\ step = "collect"
    /\ artifacts = <<>>
    /\ reader = None
    /\ encoder = "none"
    /\ encoded = <<>>
    /\ hasAudio \in BOOLEAN
    /\ staged_output = None
    /\ video = None

(* The caller holds an opened artifact for each unit. *)
Collect ==
    /\ step = "collect"
    /\ Len(artifacts) < Len(Plan)
    /\ LET p == Plan[Len(artifacts) + 1].path IN
       Readable(p) /\ artifacts' = Append(artifacts, files[p].header)
    /\ UNCHANGED <<step, reader, encoder, encoded, hasAudio, staged_output, video>>

(* validate_frame_artifacts, then StagedOutput::new. *)
Validate ==
    /\ step = "collect"
    /\ Len(artifacts) = Len(Plan)
    /\ \A i \in DOMAIN Plan : artifacts[i].unit = Plan[i].unit
    /\ video = None
    /\ step' = "start"
    /\ UNCHANGED <<artifacts, reader, encoder, encoded, hasAudio, staged_output, video>>

Start ==
    /\ step = "start"
    /\ encoder' = "running"
    /\ step' = "stream"
    /\ UNCHANGED <<artifacts, reader, encoded, hasAudio, staged_output, video>>

Current == Len(encoded)
Position == Len(encoded[Current]) + 1

(* Mutant: whatever stands at the path now is streamed. *)
OpenReaderAnew ==
    /\ step = "stream" /\ reader = None
    /\ Current < Len(Plan)
    /\ Readable(Plan[Current + 1].path)
    /\ reader' = files[Plan[Current + 1].path]
    /\ encoded' = Append(encoded, <<>>)
    /\ UNCHANGED <<step, artifacts, encoder, hasAudio, staged_output, video>>

(* stream_artifact: FrameArtifact::reader ... *)
OpenReader ==
    /\ step = "stream" /\ reader = None
    /\ Current < Len(Plan)
    /\ Unchanged(Plan[Current + 1].path, artifacts[Current + 1])
    /\ reader' = files[Plan[Current + 1].path]
    /\ encoded' = Append(encoded, <<>>)
    /\ UNCHANGED <<step, artifacts, encoder, hasAudio, staged_output, video>>

(* ... next_frame: the pixels of each record, and the digest with the last
   one, are verified before the frame is handed out ...                    *)
Sound(record) == record.harm # "torn"

NextFrame ==
    /\ Sound(reader.records[Position])
    /\ Position = Len(reader.records) => Verified(reader)

(* ... and FfmpegSession::write_frame. *)
WriteFrame ==
    /\ step = "stream" /\ reader # None
    /\ Position \in DOMAIN reader.records
    /\ NextFrame
    /\ encoder = "running"
    /\ encoded' = [encoded EXCEPT ![Current] = Append(@, reader.records[Position])]
    /\ UNCHANGED <<step, artifacts, reader, encoder, hasAudio, staged_output, video>>

CloseReader ==
    /\ step = "stream" /\ reader # None
    /\ Position > Len(reader.records)
    /\ reader' = None
    /\ step' = IF Current = Len(Plan) THEN "finish" ELSE "stream"
    /\ UNCHANGED <<artifacts, encoder, encoded, hasAudio, staged_output, video>>

(* FfmpegSession::finish observes the status of FFmpeg at the end of input. *)
FinishEncoder ==
    /\ step = "finish"
    /\ encoder = "running"
    /\ encoder' = "succeeded"
    /\ staged_output' = encoded
    /\ step' = IF hasAudio THEN "mix" ELSE "publish"
    /\ UNCHANGED <<artifacts, reader, encoded, hasAudio, video>>

(* mix_audio copies the visual stream into a second staged file. *)
StartMix ==
    /\ step = "mix" /\ encoder = "succeeded"
    /\ encoder' = "mixing"
    /\ staged_output' = None
    /\ UNCHANGED <<step, artifacts, reader, encoded, hasAudio, video>>

FinishMix ==
    /\ step = "mix" /\ encoder = "mixing"
    /\ encoder' = "succeeded"
    /\ staged_output' = encoded
    /\ step' = "publish"
    /\ UNCHANGED <<artifacts, reader, encoded, hasAudio, video>>

(* StagedOutput::publish *)
Publish ==
    /\ step = "publish"
    /\ video = None
    /\ video' = staged_output
    /\ step' = "done"
    /\ UNCHANGED <<artifacts, reader, encoder, encoded, hasAudio, staged_output>>

(* FFmpeg ends with a failure, before or after it has read its input. *)
EncoderFails ==
    /\ encoder \in {"running", "mixing"}
    /\ encoder' = "failed"
    /\ UNCHANGED <<step, artifacts, reader, encoded, hasAudio, staged_output, video>>

(* What ends the call kills the encoder and removes the private directory. *)
Abandon ==
    /\ step' = "failed"
    /\ encoder' = "none"
    /\ reader' = None
    /\ artifacts' = <<>>
    /\ encoded' = <<>>
    /\ staged_output' = None
    /\ UNCHANGED hasAudio

(* An error return, a missed deadline or a dropped future. *)
Fail == step \notin {"done", "failed"} /\ Abandon /\ UNCHANGED video

Assembling ==
    \/ Collect \/ Validate \/ Start \/ OpenReader \/ WriteFrame \/ CloseReader
    \/ FinishEncoder \/ StartMix \/ FinishMix \/ Publish \/ EncoderFails \/ Fail

(* Another process takes the output path. *)
Intrude ==
    /\ video = None /\ step \notin {"done", "failed"}
    /\ video' = Foreign
    /\ UNCHANGED assembler

(* A power loss ends the assembler with everything else.  Nothing syncs the
   video: it may be lost, or be no video of ours any more.                 *)
Blackout ==
    /\ PowerLoss
    /\ Abandon
    /\ video' \in {None, video} \cup IF video = None THEN {} ELSE {Foreign}

Storage ==
    \/ \E w \in Workers : Capturing(w)
    \/ \E p \in Paths : Damage(p) \/ Delete(p)

ANext ==
    \/ Storage /\ UNCHANGED assembly
    \/ (Assembling \/ Intrude) /\ UNCHANGED vars
    \/ Blackout

avars == <<vars, assembly>>

ASpec == AInit /\ [][ANext]_avars

-----------------------------------------------------------------------------
(* Properties *)

(* Every variable has its type; nothing is streamed before all artifacts are
   there, and a reader is open for an artifact that has begun.             *)
AssemblyTypeOK ==
    /\ TypeOK
    /\ step \in {"collect", "start", "stream", "finish", "mix", "publish", "done", "failed"}
    /\ artifacts \in Seq(Headers) /\ Len(artifacts) <= Len(Plan)
    /\ step \notin {"collect", "failed"} => Len(artifacts) = Len(Plan)
    /\ reader \in Files \cup {None}
    /\ reader # None => step = "stream" /\ encoded # <<>>
    /\ encoder \in {"none", "running", "succeeded", "mixing", "failed"}
    /\ encoded \in Seq(Seq(Frames)) /\ Len(encoded) <= Len(Plan)
    /\ hasAudio \in BOOLEAN
    /\ staged_output \in Seq(Seq(Frames)) \cup {None}
    /\ video \in Seq(Seq(Frames)) \cup {None, Foreign}

(* A published video holds the frames of all planned units, whole and in
   order, and they are the frames of the artifacts the assembler was given,
   not of files that were damaged, removed or captured again since.        *)
VideoIsTheFilm ==
    /\ video \notin {None, Foreign} =>
         /\ Len(video) = Len(Plan)
         /\ \A i \in DOMAIN Plan : video[i] \in Films(Plan[i].unit)
    /\ step = "done" /\ video # Foreign =>
         \A i \in DOMAIN Plan : video[i] = artifacts[i].digest

(* "Publication is no-clobber": whatever stands at the output path stays,
   also when it appears after the assembler has looked.                    *)
VideoIsNotReplaced ==
    [][video # None /\ video' # video => video' \in {None, Foreign}]_avars
=============================================================================
