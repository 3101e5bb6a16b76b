---------------------------- MODULE LayeredSession ----------------------------
(***************************************************************************)
(* Native composition of one render unit: the LayeredSession of            *)
(* crates/render/src/encoder/layered.rs feeds browser frames to an FFmpeg  *)
(* child, a reader task takes composed frames back through a channel of    *)
(* capacity one (layered_process.rs), and the sink of executor/capture.rs  *)
(* pairs each composed frame with the visual findings of its browser frame *)
(* in the artifact writer.                                                 *)
(*                                                                         *)
(* Pipes hold less than a frame, so that a write suspends in the middle of *)
(* one.  FFmpeg is external: it overlays in lockstep, releases a frame     *)
(* when it has seen the next one or the end of its input, reads no input   *)
(* while it has output to write, and may crash, hang or end early.         *)
(***************************************************************************)
EXTENDS Integers, Sequences

CONSTANTS
    N,            \* LayeredJob.frames
    Chunks,       \* pipe reads and writes a frame takes
    Pipe,         \* chunks a pipe holds
    Destination,  \* LayeredOutput: "frames" or "video"
    None

ASSUME LayeredAssumption ==
    /\ N \in Nat \ {0} /\ Chunks \in Nat \ {0} /\ Pipe \in Nat \ {0}
    /\ Destination \in {"frames", "video"}
    /\ None \notin Int

VARIABLES
    call,       \* the await the session is suspended at, or where it rests
    submitted,  \* LayeredSession.submitted_frames
    fed, taken, \* chunks written to FFmpeg's stdin, and read from it
    made, got,  \* chunks written to FFmpeg's stdout, and read from it
    closed,     \* LayeredSession.input is None
    child,      \* the FFmpeg process
    hung,       \* it makes no progress any more
    reaped,     \* LayeredSession.reaped
    reader,     \* the task that reads composed frames
    channel,    \* composed frames between reader and session
    last,       \* the composed frame that finish retains
    pending,    \* FrameArtifactWriter.pending_findings, as its frame
    records,    \* frames of the artifact, each with its findings
    file        \* the video output

session == <<call, submitted, fed, closed, reaped, last, pending, records>>
vars == <<call, submitted, fed, taken, made, got, closed, child, hung, reaped, reader, channel,
          last, pending, records, file>>

Frames == Destination = "frames"

Resting == {"ready", "failed", "done", "closed"}

(* Suspended where inactivity_timeout bounds the wait for FFmpeg. *)
Waiting == {"write", "receive", "last", "wait"}

Running == child = "running" /\ ~hung

ReaderEnded == reader \in {"none", "ok", "err", "aborted"}

(* recv() of a channel whose sender is gone. *)
EndOfFrames == channel = <<>> /\ ReaderEnded

Init ==
    /\ call = "ready"
    /\ submitted = 0 /\ fed = 0 /\ taken = 0 /\ made = 0 /\ got = 0
    /\ closed = FALSE
    /\ child = "running"
    /\ hung = FALSE
    /\ reaped = FALSE
    /\ reader = IF Frames THEN "reading" ELSE "none"
    /\ channel = <<>>
    /\ last = None
    /\ pending = None
    /\ records = <<>>
    /\ file = IF Frames THEN "none" ELSE "partial"

-----------------------------------------------------------------------------
(* FFmpeg *)

(* Composed frames FFmpeg can write so far; -frames:v bounds them.         *)
Composed ==
    LET whole == taken \div Chunks IN
    IF closed /\ taken = fed THEN whole ELSE IF whole = 0 THEN 0 ELSE whole - 1

MayTake == Running /\ taken < fed /\ (Frames => made = Composed * Chunks)

Take ==
    /\ MayTake
    /\ taken' = taken + 1
    /\ UNCHANGED <<session, made, got, child, hung, reader, channel, file>>

MayMake == Running /\ Frames /\ made < Composed * Chunks /\ made - got < Pipe

Make ==
    /\ MayMake
    /\ made' = made + 1
    /\ UNCHANGED <<session, taken, got, child, hung, reader, channel, file>>

MaySucceed == Running /\ closed /\ taken = fed /\ (Frames => made = Composed * Chunks)

(* The end of the input ends FFmpeg, with a complete output. *)
Succeed ==
    /\ MaySucceed
    /\ child' = "succeeded"
    /\ file' = IF Frames THEN file ELSE "whole"
    /\ UNCHANGED <<session, taken, made, got, hung, reader, channel>>

(* shortest=1: media that end before the plan end the output with success. *)
EndEarly ==
    /\ Running
    /\ child' = "succeeded"
    /\ file' = IF Frames THEN file ELSE "short"
    /\ UNCHANGED <<session, taken, made, got, hung, reader, channel>>

Crash ==
    /\ Running
    /\ child' = "crashed"
    /\ UNCHANGED <<session, taken, made, got, hung, reader, channel, file>>

Hang ==
    /\ Running
    /\ hung' = TRUE
    /\ UNCHANGED <<session, taken, made, got, child, reader, channel, file>>

-----------------------------------------------------------------------------
(* The reader task, read_frames *)

MayRead == reader = "reading" /\ got < made

ReadChunk ==
    /\ MayRead
    /\ got' = got + 1
    /\ reader' = IF got' % Chunks = 0 THEN "sending" ELSE reader
    /\ UNCHANGED <<session, taken, made, child, hung, channel, file>>

MaySend == reader = "sending" /\ channel = <<>>

SendFrame ==
    /\ MaySend
    /\ channel' = <<got \div Chunks>>
    /\ reader' = IF got = N * Chunks THEN "trailing" ELSE "reading"
    /\ UNCHANGED <<session, taken, made, got, child, hung, file>>

(* A frame cut short is an error, the end after the last one is expected.  *)
ReadEnd ==
    /\ reader \in {"reading", "trailing"}
    /\ child # "running" /\ got = made
    /\ reader' = IF reader = "reading" THEN "err" ELSE "ok"
    /\ UNCHANGED <<session, taken, made, got, child, hung, channel, file>>

-----------------------------------------------------------------------------
(* The session *)

(* start_kill ends the child at once; what is in its pipes stays there.    *)
Kill == child' = IF child = "running" THEN "killed" ELSE child

(* A call that ends in an error closes the input, kills and waits. *)
Fail == call' = "stopping" /\ closed' = TRUE

(* check_input, whose byte budget may refuse any frame, then               *)
(* write_foreground begins.                                                *)
Submit ==
    /\ call = "ready" /\ ~closed
    /\ call' \in IF submitted >= N THEN {"failed"} ELSE {"write", "failed"}
    /\ UNCHANGED <<submitted, fed, closed, reaped, last, pending, records, taken, made, got, child,
                   hung, reader, channel, file>>

(* Mutant: one frame more is left with FFmpeg. *)
AwaitsFrameLate == Frames /\ submitted' > 2

(* FFmpeg's framesync holds a frame until it sees the next one. *)
AwaitsFrame == Frames /\ submitted' > 1

MayFeed == call = "write" /\ child = "running" /\ fed - taken < Pipe

(* The sink stages the findings of the frame just submitted. *)
Feed ==
    /\ MayFeed
    /\ fed' = fed + 1
    /\ IF fed' = (submitted + 1) * Chunks
       THEN /\ submitted' = submitted + 1
            /\ call' = IF AwaitsFrame THEN "receive" ELSE "ready"
            /\ pending' = IF Frames /\ ~AwaitsFrame THEN submitted' ELSE pending
       ELSE UNCHANGED <<call, submitted, pending>>
    /\ UNCHANGED <<closed, reaped, last, records, taken, made, got, child, hung, reader, channel, file>>

BrokenPipe ==
    /\ call = "write"
    /\ child # "running"
    /\ Fail
    /\ UNCHANGED <<submitted, fed, reaped, last, pending, records, taken, made, got, child, hung, reader,
                   channel, file>>

(* Mutant: findings are staged before the frame they do not belong to.     *)
RecordStagedFirst ==
    /\ records' = Append(records, [frame |-> Head(channel), findings |-> submitted])
    /\ pending' = None

(* write_layered_artifact: the composed frame of the previous submission   *)
(* takes the findings staged with it, then those of this one are staged.   *)
Record ==
    /\ records' = Append(records, [frame |-> Head(channel), findings |-> pending])
    /\ pending' = submitted

MayReceive == call \in {"receive", "last"} /\ channel # <<>>

ReceiveFrame ==
    /\ call = "receive" /\ MayReceive
    /\ channel' = Tail(channel)
    /\ Record
    /\ call' = "ready"
    /\ UNCHANGED <<submitted, fed, closed, reaped, last, taken, made, got, child, hung, reader, file>>

(* early_frame_end *)
FramesEnd ==
    /\ call \in {"receive", "last"}
    /\ EndOfFrames
    /\ Fail
    /\ UNCHANGED <<submitted, fed, reaped, last, pending, records, taken, made, got, child, hung, reader,
                   channel, file>>

(* A slow FFmpeg may exceed its inactivity timeout at any await. *)
TimeOut ==
    /\ call \in Waiting
    /\ Fail
    /\ UNCHANGED <<submitted, fed, reaped, last, pending, records, taken, made, got, child, hung, reader,
                   channel, file>>

(* finish closes the input, after a check of the planned count. *)
Finish ==
    /\ call = "ready" /\ ~closed
    /\ call' = IF submitted # N THEN "stopping" ELSE IF Frames THEN "last" ELSE "wait"
    /\ closed' = TRUE
    /\ UNCHANGED <<submitted, fed, reaped, last, pending, records, taken, made, got, child, hung,
                   reader, channel, file>>

ReceiveLast ==
    /\ call = "last" /\ MayReceive
    /\ channel' = Tail(channel)
    /\ last' = Head(channel)
    /\ call' = "wait"
    /\ UNCHANGED <<submitted, fed, closed, reaped, pending, records, taken, made, got, child, hung,
                   reader, file>>

(* wait_for_exit *)
Exited ==
    /\ call = "wait"
    /\ child \in {"succeeded", "crashed"}
    /\ reaped' = TRUE
    /\ call' = "drain"
    /\ UNCHANGED <<submitted, fed, closed, last, pending, records, taken, made, got, child, hung,
                   reader, channel, file>>

(* Drop: a child that was not observed is killed, a task that still runs   *)
(* is aborted, and a video that was not completed is removed.              *)
Release(outcome) ==
    /\ call' = outcome
    /\ closed' = TRUE
    /\ IF reaped' THEN UNCHANGED child ELSE Kill
    /\ reader' = IF ReaderEnded THEN reader ELSE "aborted"
    /\ channel' = <<>>
    /\ file' = IF outcome = "closed" /\ ~Frames THEN "none" ELSE file

(* Mutant: the status of the child is not looked at. *)
DrainBlindly ==
    /\ call = "drain"
    /\ ReaderEnded
    /\ UNCHANGED reaped
    /\ Release(IF reader = "err" THEN "closed" ELSE IF Frames THEN "publish" ELSE "done")
    /\ UNCHANGED <<submitted, fed, last, pending, records, taken, made, got, hung>>

(* finish_process_output; the child's status decides last. *)
Drain ==
    /\ call = "drain"
    /\ ReaderEnded
    /\ UNCHANGED reaped
    /\ Release(IF reader = "err" \/ child = "crashed" THEN "closed"
               ELSE IF Frames THEN "publish" ELSE "done")
    /\ UNCHANGED <<submitted, fed, last, pending, records, taken, made, got, hung>>

(* finish_task aborts a reader that misses CLEANUP_TIMEOUT. *)
CleanupTimesOut ==
    /\ call \in {"drain", "aborting"}
    /\ child # "running" /\ ~ReaderEnded
    /\ reaped' \in {reaped, TRUE}
    /\ Release("closed")
    /\ UNCHANGED <<submitted, fed, last, pending, records, taken, made, got, hung>>

(* stop_child and abort_process kill after the input was closed: FFmpeg    *)
(* may still come to its end in between.                                   *)
KillChild ==
    /\ call \in {"stopping", "aborting"}
    /\ child = "running"
    /\ Kill
    /\ UNCHANGED <<session, taken, made, got, hung, reader, channel, file>>

(* stop_child and the aborted reader; the child may miss CLEANUP_TIMEOUT.  *)
(* A session that failed in finish is dropped, one that failed in a write  *)
(* is still the sink's to abort.                                           *)
Stop ==
    /\ call = "stopping" /\ child # "running"
    /\ reaped' \in {reaped, TRUE}
    /\ reader' = IF ReaderEnded THEN reader ELSE "aborted"
    /\ call' = "failed"
    /\ UNCHANGED <<submitted, fed, closed, last, pending, records, taken, made, got, child, hung,
                   channel, file>>

(* The capture failed elsewhere, or in a call of the session. *)
Abort ==
    /\ call \in {"ready", "failed"}
    /\ call' = "aborting"
    /\ closed' = TRUE
    /\ UNCHANGED <<submitted, fed, reaped, last, pending, records, taken, made, got, child, hung,
                   reader, channel, file>>

(* abort observes the child, then the reader it leaves running. *)
AbortEnds ==
    /\ call = "aborting"
    /\ child # "running" /\ ReaderEnded
    /\ reaped' \in {reaped, TRUE}
    /\ Release("closed")
    /\ UNCHANGED <<submitted, fed, last, pending, records, taken, made, got, hung>>

(* Mutant: dropping a session leaves its child alone. *)
CancelOnly ==
    /\ call \notin {"publish", "done", "closed"}
    /\ UNCHANGED <<reaped, child>>
    /\ call' = "closed" /\ closed' = TRUE
    /\ reader' = IF ReaderEnded THEN reader ELSE "aborted"
    /\ channel' = <<>>
    /\ file' = IF Frames THEN file ELSE "none"
    /\ UNCHANGED <<submitted, fed, last, pending, records, taken, made, got, hung>>

(* The future that owns the session is dropped at an await. *)
Cancel ==
    /\ call \notin {"publish", "done", "closed"}
    /\ UNCHANGED reaped
    /\ Release("closed")
    /\ UNCHANGED <<submitted, fed, last, pending, records, taken, made, got, hung>>

(* The sink records the frame that finish returned. *)
RecordLast ==
    /\ call = "publish" /\ last # None
    /\ records' = Append(records, [frame |-> last, findings |-> pending])
    /\ pending' = None
    /\ last' = None
    /\ UNCHANGED <<call, submitted, fed, closed, reaped, taken, made, got, child, hung, reader,
                   channel, file>>

(* The artifact's disk refuses a record. *)
SinkFails ==
    /\ \/ call = "receive" /\ channel # <<>> /\ channel' = Tail(channel)
             /\ call' = "failed" /\ UNCHANGED last
       \/ call = "publish" /\ last # None /\ last' = None
             /\ call' = "closed" /\ UNCHANGED channel
    /\ UNCHANGED <<submitted, fed, closed, reaped, pending, records, taken, made, got, child, hung,
                   reader, file>>

(* FrameArtifactWriter::finish publishes a complete artifact only.         *)
Publish ==
    /\ call = "publish" /\ last = None
    /\ call' = IF Len(records) = N /\ pending = None THEN "done" ELSE "closed"
    /\ UNCHANGED <<submitted, fed, closed, reaped, last, pending, records, taken, made, got, child,
                   hung, reader, channel, file>>

Ffmpeg == Take \/ Make \/ Succeed

Reader == ReadChunk \/ SendFrame \/ ReadEnd

(* What the session and its sink do by themselves. *)
Session ==
    \/ Submit
    \/ Feed
    \/ BrokenPipe
    \/ ReceiveFrame
    \/ FramesEnd
    \/ TimeOut
    \/ Finish
    \/ ReceiveLast
    \/ Exited
    \/ Drain
    \/ CleanupTimesOut
    \/ KillChild
    \/ Stop
    \/ Abort
    \/ AbortEnds
    \/ RecordLast
    \/ Publish

Ended == call \in {"done", "closed"}

Next ==
    \/ Ffmpeg
    \/ EndEarly
    \/ Crash
    \/ Hang
    \/ Reader
    \/ Session
    \/ SinkFails
    \/ Cancel
    \/ Ended /\ UNCHANGED vars

(* Each wait of the session has a deadline, and the capture that feeds it  *)
(* ends as CaptureSession shows; FFmpeg owes nothing.                      *)
Spec == Init /\ [][Next]_vars /\ WF_vars(Session)
-----------------------------------------------------------------------------
(* Properties *)

(* Every variable keeps its type, and every count its order. *)
TypeOK ==
    /\ call \in Waiting \cup {"ready", "failed", "drain", "stopping", "aborting", "publish",
                             "done", "closed"}
    /\ submitted \in 0..N
    /\ fed \in 0 .. N * Chunks
    /\ taken \in 0..fed
    /\ made \in 0 .. N * Chunks
    /\ got \in 0..made
    /\ closed \in BOOLEAN /\ hung \in BOOLEAN /\ reaped \in BOOLEAN
    /\ child \in {"running", "succeeded", "crashed", "killed"}
    /\ reader \in {"none", "reading", "sending", "trailing", "ok", "err", "aborted"}
    /\ channel \in {<<>>} \cup {<<f>> : f \in 1..N}
    /\ last \in 1..N \cup {None}
    /\ pending \in 1..N \cup {None}
    /\ records \in Seq([frame : 1..N, findings : 1..N \cup {None}])
    /\ file \in {"none", "partial", "short", "whole"}

(* Session, FFmpeg and reader never wait for each other in a circle, though *)
(* pipes and channel hold next to nothing: as long as FFmpeg is well, one   *)
(* of the three can go on while the session waits for it, and the cleanup   *)
(* that awaits the reader never meets one that waits for room in a channel  *)
(* nobody empties.                                                          *)
NobodyWaitsInACircle ==
    /\ call \in Waiting /\ Running =>
          \/ MayTake \/ MayMake \/ MaySucceed
          \/ MayRead \/ MaySend
          \/ MayFeed \/ MayReceive
    /\ call \in {"drain", "aborting"} /\ reader = "sending" => channel = <<>>

(* Success means that the child succeeded and was observed, that it was    *)
(* given every planned frame, and that the pixels it returned are all      *)
(* accounted for.                                                          *)
SuccessIsObserved ==
    call = "done" =>
        /\ child = "succeeded" /\ reaped
        /\ submitted = N
        /\ Frames => Len(records) = N
        /\ ~Frames => file # "partial"

(* Once the session is gone, however it ended, no FFmpeg and no reader is  *)
(* left running, and a video that did not succeed is not left behind.      *)
NothingIsLeft ==
    call \in {"publish", "done", "closed"} =>
        /\ child # "running"
        /\ ReaderEnded
        /\ call = "closed" => file = "none"

(* The film of composed frames, each with the findings of its own frame.   *)
Film == [i \in 1..N |-> [frame |-> i, findings |-> i]]

Status == CASE call = "done" -> "done" [] call = "closed" -> "failed" [] OTHER -> "running"

Promise == INSTANCE FrameStream WITH film <- Film, stream <- records, status <- Status

(* The artifact receives the composed frames in order, each next to the    *)
(* findings of the same frame in spite of FFmpeg's lag of one frame; it is *)
(* complete or not published, and the capture comes to an end.             *)
DeliversTheComposition == Promise!Spec
=============================================================================
