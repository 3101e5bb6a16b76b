------------------------- MODULE LayeredSession_proofs -------------------------

(***************************************************************************)
(* Composition for every number of frames, chunks of a frame, size of the  *)
(* pipes and destination.  How it ends: success is only reported of a      *)
(* child that was observed to succeed, and no end leaves a child, a reader *)
(* or a rejected video.  How it gets there: session, FFmpeg and reader     *)
(* never wait in a circle, and the artifact receives the film in order.    *)
(***************************************************************************)
EXTENDS LayeredSession, SequenceTheorems, TLAPS

Calls == Waiting \cup {"ready", "failed", "drain", "stopping", "aborting", "publish", "done",
                       "closed"}

(* What a call that is past the waits for FFmpeg knows about it. *)
Past ==
    /\ call \in {"last", "wait", "drain", "publish", "done"} => submitted = N
    /\ call \in {"drain", "publish", "done"} => reaped
    /\ call \in {"drain", "publish", "done"} => child \in {"succeeded", "crashed"}
    /\ call \in {"publish", "done"} => child = "succeeded"
    /\ call = "done" /\ Frames => Len(records) = N

(* An observed child is gone, and only a running one has a partial video. *)
Child ==
    /\ child \in {"running", "succeeded", "crashed", "killed"}
    /\ reaped \in BOOLEAN
    /\ reaped => child # "running"
    /\ ~Frames /\ child = "succeeded" /\ call # "closed" => file # "partial"

(* Each destination has its own calls. *)
Destined ==
    /\ call \in Calls
    /\ Frames => file = "none"
    /\ ~Frames => call \notin {"receive", "last", "publish"}

IInv ==
    /\ Past
    /\ Child
    /\ Destined
    /\ NothingIsLeft

USE DEF Frames, Calls, Waiting

(* A session starts with its child running and nothing known. *)
LEMMA InitIInv == Init => IInv
BY DEF Init, IInv, Past, Child, Destined, NothingIsLeft, ReaderEnded

(* Steps of FFmpeg and of the reader. *)
LEMMA OutsideIInv ==
    ASSUME IInv, Ffmpeg \/ EndEarly \/ Crash \/ Hang \/ Reader
    PROVE  IInv'
<1> USE DEF IInv, Past, Child, Destined, NothingIsLeft, session
<1>1. CASE Take
  BY <1>1 DEF Take, MayTake, Running, ReaderEnded
<1>2. CASE Make
  BY <1>2 DEF Make, MayMake, Running, ReaderEnded
<1>3. CASE Succeed
  BY <1>3 DEF Succeed, MaySucceed, Running, ReaderEnded
<1>4. CASE EndEarly
  BY <1>4 DEF EndEarly, Running, ReaderEnded
<1>5. CASE Crash
  BY <1>5 DEF Crash, Running, ReaderEnded
<1>6. CASE Hang
  BY <1>6 DEF Hang, Running, ReaderEnded
<1>7. CASE ReadChunk
  BY <1>7 DEF ReadChunk, MayRead, ReaderEnded
<1>8. CASE SendFrame
  BY <1>8 DEF SendFrame, MaySend, ReaderEnded
<1>9. CASE ReadEnd
  BY <1>9 DEF ReadEnd, ReaderEnded
<1> QED
  BY <1>1, <1>2, <1>3, <1>4, <1>5, <1>6, <1>7, <1>8, <1>9 DEF Ffmpeg, Reader

(* The calls that feed FFmpeg and receive from it. *)
LEMMA CallIInv ==
    ASSUME IInv,
           \/ Submit \/ Feed \/ BrokenPipe \/ ReceiveFrame \/ FramesEnd \/ TimeOut
           \/ Finish \/ ReceiveLast \/ Exited
    PROVE  IInv'
<1> USE DEF IInv, Past, Child, Destined, NothingIsLeft, ReaderEnded
<1>1. CASE Submit
  BY <1>1 DEF Submit
<1>2. CASE Feed
  BY <1>2 DEF Feed, AwaitsFrame
<1>3. CASE BrokenPipe
  BY <1>3 DEF BrokenPipe, Fail
<1>4. CASE ReceiveFrame
  BY <1>4 DEF ReceiveFrame, Record
<1>5. CASE FramesEnd
  BY <1>5 DEF FramesEnd, Fail
<1>6. CASE TimeOut
  BY <1>6 DEF TimeOut, Fail
<1>7. CASE Finish
  BY <1>7 DEF Finish
<1>8. CASE ReceiveLast
  BY <1>8 DEF ReceiveLast
<1>9. CASE Exited
  BY <1>9 DEF Exited
<1> QED
  BY <1>1, <1>2, <1>3, <1>4, <1>5, <1>6, <1>7, <1>8, <1>9

(* The ends of a session, and what its sink does then. *)
LEMMA EndIInv ==
    ASSUME IInv,
           \/ Drain \/ CleanupTimesOut \/ KillChild \/ Stop \/ Abort \/ AbortEnds
           \/ RecordLast \/ Publish \/ SinkFails \/ Cancel
    PROVE  IInv'
<1> USE DEF IInv, Past, Child, Destined, NothingIsLeft, ReaderEnded
<1>1. CASE Drain
  BY <1>1 DEF Drain, Release, Kill
<1>2. CASE CleanupTimesOut
  BY <1>2 DEF CleanupTimesOut, Release, Kill
<1>3. CASE KillChild
  BY <1>3 DEF KillChild, Kill, session
<1>4. CASE Stop
  BY <1>4 DEF Stop
<1>5. CASE Abort
  BY <1>5 DEF Abort
<1>6. CASE AbortEnds
  BY <1>6 DEF AbortEnds, Release, Kill
<1>7. CASE RecordLast
  BY <1>7 DEF RecordLast
<1>8. CASE Publish
  BY <1>8 DEF Publish
<1>9. CASE SinkFails
  BY <1>9 DEF SinkFails
<1>10. CASE Cancel
  BY <1>10 DEF Cancel, Release, Kill
<1> QED
  BY <1>1, <1>2, <1>3, <1>4, <1>5, <1>6, <1>7, <1>8, <1>9, <1>10

(* The invariant survives every step. *)
LEMMA NextIInv == IInv /\ [Next]_vars => IInv'
<1> SUFFICES ASSUME IInv, [Next]_vars PROVE IInv'
  OBVIOUS
<1>1. CASE UNCHANGED vars
  BY <1>1 DEF IInv, Past, Child, Destined, NothingIsLeft, ReaderEnded, vars
<1>2. CASE Next
  BY <1>1, <1>2, OutsideIInv, CallIInv, EndIInv DEF Next, Session
<1> QED
  BY <1>1, <1>2

(* Whatever FFmpeg does, the session ends without a child, a reader or a   *)
(* rejected video: abort, Drop and every failing call.                     *)
THEOREM SessionLeavesNothing == Spec => []NothingIsLeft
<1>1. IInv => NothingIsLeft
  BY DEF IInv
<1> QED
  BY InitIInv, NextIInv, <1>1, PTL DEF Spec

(* finish reports success only of every planned frame, composed by a child *)
(* whose successful exit was observed, with each returned frame recorded.  *)
THEOREM SessionSucceedsObserved == Spec => []SuccessIsObserved
<1>1. IInv => SuccessIsObserved
  BY DEF IInv, Past, Child, SuccessIsObserved
<1> QED
  BY InitIInv, NextIInv, <1>1, PTL DEF Spec

-----------------------------------------------------------------------------

(***************************************************************************)
(* What is under way: where each frame is between submission and record.   *)
(***************************************************************************)

(* Composed frames the session has taken from the channel. *)
Received ==
    IF call \in {"wait", "drain", "publish", "done"} THEN N
    ELSE IF call = "last" THEN N - 1
    ELSE IF call = "receive" THEN submitted - 2
    ELSE IF submitted = 0 THEN 0 ELSE submitted - 1

(* Frames are fed whole, and a call knows how many. *)
Inputs ==
    /\ submitted \in 0..N
    /\ taken \in 0..fed /\ fed \in Nat
    /\ submitted * Chunks <= fed /\ fed < (submitted + 1) * Chunks
    /\ call \in {"ready", "receive", "last", "wait", "drain"} => fed = submitted * Chunks
    /\ call = "write" => submitted < N
    /\ call = "receive" => submitted > 1
    /\ call \in {"last", "wait", "drain"} => submitted = N

(* The input is open as long as frames may follow. *)
Closing ==
    /\ closed \in BOOLEAN
    /\ call \in {"ready", "write", "receive"} => ~closed
    /\ call \in {"last", "wait", "drain"} => closed

(* Chunks of the frames FFmpeg can have written. *)
Room == Composed * Chunks

(* FFmpeg writes no more than it has composed, the reader reads no more. *)
Outputs ==
    Frames =>
    /\ got \in 0..made /\ made \in Nat
    /\ made <= Room

(* The reader task has not ended. *)
Alive == reader \in {"reading", "sending", "trailing"}

(* A reader ends by itself only after the child, and is aborted by no call *)
(* that still waits for frames; it sends at the end of a frame.            *)
Readers ==
    /\ ~Frames => reader = "none" /\ channel = <<>>
    /\ Frames =>
          /\ reader \in {"reading", "sending", "trailing", "ok", "err", "aborted"}
          /\ reader \in {"ok", "err"} => child # "running"
          /\ reader = "sending" => got > 0 /\ got % Chunks = 0
          /\ call \in Waiting \cup {"ready", "drain"} => reader # "aborted"

(* Composed frames the reader has returned to the session. *)
Returned == Received + (IF channel = <<>> THEN 0 ELSE 1)

(* While a call may still take a frame, or the reader goes on behind a     *)
(* call that failed, the reader is within the next frame or has it to send.*)
Stream ==
    Frames /\ (\/ call \in Waiting \cup {"ready", "drain"}
               \/ Alive /\ call \in {"failed", "aborting"}) =>
        /\ channel \in {<<>>, <<Received + 1>>}
        /\ reader = "reading" =>
              /\ Returned < N
              /\ Returned * Chunks <= got
              /\ got < (Returned + 1) * Chunks
        /\ reader = "sending" => got = (Returned + 1) * Chunks /\ Returned < N
        /\ reader = "trailing" => got = N * Chunks /\ Returned = N

(* The findings that are staged are those of the frame FFmpeg holds back.  *)
Staged ==
    Frames =>
        /\ call \in {"ready", "write", "receive"} => Len(records) = Received
        /\ call \in {"last", "wait", "drain"} => Len(records) = N - 1 /\ pending = N
        /\ call \in {"ready", "write"} => pending = IF submitted = 0 THEN None ELSE submitted
        /\ call = "receive" => pending = submitted - 1
        /\ call \in {"wait", "drain"} => last = N
        /\ call = "publish" => \/ last = N /\ Len(records) = N - 1 /\ pending = N
                               \/ last = None /\ Len(records) = N /\ pending = None
        /\ call = "done" => Len(records) = N

(* The artifact holds a prefix of the film. *)
Recorded ==
    /\ records \in Seq([frame : 1..N, findings : 1..N])
    /\ \A i \in 1..Len(records) : records[i] = [frame |-> i, findings |-> i]
    /\ Len(records) <= N

SInv == TypeOK /\ Inputs /\ Closing /\ Outputs /\ Readers /\ Stream /\ Staged /\ Recorded

USE LayeredAssumption

(* Products with Chunks are ordered as their factors are. *)
LEMMA Multiples ==
    ASSUME NEW a \in Nat, NEW b \in Nat
    PROVE  /\ a * Chunks \in Nat
           /\ a <= b <=> a * Chunks <= b * Chunks
           /\ a < b <=> a * Chunks < b * Chunks
           /\ (a + 1) * Chunks = a * Chunks + Chunks
OBVIOUS

(* Whole frames in a number of chunks. *)
LEMMA Quotients ==
    ASSUME NEW x \in Nat
    PROVE  /\ x \div Chunks \in Nat
           /\ (x \div Chunks) * Chunks <= x
           /\ x < (x \div Chunks + 1) * Chunks
           /\ x % Chunks = 0 <=> x = (x \div Chunks) * Chunks
           /\ \A q \in Nat : q * Chunks <= x /\ x < (q + 1) * Chunks => x \div Chunks = q
OBVIOUS

(* FFmpeg composes no frame that was not submitted, holds the last one     *)
(* back while the input is open, and at most that one when it has read     *)
(* all.                                                                    *)
LEMMA ComposedBounds ==
    ASSUME Inputs, closed \in BOOLEAN
    PROVE  /\ Composed \in Nat
           /\ Composed * Chunks <= taken
           /\ Composed <= submitted
           /\ ~closed => Composed = 0 \/ Composed < submitted
           /\ closed /\ taken = fed /\ fed = submitted * Chunks => Composed = submitted
           /\ taken = fed /\ fed = submitted * Chunks /\ submitted > 0 => Composed >= submitted - 1
<1> USE DEF Inputs
<1>1. taken \in Nat /\ submitted \in Nat /\ taken <= fed
  OBVIOUS
<1>2. taken \div Chunks \in Nat /\ (taken \div Chunks) * Chunks <= taken
  BY <1>1, Quotients
<1>3. (taken \div Chunks) * Chunks < (submitted + 1) * Chunks
  <2>1. fed < (submitted + 1) * Chunks /\ (submitted + 1) * Chunks \in Nat /\ fed \in Nat
    BY <1>1, Multiples
  <2>2. (taken \div Chunks) * Chunks \in Nat
    BY <1>2, Multiples
  <2> QED
    BY <1>1, <1>2, <2>1, <2>2
<1>4. taken \div Chunks <= submitted
  <2>1. taken \div Chunks < submitted + 1
    BY <1>1, <1>2, <1>3, Multiples
  <2> QED
    BY <1>1, <1>2, <2>1
<1>5. ASSUME taken = fed, fed = submitted * Chunks
      PROVE  taken \div Chunks = submitted
  BY <1>1, <1>5, Quotients, Multiples
<1>6. taken \div Chunks > 0 => (taken \div Chunks - 1) * Chunks <= taken
  BY <1>1, <1>2
<1> DEFINE q == taken \div Chunks
<1> HIDE DEF q
<1>7. /\ q \in Nat /\ q * Chunks <= taken /\ q <= submitted
      /\ taken = fed /\ fed = submitted * Chunks => q = submitted
      /\ q > 0 => (q - 1) * Chunks <= taken
  BY <1>2, <1>4, <1>5, <1>6 DEF q
<1>8. Composed = IF closed /\ taken = fed THEN q ELSE IF q = 0 THEN 0 ELSE q - 1
  BY DEF Composed, q
<1> QED
  BY <1>1, <1>7, <1>8

(* The chunk that completes a frame. *)
LEMMA Chunked ==
    ASSUME NEW q \in Nat, NEW x \in Nat, q * Chunks <= x, x < (q + 1) * Chunks
    PROVE  (x + 1) % Chunks = 0 <=> x + 1 = (q + 1) * Chunks
<1>1. CASE x + 1 = (q + 1) * Chunks
  <2>1. (x + 1) \div Chunks = q + 1
    BY <1>1, Quotients, Multiples
  <2> QED
    BY <1>1, <2>1, Quotients
<1>2. CASE x + 1 < (q + 1) * Chunks
  <2>1. (x + 1) \div Chunks = q
    BY <1>2, Quotients, Multiples
  <2>2. (x + 1) % Chunks = 0 => x + 1 = q * Chunks
    BY <2>1, Quotients
  <2> QED
    BY <1>2, <2>2, Multiples
<1> QED
  BY <1>1, <1>2, Multiples

(* More chunks, no fewer whole frames. *)
LEMMA QuotientsGrow ==
    ASSUME NEW x \in Nat, NEW y \in Nat, x <= y
    PROVE  x \div Chunks <= y \div Chunks
<1> DEFINE p == x \div Chunks
<1> DEFINE q == y \div Chunks
<1>1. /\ p \in Nat /\ q \in Nat
      /\ p * Chunks <= x /\ y < (q + 1) * Chunks
  BY Quotients
<1>2. p * Chunks \in Nat /\ (q + 1) * Chunks \in Nat
  BY <1>1, Multiples
<1> HIDE DEF p, q
<1>3. p * Chunks < (q + 1) * Chunks
  BY <1>1, <1>2
<1>4. p < q + 1
  BY <1>1, <1>3, Multiples
<1>5. p <= q
  BY <1>1, <1>4
<1> QED
  BY <1>5 DEF p, q

(* The frames FFmpeg can write do not become fewer as it reads on. *)
LEMMA ComposedGrows ==
    ASSUME Inputs, Inputs', closed \in BOOLEAN, closed' \in BOOLEAN,
           taken <= taken', closed => closed' /\ fed' = fed
    PROVE  Composed \in Nat /\ Composed' \in Nat /\ Composed <= Composed'
<1> USE DEF Inputs
<1>1. taken \in Nat /\ taken' \in Nat /\ taken' <= fed'  /\ fed' \in Nat /\ fed \in Nat
  OBVIOUS
<1> DEFINE p == taken \div Chunks
<1> DEFINE q == taken' \div Chunks
<1>2. p \in Nat /\ q \in Nat /\ p <= q
  BY <1>1, Quotients, QuotientsGrow
<1>3. /\ Composed = IF closed /\ taken = fed THEN p ELSE IF p = 0 THEN 0 ELSE p - 1
      /\ Composed' = IF closed' /\ taken' = fed' THEN q ELSE IF q = 0 THEN 0 ELSE q - 1
  BY DEF Composed
<1> HIDE DEF p, q
<1> QED
  BY <1>1, <1>2, <1>3

(* Every step keeps the frames fed whole. *)
LEMMA InputsStep ==
    ASSUME SInv, IInv, Next
    PROVE  Inputs' /\ Closing'
<1> USE DEF SInv, IInv, Past, Destined, Inputs, Closing, ReaderEnded
<1>0. /\ submitted \in Nat /\ submitted * Chunks \in Nat
      /\ (submitted + 1) * Chunks = submitted * Chunks + Chunks
      /\ ((submitted + 1) + 1) * Chunks = submitted * Chunks + Chunks + Chunks
  BY Multiples
<1>1. CASE Take
  BY <1>1, <1>0 DEF Take, MayTake, Running, session
<1>2. CASE Make
  BY <1>2, <1>0 DEF Make, MayMake, Running, session
<1>3. CASE Succeed
  BY <1>3, <1>0 DEF Succeed, MaySucceed, Running, session
<1>4. CASE EndEarly
  BY <1>4, <1>0 DEF EndEarly, Running, session
<1>5. CASE Crash
  BY <1>5, <1>0 DEF Crash, Running, session
<1>6. CASE Hang
  BY <1>6, <1>0 DEF Hang, Running, session
<1>7. CASE ReadChunk
  BY <1>7, <1>0 DEF ReadChunk, MayRead, session
<1>8. CASE SendFrame
  BY <1>8, <1>0 DEF SendFrame, MaySend, session
<1>9. CASE ReadEnd
  BY <1>9, <1>0 DEF ReadEnd, session
<1>10. CASE Submit
  BY <1>10, <1>0 DEF Submit
<1>11. CASE Feed
  BY <1>11, <1>0 DEF Feed, MayFeed, AwaitsFrame
<1>12. CASE BrokenPipe
  BY <1>12, <1>0 DEF BrokenPipe, Fail
<1>13. CASE ReceiveFrame
  BY <1>13, <1>0 DEF ReceiveFrame, MayReceive, Record
<1>14. CASE FramesEnd
  BY <1>14, <1>0 DEF FramesEnd, Fail, EndOfFrames
<1>15. CASE TimeOut
  BY <1>15, <1>0 DEF TimeOut, Fail
<1>16. CASE Finish
  BY <1>16, <1>0 DEF Finish
<1>17. CASE ReceiveLast
  BY <1>17, <1>0 DEF ReceiveLast, MayReceive
<1>18. CASE Exited
  BY <1>18, <1>0 DEF Exited
<1>19. CASE Drain
  BY <1>19, <1>0 DEF Drain, Release, Kill
<1>20. CASE CleanupTimesOut
  BY <1>20, <1>0 DEF CleanupTimesOut, Release, Kill
<1>21. CASE KillChild
  BY <1>21, <1>0 DEF KillChild, Kill, session
<1>22. CASE Stop
  BY <1>22, <1>0 DEF Stop
<1>23. CASE Abort
  BY <1>23, <1>0 DEF Abort
<1>24. CASE AbortEnds
  BY <1>24, <1>0 DEF AbortEnds, Release, Kill
<1>25. CASE RecordLast
  BY <1>25, <1>0 DEF RecordLast
<1>26. CASE Publish
  BY <1>26, <1>0 DEF Publish
<1>27. CASE SinkFails
  BY <1>27, <1>0 DEF SinkFails
<1>28. CASE Cancel
  BY <1>28, <1>0 DEF Cancel, Release, Kill
<1>29. CASE Ended /\ UNCHANGED vars
  BY <1>29, <1>0 DEF vars
<1> QED
  BY <1>1, <1>2, <1>3, <1>4, <1>5, <1>6, <1>7, <1>8, <1>9, <1>10, <1>11, <1>12, <1>13, <1>14,
       <1>15, <1>16, <1>17, <1>18, <1>19, <1>20, <1>21, <1>22, <1>23, <1>24, <1>25, <1>26, <1>27,
       <1>28, <1>29 DEF Next, Ffmpeg, Reader, Session

(* No step takes a composed frame back. *)
LEMMA ComposedStep ==
    ASSUME SInv, IInv, Next
    PROVE  /\ Composed \in Nat /\ Composed' \in Nat
           /\ Composed <= Composed'
<1>1. Inputs /\ Inputs' /\ closed \in BOOLEAN /\ closed' \in BOOLEAN
  BY InputsStep DEF SInv, Closing
<1>2. taken <= taken'
  <2>1. taken \in Nat
    BY <1>1 DEF Inputs
  <2>2. taken' = taken \/ taken' = taken + 1
    BY DEF Next, Ffmpeg, Reader, Session, Take, Make, Succeed, EndEarly, Crash, Hang,
         ReadChunk, SendFrame, ReadEnd, Submit, Feed, BrokenPipe, ReceiveFrame, FramesEnd,
         TimeOut, Finish, ReceiveLast, Exited, Drain, CleanupTimesOut, KillChild, Stop, Abort,
         AbortEnds, RecordLast, Publish, SinkFails, Cancel, AwaitsFrame, EndOfFrames, Fail, Kill,
         MayFeed, MayMake, MayRead, MayReceive, MaySend, MaySucceed, MayTake, Record, Release,
         Running, session, vars
  <2> QED
    BY <2>1, <2>2
<1>3. closed => closed' /\ fed' = fed
  BY DEF SInv, Closing, Next, Ffmpeg, Reader, Session, Take, Make, Succeed, EndEarly, Crash,
       Hang, ReadChunk, SendFrame, ReadEnd, Submit, Feed, BrokenPipe, ReceiveFrame, FramesEnd,
       TimeOut, Finish, ReceiveLast, Exited, Drain, CleanupTimesOut, KillChild, Stop, Abort,
       AbortEnds, RecordLast, Publish, SinkFails, Cancel, AwaitsFrame, EndOfFrames, Fail, Kill,
       MayFeed, MayMake, MayRead, MayReceive, MaySend, MaySucceed, MayTake, Record, Release,
       Running, session, vars
<1> QED
  BY <1>1, <1>2, <1>3, ComposedGrows

(* Every step keeps output within what is composed. *)
LEMMA OutputsStep ==
    ASSUME SInv, IInv, Next
    PROVE  Outputs'
<1> USE DEF SInv, IInv, Destined, Outputs, ReaderEnded
<1>0. /\ Room \in Nat /\ Room' \in Nat /\ Room <= Room'
      /\ MayMake => made < Room
  BY ComposedStep, Multiples DEF Room, MayMake
<1>1. CASE Take
  BY <1>1, <1>0 DEF Take, MayTake, Running, session
<1>2. CASE Make
  BY <1>2, <1>0 DEF Make, session, MayMake
<1>3. CASE Succeed
  BY <1>3, <1>0 DEF Succeed, MaySucceed, Running, session
<1>4. CASE EndEarly
  BY <1>4, <1>0 DEF EndEarly, Running, session
<1>5. CASE Crash
  BY <1>5, <1>0 DEF Crash, Running, session
<1>6. CASE Hang
  BY <1>6, <1>0 DEF Hang, Running, session
<1>7. CASE ReadChunk
  BY <1>7, <1>0 DEF ReadChunk, MayRead, session
<1>8. CASE SendFrame
  BY <1>8, <1>0 DEF SendFrame, MaySend, session
<1>9. CASE ReadEnd
  BY <1>9, <1>0 DEF ReadEnd, session
<1>10. CASE Submit
  BY <1>10, <1>0 DEF Submit
<1>11. CASE Feed
  BY <1>11, <1>0 DEF Feed, MayFeed, AwaitsFrame
<1>12. CASE BrokenPipe
  BY <1>12, <1>0 DEF BrokenPipe, Fail
<1>13. CASE ReceiveFrame
  BY <1>13, <1>0 DEF ReceiveFrame, MayReceive, Record
<1>14. CASE FramesEnd
  BY <1>14, <1>0 DEF FramesEnd, Fail, EndOfFrames
<1>15. CASE TimeOut
  BY <1>15, <1>0 DEF TimeOut, Fail
<1>16. CASE Finish
  BY <1>16, <1>0 DEF Finish
<1>17. CASE ReceiveLast
  BY <1>17, <1>0 DEF ReceiveLast, MayReceive
<1>18. CASE Exited
  BY <1>18, <1>0 DEF Exited
<1>19. CASE Drain
  BY <1>19, <1>0 DEF Drain, Release, Kill
<1>20. CASE CleanupTimesOut
  BY <1>20, <1>0 DEF CleanupTimesOut, Release, Kill
<1>21. CASE KillChild
  BY <1>21, <1>0 DEF KillChild, Kill, session
<1>22. CASE Stop
  BY <1>22, <1>0 DEF Stop
<1>23. CASE Abort
  BY <1>23, <1>0 DEF Abort
<1>24. CASE AbortEnds
  BY <1>24, <1>0 DEF AbortEnds, Release, Kill
<1>25. CASE RecordLast
  BY <1>25, <1>0 DEF RecordLast
<1>26. CASE Publish
  BY <1>26, <1>0 DEF Publish
<1>27. CASE SinkFails
  BY <1>27, <1>0 DEF SinkFails
<1>28. CASE Cancel
  BY <1>28, <1>0 DEF Cancel, Release, Kill
<1>29. CASE Ended /\ UNCHANGED vars
  BY <1>29, <1>0 DEF vars
<1> QED
  BY <1>1, <1>2, <1>3, <1>4, <1>5, <1>6, <1>7, <1>8, <1>9, <1>10, <1>11, <1>12, <1>13, <1>14,
       <1>15, <1>16, <1>17, <1>18, <1>19, <1>20, <1>21, <1>22, <1>23, <1>24, <1>25, <1>26, <1>27,
       <1>28, <1>29 DEF Next, Ffmpeg, Reader, Session

(* Every step keeps the reader where it can be. *)
LEMMA ReadersStep ==
    ASSUME SInv, IInv, Next
    PROVE  Readers'
<1> USE DEF SInv, IInv, Child, Destined, Readers, Outputs, ReaderEnded, NothingIsLeft
<1>1. CASE Take
  BY <1>1 DEF Take, MayTake, Running, session
<1>2. CASE Make
  BY <1>2 DEF Make, MayMake, Running, session
<1>3. CASE Succeed
  BY <1>3 DEF Succeed, MaySucceed, Running, session
<1>4. CASE EndEarly
  BY <1>4 DEF EndEarly, Running, session
<1>5. CASE Crash
  BY <1>5 DEF Crash, Running, session
<1>6. CASE Hang
  BY <1>6 DEF Hang, Running, session
<1>7. CASE ReadChunk
  BY <1>7 DEF ReadChunk, MayRead, session
<1>8. CASE SendFrame
  BY <1>8 DEF SendFrame, MaySend, session
<1>9. CASE ReadEnd
  BY <1>9 DEF ReadEnd, session
<1>10. CASE Submit
  BY <1>10 DEF Submit
<1>11. CASE Feed
  BY <1>11 DEF Feed, MayFeed, AwaitsFrame
<1>12. CASE BrokenPipe
  BY <1>12 DEF BrokenPipe, Fail
<1>13. CASE ReceiveFrame
  BY <1>13 DEF ReceiveFrame, MayReceive, Record
<1>14. CASE FramesEnd
  BY <1>14 DEF FramesEnd, Fail, EndOfFrames
<1>15. CASE TimeOut
  BY <1>15 DEF TimeOut, Fail
<1>16. CASE Finish
  BY <1>16 DEF Finish
<1>17. CASE ReceiveLast
  BY <1>17 DEF ReceiveLast, MayReceive
<1>18. CASE Exited
  BY <1>18 DEF Exited
<1>19. CASE Drain
  BY <1>19 DEF Drain, Release, Kill
<1>20. CASE CleanupTimesOut
  BY <1>20 DEF CleanupTimesOut, Release, Kill
<1>21. CASE KillChild
  BY <1>21 DEF KillChild, Kill, session
<1>22. CASE Stop
  BY <1>22 DEF Stop
<1>23. CASE Abort
  BY <1>23 DEF Abort
<1>24. CASE AbortEnds
  BY <1>24 DEF AbortEnds, Release, Kill
<1>25. CASE RecordLast
  BY <1>25 DEF RecordLast
<1>26. CASE Publish
  BY <1>26 DEF Publish
<1>27. CASE SinkFails
  BY <1>27 DEF SinkFails
<1>28. CASE Cancel
  BY <1>28 DEF Cancel, Release, Kill
<1>29. CASE Ended /\ UNCHANGED vars
  BY <1>29 DEF vars
<1> QED
  BY <1>1, <1>2, <1>3, <1>4, <1>5, <1>6, <1>7, <1>8, <1>9, <1>10, <1>11, <1>12, <1>13, <1>14,
       <1>15, <1>16, <1>17, <1>18, <1>19, <1>20, <1>21, <1>22, <1>23, <1>24, <1>25, <1>26, <1>27,
       <1>28, <1>29 DEF Next, Ffmpeg, Reader, Session

(* Every step keeps findings with their frame. *)
LEMMA StagedStep ==
    ASSUME SInv, IInv, Next
    PROVE  Staged'
<1> USE DEF SInv, IInv, Past, Destined, Closing, Inputs, Received, Staged, Recorded, Stream, ReaderEnded
<1>1. CASE Take
  BY <1>1 DEF Take, MayTake, Running, session
<1>2. CASE Make
  BY <1>2 DEF Make, MayMake, Running, session
<1>3. CASE Succeed
  BY <1>3 DEF Succeed, MaySucceed, Running, session
<1>4. CASE EndEarly
  BY <1>4 DEF EndEarly, Running, session
<1>5. CASE Crash
  BY <1>5 DEF Crash, Running, session
<1>6. CASE Hang
  BY <1>6 DEF Hang, Running, session
<1>7. CASE ReadChunk
  BY <1>7 DEF ReadChunk, MayRead, session
<1>8. CASE SendFrame
  BY <1>8 DEF SendFrame, MaySend, session
<1>9. CASE ReadEnd
  BY <1>9 DEF ReadEnd, session
<1>10. CASE Submit
  BY <1>10 DEF Submit
<1>11. CASE Feed
  <2>1. CASE fed' = (submitted + 1) * Chunks
    <3>1. /\ call = "write" /\ submitted \in 0..N /\ submitted < N
          /\ submitted' = submitted + 1 /\ records' = records
          /\ call' = IF Frames /\ submitted' > 1 THEN "receive" ELSE "ready"
          /\ pending' = IF Frames /\ ~(submitted' > 1) THEN submitted' ELSE pending
      BY <1>11, <2>1 DEF Feed, MayFeed, AwaitsFrame
    <3>2. ASSUME Frames
          PROVE  /\ Len(records) = IF submitted = 0 THEN 0 ELSE submitted - 1
                 /\ pending = IF submitted = 0 THEN None ELSE submitted
      BY <3>1, <3>2
    <3>3. ASSUME Frames, submitted = 0
          PROVE  call' = "ready" /\ pending' = 1 /\ submitted' = 1 /\ Len(records') = 0
      BY <3>1, <3>2, <3>3
    <3>4. ASSUME Frames, submitted > 0
          PROVE  /\ call' = "receive" /\ submitted' > 1
                 /\ pending' = submitted' - 1 /\ Len(records') = submitted' - 2
      BY <3>1, <3>2, <3>4
    <3>5. submitted = 0 \/ submitted > 0
      BY <3>1
    <3> HIDE DEF Stream, Recorded
    <3> QED
      BY ONLY <3>1, <3>3, <3>4, <3>5 DEF Staged, Received, Waiting
  <2>2. CASE fed' # (submitted + 1) * Chunks
    BY <1>11, <2>2 DEF Feed, MayFeed
  <2> QED
    BY <2>1, <2>2
<1>12. CASE BrokenPipe
  BY <1>12 DEF BrokenPipe, Fail
<1>13. CASE ReceiveFrame
  BY <1>13 DEF ReceiveFrame, MayReceive, Record
<1>14. CASE FramesEnd
  BY <1>14 DEF FramesEnd, Fail, EndOfFrames
<1>15. CASE TimeOut
  BY <1>15 DEF TimeOut, Fail
<1>16. CASE Finish
  BY <1>16 DEF Finish
<1>17. CASE ReceiveLast
  BY <1>17 DEF ReceiveLast, MayReceive
<1>18. CASE Exited
  BY <1>18 DEF Exited
<1>19. CASE Drain
  BY <1>19 DEF Drain, Release, Kill
<1>20. CASE CleanupTimesOut
  BY <1>20 DEF CleanupTimesOut, Release, Kill
<1>21. CASE KillChild
  BY <1>21 DEF KillChild, Kill, session
<1>22. CASE Stop
  BY <1>22 DEF Stop
<1>23. CASE Abort
  BY <1>23 DEF Abort
<1>24. CASE AbortEnds
  BY <1>24 DEF AbortEnds, Release, Kill
<1>25. CASE RecordLast
  BY <1>25 DEF RecordLast
<1>26. CASE Publish
  BY <1>26 DEF Publish
<1>27. CASE SinkFails
  BY <1>27 DEF SinkFails
<1>28. CASE Cancel
  BY <1>28 DEF Cancel, Release, Kill
<1>29. CASE Ended /\ UNCHANGED vars
  BY <1>29 DEF vars
<1> QED
  BY <1>1, <1>2, <1>3, <1>4, <1>5, <1>6, <1>7, <1>8, <1>9, <1>10, <1>11, <1>12, <1>13, <1>14,
       <1>15, <1>16, <1>17, <1>18, <1>19, <1>20, <1>21, <1>22, <1>23, <1>24, <1>25, <1>26, <1>27,
       <1>28, <1>29 DEF Next, Ffmpeg, Reader, Session

(* Every step keeps a prefix of the film. *)
LEMMA RecordedStep ==
    ASSUME SInv, IInv, Next
    PROVE  Recorded'
<1> USE DEF SInv, IInv, Past, Destined, Inputs, Received, Staged, Recorded, Stream, ReaderEnded
<1>1. CASE Take
  BY <1>1 DEF Take, MayTake, Running, session
<1>2. CASE Make
  BY <1>2 DEF Make, MayMake, Running, session
<1>3. CASE Succeed
  BY <1>3 DEF Succeed, MaySucceed, Running, session
<1>4. CASE EndEarly
  BY <1>4 DEF EndEarly, Running, session
<1>5. CASE Crash
  BY <1>5 DEF Crash, Running, session
<1>6. CASE Hang
  BY <1>6 DEF Hang, Running, session
<1>7. CASE ReadChunk
  BY <1>7 DEF ReadChunk, MayRead, session
<1>8. CASE SendFrame
  BY <1>8 DEF SendFrame, MaySend, session
<1>9. CASE ReadEnd
  BY <1>9 DEF ReadEnd, session
<1>10. CASE Submit
  BY <1>10 DEF Submit
<1>11. CASE Feed
  BY <1>11 DEF Feed, MayFeed, AwaitsFrame
<1>12. CASE BrokenPipe
  BY <1>12 DEF BrokenPipe, Fail
<1>13. CASE ReceiveFrame
  BY <1>13 DEF ReceiveFrame, MayReceive, Record
<1>14. CASE FramesEnd
  BY <1>14 DEF FramesEnd, Fail, EndOfFrames
<1>15. CASE TimeOut
  BY <1>15 DEF TimeOut, Fail
<1>16. CASE Finish
  BY <1>16 DEF Finish
<1>17. CASE ReceiveLast
  BY <1>17 DEF ReceiveLast, MayReceive
<1>18. CASE Exited
  BY <1>18 DEF Exited
<1>19. CASE Drain
  BY <1>19 DEF Drain, Release, Kill
<1>20. CASE CleanupTimesOut
  BY <1>20 DEF CleanupTimesOut, Release, Kill
<1>21. CASE KillChild
  BY <1>21 DEF KillChild, Kill, session
<1>22. CASE Stop
  BY <1>22 DEF Stop
<1>23. CASE Abort
  BY <1>23 DEF Abort
<1>24. CASE AbortEnds
  BY <1>24 DEF AbortEnds, Release, Kill
<1>25. CASE RecordLast
  BY <1>25 DEF RecordLast
<1>26. CASE Publish
  BY <1>26 DEF Publish
<1>27. CASE SinkFails
  BY <1>27 DEF SinkFails
<1>28. CASE Cancel
  BY <1>28 DEF Cancel, Release, Kill
<1>29. CASE Ended /\ UNCHANGED vars
  BY <1>29 DEF vars
<1> QED
  BY <1>1, <1>2, <1>3, <1>4, <1>5, <1>6, <1>7, <1>8, <1>9, <1>10, <1>11, <1>12, <1>13, <1>14,
       <1>15, <1>16, <1>17, <1>18, <1>19, <1>20, <1>21, <1>22, <1>23, <1>24, <1>25, <1>26, <1>27,
       <1>28, <1>29 DEF Next, Ffmpeg, Reader, Session

(* Counts of frames are natural numbers. *)
LEMMA ReceivedType ==
    ASSUME SInv
    PROVE  Received \in Nat /\ Returned \in Nat
BY DEF SInv, Inputs, Received, Returned

(* Every step keeps the reader within the next frame. *)
LEMMA StreamStep ==
    ASSUME SInv, IInv, Next
    PROVE  Stream'
<1> USE DEF SInv, IInv, Past, Destined, Inputs, Received, Outputs, Readers, Stream, Returned, Alive,
         ReaderEnded
<1>1. CASE Take
  BY <1>1 DEF Take, MayTake, Running, session
<1>2. CASE Make
  BY <1>2 DEF Make, MayMake, Running, session
<1>3. CASE Succeed
  BY <1>3 DEF Succeed, MaySucceed, Running, session
<1>4. CASE EndEarly
  BY <1>4 DEF EndEarly, Running, session
<1>5. CASE Crash
  BY <1>5 DEF Crash, Running, session
<1>6. CASE Hang
  BY <1>6 DEF Hang, Running, session
<1>7. CASE ReadChunk
  <2>0. call' = call /\ submitted' = submitted /\ channel' = channel /\ got' = got + 1
    BY <1>7 DEF ReadChunk, session
  <2>1. Received' = Received /\ Returned' = Returned
    BY ONLY <2>0 DEF Received, Returned
  <2>2. Returned \in Nat
    BY ReceivedType
  <2>4. Frames => got \in Nat
    BY DEF Outputs
  <2> HIDE DEF Received, Returned
  <2>3. ASSUME Frames /\ (call \in Waiting \cup {"ready", "drain", "failed", "aborting"})
        PROVE  /\ Returned < N /\ Returned * Chunks <= got
               /\ got < (Returned + 1) * Chunks
               /\ got' % Chunks = 0 <=> got' = (Returned + 1) * Chunks
    <3>1. Returned < N /\ Returned * Chunks <= got /\ got < (Returned + 1) * Chunks
      BY <1>7, <2>3 DEF ReadChunk, MayRead
    <3> QED
      BY <2>0, <2>2, <2>3, <2>4, <3>1, Chunked
  <2> QED
    BY <1>7, <2>0, <2>1, <2>2, <2>3, <2>4, Multiples DEF ReadChunk, MayRead, session
<1>8. CASE SendFrame
  <2>0. call' = call /\ submitted' = submitted /\ channel = <<>>
    BY <1>8 DEF SendFrame, MaySend, session
  <2>1. Received' = Received /\ Received \in Nat /\ Returned = Received
    <3>1. Received' = Received
      BY ONLY <2>0 DEF Received
    <3>2. Received \in Nat
      BY ReceivedType
    <3>3. Returned = Received
      BY ONLY <2>0, <3>2 DEF Returned
    <3> QED
      BY <3>1, <3>2, <3>3
  <2>2. Returned' = Received + 1
    BY <1>8, <2>1 DEF SendFrame, MaySend, session
  <2> HIDE DEF Received, Returned
  <2>3. ASSUME Frames /\ (call \in Waiting \cup {"ready", "drain", "failed", "aborting"})
        PROVE  /\ got = (Received + 1) * Chunks /\ got \div Chunks = Received + 1
               /\ Received + 1 <= N
               /\ got = N * Chunks <=> Received + 1 = N
               /\ got < (Received + 2) * Chunks
    <3>1. got = (Received + 1) * Chunks /\ Received < N /\ got \in Nat
      BY <1>8, <2>1, <2>3 DEF SendFrame, MaySend
    <3>2. got < (Received + 2) * Chunks
      BY <2>1, <3>1
    <3>3. got \div Chunks = Received + 1
      BY <2>1, <3>1, <3>2, Quotients
    <3>4. got = N * Chunks <=> Received + 1 = N
      BY <2>1, <3>1, Multiples
    <3> QED
      BY <2>1, <3>1, <3>2, <3>3, <3>4
  <2>4. channel' = <<got \div Chunks>> /\ call' = call /\ got' = got
        /\ reader' = IF got = N * Chunks THEN "trailing" ELSE "reading"
    BY <1>8 DEF SendFrame, session
  <2> QED
    BY <1>8, <2>1, <2>2, <2>3, <2>4 DEF SendFrame, MaySend
<1>9. CASE ReadEnd
  BY <1>9 DEF ReadEnd, session
<1>10. CASE Submit
  BY <1>10 DEF Submit
<1>11. CASE Feed
  <2>1. submitted \in 0..N /\ call = "write" /\ submitted' \in {submitted, submitted + 1}
    BY <1>11 DEF Feed, MayFeed
  <2>2. channel' = channel /\ reader' = reader /\ got' = got
    BY <1>11 DEF Feed
  <2>3. call' \in Waiting \cup {"ready"}
    BY <1>11, <2>1 DEF Feed, AwaitsFrame
  <2>4. ASSUME Frames PROVE Received' = Received /\ Returned' = Returned
    <3>1. \/ call' = "write" /\ submitted' = submitted
          \/ submitted' = submitted + 1 /\ call' = IF submitted' > 1 THEN "receive" ELSE "ready"
      BY <1>11, <2>1, <2>4 DEF Feed, AwaitsFrame
    <3>2. Received = (IF submitted = 0 THEN 0 ELSE submitted - 1)
      BY <2>1
    <3>3. Received' = Received
      BY ONLY <2>1, <3>1, <3>2 DEF Received
    <3> QED
      BY <2>2, <3>3 DEF Returned
  <2> HIDE DEF Received, Returned
  <2> QED
    BY <2>1, <2>2, <2>3, <2>4
<1>12. CASE BrokenPipe
  BY <1>12 DEF BrokenPipe, Fail
<1>13. CASE ReceiveFrame
  <2>1. Frames /\ channel = <<Received + 1>> /\ Received = submitted - 2 /\ submitted \in 2..N
    BY <1>13 DEF ReceiveFrame, MayReceive
  <2>2. channel' = <<>> /\ Received' = Received + 1 /\ Returned' = Returned
    BY <1>13, <2>1 DEF ReceiveFrame, MayReceive
  <2> HIDE DEF Received, Returned
  <2> QED
    BY <1>13, <2>2 DEF ReceiveFrame, MayReceive
<1>14. CASE FramesEnd
  BY <1>14 DEF FramesEnd, Fail, EndOfFrames
<1>15. CASE TimeOut
  BY <1>15 DEF TimeOut, Fail
<1>16. CASE Finish
  BY <1>16 DEF Finish
<1>17. CASE ReceiveLast
  <2>1. Frames /\ channel = <<Received + 1>> /\ Received = N - 1
    BY <1>17 DEF ReceiveLast, MayReceive
  <2>2. channel' = <<>> /\ Received' = Received + 1 /\ Returned' = Returned
    BY <1>17, <2>1 DEF ReceiveLast, MayReceive
  <2> HIDE DEF Received, Returned
  <2> QED
    BY <1>17, <2>2 DEF ReceiveLast, MayReceive
<1>18. CASE Exited
  BY <1>18 DEF Exited
<1>19. CASE Drain
  BY <1>19 DEF Drain, Release, Kill
<1>20. CASE CleanupTimesOut
  BY <1>20 DEF CleanupTimesOut, Release, Kill
<1>21. CASE KillChild
  BY <1>21 DEF KillChild, Kill, session
<1>22. CASE Stop
  BY <1>22 DEF Stop
<1>23. CASE Abort
  BY <1>23 DEF Abort
<1>24. CASE AbortEnds
  BY <1>24 DEF AbortEnds, Release, Kill
<1>25. CASE RecordLast
  BY <1>25 DEF RecordLast
<1>26. CASE Publish
  BY <1>26 DEF Publish
<1>27. CASE SinkFails
  <2>1. CASE call = "publish"
    BY <1>27, <2>1 DEF SinkFails
  <2>2. CASE call = "receive"
    <3>1. Frames /\ channel = <<Received + 1>> /\ Received = submitted - 2 /\ submitted \in 2..N
      BY <1>27, <2>2 DEF SinkFails
    <3>2. channel' = <<>> /\ Received' = Received + 1 /\ Returned' = Returned
      BY <1>27, <2>2, <3>1 DEF SinkFails
    <3> HIDE DEF Received, Returned
    <3> QED
      BY <1>27, <2>2, <3>2 DEF SinkFails
  <2> QED
    BY <1>27, <2>1, <2>2 DEF SinkFails
<1>28. CASE Cancel
  BY <1>28 DEF Cancel, Release, Kill
<1>29. CASE Ended /\ UNCHANGED vars
  BY <1>29 DEF vars
<1> QED
  BY <1>1, <1>2, <1>3, <1>4, <1>5, <1>6, <1>7, <1>8, <1>9, <1>10, <1>11, <1>12, <1>13, <1>14,
       <1>15, <1>16, <1>17, <1>18, <1>19, <1>20, <1>21, <1>22, <1>23, <1>24, <1>25, <1>26, <1>27,
       <1>28, <1>29 DEF Next, Ffmpeg, Reader, Session

(* FFmpeg writes at most the planned frames. *)
LEMMA RoomBound ==
    ASSUME SInv
    PROVE  Room \in Nat /\ Room <= N * Chunks
<1>1. Composed \in Nat /\ Composed <= submitted /\ submitted \in 0..N
  BY ComposedBounds DEF SInv, Inputs, Closing
<1> QED
  BY <1>1, Multiples DEF Room

(* The records keep their type. *)
LEMMA RecordedType ==
    ASSUME SInv, IInv, Next
    PROVE  records' \in Seq([frame : 1..N, findings : 1..N \cup {None}])
<1> DEFINE R == [frame : 1..N, findings : 1..N]
<1> DEFINE T == [frame : 1..N, findings : 1..N \cup {None}]
<1>1. records' \in Seq(R)
  BY RecordedStep DEF Recorded
<1>2. R \subseteq T
  OBVIOUS
<1> HIDE DEF R, T
<1>3. records' \in Seq(T)
  BY <1>1, <1>2, SeqMonotonic
<1> QED
  BY <1>3 DEF T

(* Every step keeps the types. *)
LEMMA TypeStep ==
    ASSUME SInv, IInv, Next
    PROVE  TypeOK'
<1> USE DEF SInv, IInv, Child, Destined, TypeOK, ReaderEnded
<1>1. CASE Take
  BY <1>1 DEF Take, MayTake, Running, session
<1>2. CASE Make
  <2>1. made \in Nat /\ made < Room /\ got \in 0..made
    BY <1>2 DEF Make, MayMake, Room, Outputs
  <2>2. Room <= N * Chunks
    BY RoomBound
  <2>3. N * Chunks \in Nat
    BY Multiples
  <2>4. made + 1 \in 0 .. N * Chunks /\ got \in 0 .. made + 1
    BY <2>1, <2>2, <2>3, RoomBound
  <2> QED
    BY <1>2, <2>4 DEF Make, session
<1>3. CASE Succeed
  BY <1>3 DEF Succeed, MaySucceed, Running, session
<1>4. CASE EndEarly
  BY <1>4 DEF EndEarly, Running, session
<1>5. CASE Crash
  BY <1>5 DEF Crash, Running, session
<1>6. CASE Hang
  BY <1>6 DEF Hang, Running, session
<1>7. CASE ReadChunk
  BY <1>7 DEF ReadChunk, MayRead, session
<1>8. CASE SendFrame
  <2>1. Frames /\ got \in Nat /\ got > 0 /\ got % Chunks = 0 /\ got <= N * Chunks
    BY <1>8, RoomBound DEF SendFrame, MaySend, Readers, Outputs
  <2> DEFINE q == got \div Chunks
  <2>2. q \in Nat /\ got = q * Chunks
    BY <2>1, Quotients
  <2> HIDE DEF q
  <2>3. q # 0 /\ q <= N
    BY <2>1, <2>2, Multiples
  <2>4. channel' \in {<<f>> : f \in 1..N}
    BY <1>8, <2>2, <2>3 DEF SendFrame, q
  <2> QED
    BY <1>8, <2>4 DEF SendFrame, session
<1>9. CASE ReadEnd
  BY <1>9 DEF ReadEnd, session
<1>10. CASE Submit
  BY <1>10 DEF Submit
<1>11. CASE Feed
  <2>1. submitted \in 0 .. N - 1 /\ fed \in Nat /\ fed < (submitted + 1) * Chunks
    BY <1>11 DEF Feed, MayFeed, Inputs
  <2>2. (submitted + 1) * Chunks <= N * Chunks /\ (submitted + 1) * Chunks \in Nat /\ N * Chunks \in Nat
    BY <2>1, Multiples
  <2>3. fed + 1 \in 0 .. N * Chunks /\ taken \in 0 .. fed + 1
    BY <2>1, <2>2 DEF Inputs
  <2>4. submitted' \in 0..N /\ (submitted' = submitted + 1 => submitted' \in 1..N)
    BY <1>11, <2>1 DEF Feed
  <2>5. call' \in {"write", "receive", "ready"} /\ pending' \in {pending, submitted + 1}
    BY <1>11 DEF Feed, MayFeed, AwaitsFrame
  <2> QED
    BY <1>11, <2>1, <2>3, <2>4, <2>5 DEF Feed
<1>12. CASE BrokenPipe
  BY <1>12 DEF BrokenPipe, Fail
<1>13. CASE ReceiveFrame
  <2>1. channel # <<>> /\ channel \in {<<f>> : f \in 1..N}
    BY <1>13 DEF ReceiveFrame, MayReceive
  <2>2. PICK f \in 1..N : channel = <<f>>
    BY <2>1
  <2>3. channel' = <<>> /\ Head(channel) \in 1..N
    BY <1>13, <2>2 DEF ReceiveFrame
  <2>4. records' \in Seq([frame : 1..N, findings : 1..N \cup {None}])
    BY <1>13, RecordedType
  <2>5. submitted \in 1..N
    BY <1>13 DEF ReceiveFrame, Inputs
  <2> QED
    BY <1>13, <2>3, <2>4, <2>5 DEF ReceiveFrame, Record
<1>14. CASE FramesEnd
  BY <1>14 DEF FramesEnd, Fail, EndOfFrames
<1>15. CASE TimeOut
  BY <1>15 DEF TimeOut, Fail
<1>16. CASE Finish
  BY <1>16 DEF Finish
<1>17. CASE ReceiveLast
  <2>1. channel # <<>> /\ channel \in {<<f>> : f \in 1..N}
    BY <1>17 DEF ReceiveLast, MayReceive
  <2>2. PICK f \in 1..N : channel = <<f>>
    BY <2>1
  <2>3. channel' = <<>> /\ Head(channel) \in 1..N
    BY <1>17, <2>2 DEF ReceiveLast
  <2> QED
    BY <1>17, <2>3 DEF ReceiveLast
<1>18. CASE Exited
  BY <1>18 DEF Exited
<1>19. CASE Drain
  <2>1. /\ UNCHANGED <<submitted, fed, taken, made, got, last, pending, records, hung>>
        /\ closed' = TRUE /\ channel' = <<>> /\ reaped' \in BOOLEAN
    BY <1>19 DEF Drain, Release
  <2>2. call' \in {"closed", "publish", "done"} /\ file' \in {file, "none"}
    BY <1>19 DEF Drain, Release
  <2>3. child' \in {child, "killed"} /\ reader' \in {reader, "aborted"}
    BY <1>19 DEF Drain, Release, Kill
  <2> QED
    BY <2>1, <2>2, <2>3
<1>20. CASE CleanupTimesOut
  <2>1. /\ UNCHANGED <<submitted, fed, taken, made, got, last, pending, records, hung>>
        /\ closed' = TRUE /\ channel' = <<>> /\ reaped' \in BOOLEAN
    BY <1>20 DEF CleanupTimesOut, Release
  <2>2. call' \in {"closed", "publish", "done"} /\ file' \in {file, "none"}
    BY <1>20 DEF CleanupTimesOut, Release
  <2>3. child' \in {child, "killed"} /\ reader' \in {reader, "aborted"}
    BY <1>20 DEF CleanupTimesOut, Release, Kill
  <2> QED
    BY <2>1, <2>2, <2>3
<1>21. CASE KillChild
  BY <1>21 DEF KillChild, Kill, session
<1>22. CASE Stop
  <2>1. /\ UNCHANGED <<submitted, fed, closed, last, pending, records, taken, made, got, child, hung>>
        /\ UNCHANGED <<channel, file>>
    BY <1>22 DEF Stop
  <2>2. call' = "failed" /\ reader' \in {reader, "aborted"} /\ reaped' \in BOOLEAN
    BY <1>22 DEF Stop
  <2> QED
    BY <2>1, <2>2
<1>23. CASE Abort
  BY <1>23 DEF Abort
<1>24. CASE AbortEnds
  <2>1. /\ UNCHANGED <<submitted, fed, taken, made, got, last, pending, records, hung>>
        /\ closed' = TRUE /\ channel' = <<>> /\ reaped' \in BOOLEAN
    BY <1>24 DEF AbortEnds, Release
  <2>2. call' \in {"closed", "publish", "done"} /\ file' \in {file, "none"}
    BY <1>24 DEF AbortEnds, Release
  <2>3. child' \in {child, "killed"} /\ reader' \in {reader, "aborted"}
    BY <1>24 DEF AbortEnds, Release, Kill
  <2> QED
    BY <2>1, <2>2, <2>3
<1>25. CASE RecordLast
  BY <1>25 DEF RecordLast
<1>26. CASE Publish
  BY <1>26 DEF Publish
<1>27. CASE SinkFails
  <2>1. CASE call = "publish"
    BY <1>27, <2>1 DEF SinkFails
  <2>2. CASE call = "receive"
    <3>1. channel # <<>> /\ channel \in {<<f>> : f \in 1..N}
      BY <1>27, <2>2 DEF SinkFails
    <3>2. PICK f \in 1..N : channel = <<f>>
      BY <3>1
    <3>3. channel' = <<>>
      BY <1>27, <2>2, <3>2 DEF SinkFails
    <3> QED
      BY <1>27, <2>2, <3>3 DEF SinkFails
  <2> QED
    BY <1>27, <2>1, <2>2 DEF SinkFails
<1>28. CASE Cancel
  <2>1. /\ UNCHANGED <<submitted, fed, taken, made, got, last, pending, records, hung>>
        /\ closed' = TRUE /\ channel' = <<>> /\ reaped' \in BOOLEAN
    BY <1>28 DEF Cancel, Release
  <2>2. call' \in {"closed", "publish", "done"} /\ file' \in {file, "none"}
    BY <1>28 DEF Cancel, Release
  <2>3. child' \in {child, "killed"} /\ reader' \in {reader, "aborted"}
    BY <1>28 DEF Cancel, Release, Kill
  <2> QED
    BY <2>1, <2>2, <2>3
<1>29. CASE Ended /\ UNCHANGED vars
  BY <1>29 DEF vars
<1> QED
  BY <1>1, <1>2, <1>3, <1>4, <1>5, <1>6, <1>7, <1>8, <1>9, <1>10, <1>11, <1>12, <1>13, <1>14,
       <1>15, <1>16, <1>17, <1>18, <1>19, <1>20, <1>21, <1>22, <1>23, <1>24, <1>25, <1>26, <1>27,
       <1>28, <1>29 DEF Next, Ffmpeg, Reader, Session

(* A session starts with nothing under way. *)
LEMMA InitSInv == Init => SInv
<1> SUFFICES ASSUME Init PROVE SInv
  OBVIOUS
<1> USE DEF Init
<1>1. N * Chunks \in Nat /\ 0 * Chunks = 0 /\ (0 + 1) * Chunks = Chunks
  BY Multiples
<1>2. TypeOK
  <2>1. records \in Seq([frame : 1..N, findings : 1..N \cup {None}])
    BY EmptySeq
  <2>2. 0 \in 0 .. N * Chunks
    BY <1>1
  <2>3. fed \in 0 .. N * Chunks /\ made \in 0 .. N * Chunks
    BY <2>2
  <2>4. submitted \in 0..N /\ taken \in 0..fed /\ got \in 0..made
    OBVIOUS
  <2>5. call \in Waiting \cup {"ready", "failed", "drain", "stopping", "aborting", "publish",
                             "done", "closed"}
    OBVIOUS
  <2>6. reader \in {"none", "reading", "sending", "trailing", "ok", "err", "aborted"}
        /\ file \in {"none", "partial", "short", "whole"}
    OBVIOUS
  <2> QED
    BY <2>1, <2>3, <2>4, <2>5, <2>6 DEF TypeOK
<1>3. Inputs /\ Closing
  <2>1. submitted * Chunks <= fed /\ fed < (submitted + 1) * Chunks
    BY <1>1
  <2>2. submitted \in 0..N /\ taken \in 0..fed /\ fed \in Nat
    OBVIOUS
  <2>3. call = "ready" /\ fed = submitted * Chunks
    BY <1>1
  <2> QED
    BY <2>1, <2>2, <2>3 DEF Inputs, Closing
<1>4. Outputs
  BY <1>1, <1>3, ComposedBounds, Multiples DEF Outputs, Closing, Room
<1>5. Readers
  BY DEF Readers
<1>6. Received = 0 /\ Returned = 0
  BY DEF Received, Returned
<1>7. Stream /\ Staged
  BY <1>1, <1>6 DEF Stream, Staged
<1>8. Recorded
  BY EmptySeq DEF Recorded
<1> QED
  BY <1>2, <1>3, <1>4, <1>5, <1>7, <1>8 DEF SInv

(* The invariant survives every step. *)
LEMMA NextSInv == SInv /\ IInv /\ [Next]_vars => SInv'
<1> SUFFICES ASSUME SInv, IInv, [Next]_vars PROVE SInv'
  OBVIOUS
<1>1. CASE Next
  BY <1>1, TypeStep, InputsStep, OutputsStep, ReadersStep, StreamStep, StagedStep,
       RecordedStep DEF SInv
<1>2. CASE UNCHANGED vars
  BY <1>2 DEF vars, SInv, TypeOK, Inputs, Closing, Outputs, Room, Composed, Readers, Stream, Alive,
              Received, Returned, Staged, Recorded
<1> QED
  BY <1>1, <1>2

(* Every variable of the session, FFmpeg and the reader keeps its type. *)
THEOREM SessionTypeOK == Spec => []TypeOK
<1>1. SInv => TypeOK
  BY DEF SInv
<1> QED
  BY InitIInv, NextIInv, InitSInv, NextSInv, <1>1, PTL DEF Spec

(* In every state of the invariant one of the three can go on. *)
LEMMA SomeoneGoesOn ==
    ASSUME SInv, IInv
    PROVE  NobodyWaitsInACircle
<1>1. ASSUME call \in Waiting, Running, ~MayTake, ~MayMake, ~MaySucceed, ~MayRead, ~MaySend,
             ~MayFeed, ~MayReceive
      PROVE FALSE
  <2>0. closed \in BOOLEAN /\ Inputs
    BY DEF SInv, Closing
  <2>1. /\ Composed \in Nat /\ Room \in Nat
        /\ Composed <= submitted /\ (~closed => Composed = 0 \/ Composed < submitted)
        /\ closed /\ taken = fed /\ fed = submitted * Chunks => Composed = submitted
        /\ taken = fed /\ fed = submitted * Chunks /\ submitted > 0 => Composed >= submitted - 1
    BY <2>0, RoomBound, ComposedBounds
  <2>2. taken \in 0..fed /\ fed \in Nat /\ submitted \in 0..N
    BY DEF SInv, Inputs
  <2>3. CASE ~Frames
    <3>1. call \in {"write", "wait"}
      BY <1>1, <2>3 DEF IInv, Destined
    <3> QED
      BY <1>1, <2>2, <2>3, <3>1 DEF MayTake, MayFeed, MaySucceed, SInv, Closing, Running
  <2>4. CASE Frames
    <3>1. /\ got \in 0..made /\ made \in Nat /\ made <= Room
          /\ ~(taken < fed /\ made = Room)
          /\ made < Room => got < made
      BY <1>1, <2>1, <2>4 DEF SInv, Outputs, MayTake, MayMake, Room
    <3>2. reader \in {"reading", "sending", "trailing"}
      BY <1>1, <2>4 DEF SInv, Readers, Running
    <3>3. channel # <<>> => call \notin {"receive", "last"}
      BY <1>1 DEF MayReceive
    <3>4. Room <= N * Chunks
      BY RoomBound
    <3>5. ASSUME made < Room PROVE FALSE
      <4>1. got < made /\ reader \in {"sending", "trailing"}
        BY <1>1, <3>1, <3>2, <3>5 DEF MayRead
      <4>2. CASE reader = "trailing"
        BY <1>1, <2>1, <2>4, <3>1, <3>4, <3>5, <4>1, <4>2 DEF SInv, Stream
      <4>3. CASE reader = "sending"
        <5>1. channel # <<>> /\ call \in {"write", "wait"}
          BY <1>1, <3>3, <4>3 DEF MaySend
        <5>2. Returned = Received + 1 /\ Received \in Nat
          BY <5>1, ReceivedType DEF Returned
        <5>3. got = (Returned + 1) * Chunks /\ Returned < N
          BY <2>4, <4>3, <5>1 DEF SInv, Stream
        <5>4. got <= Composed * Chunks
          BY <2>1, <3>1, <3>5, <4>1 DEF Room
        <5>5. Received + 2 <= Composed
          BY <2>1, <5>2, <5>3, <5>4, Multiples
        <5>6. call = "wait" => Received = N
          BY DEF Received
        <5>7. call = "write" => ~closed /\ Received = IF submitted = 0 THEN 0 ELSE submitted - 1
          BY DEF SInv, Closing, Received
        <5> QED
          BY <2>1, <2>2, <5>1, <5>2, <5>3, <5>5, <5>6, <5>7
      <4> QED
        BY <4>1, <4>2, <4>3
    <3>6. made = Room /\ taken = fed
      BY <2>1, <2>2, <3>1, <3>5
    <3>7. CASE call = "write"
      BY <1>1, <2>2, <3>6, <3>7 DEF MayFeed, Running
    <3>8. CASE call \in {"last", "wait"}
      BY <1>1, <3>6, <3>8 DEF SInv, Closing, MaySucceed, Room
    <3>9. CASE call = "receive"
      <4>1. /\ channel = <<>> /\ submitted > 1 /\ fed = submitted * Chunks
            /\ Returned = submitted - 2
        BY <1>1, <2>2, <3>9 DEF MayReceive, SInv, Inputs, Returned, Received
      <4>2. Composed >= submitted - 1 /\ submitted - 1 \in Nat
        BY <2>1, <2>2, <3>6, <4>1
      <4>3. (submitted - 1) * Chunks <= Room
        BY <2>1, <4>2, Multiples DEF Room
      <4>4. reader = "reading"
        BY <1>1, <2>2, <2>4, <3>2, <3>9, <4>1 DEF MaySend, SInv, Stream
      <4>5. got = made
        BY <1>1, <3>1, <4>4 DEF MayRead
      <4>6. got < (submitted - 1) * Chunks
        BY <2>2, <2>4, <3>9, <4>1, <4>4 DEF SInv, Stream
      <4>7. (submitted - 1) * Chunks \in Nat
        BY <4>2, Multiples
      <4> QED
        BY <2>1, <3>1, <3>6, <4>3, <4>5, <4>6, <4>7
    <3> QED
      BY <1>1, <3>7, <3>8, <3>9
  <2> QED
    BY <2>3, <2>4
<1>2. ASSUME call \in {"drain", "aborting"}, reader = "sending", channel # <<>>
      PROVE  FALSE
  <2>1. Frames
    BY <1>2 DEF SInv, Readers
  <2>2. Returned = Received + 1 /\ Received \in Nat
    BY <1>2, ReceivedType DEF Returned
  <2>3. got = (Returned + 1) * Chunks /\ Returned < N
    BY <1>2, <2>1 DEF SInv, Stream, Alive
  <2>4. /\ Composed \in Nat /\ Composed <= submitted /\ submitted \in Nat
        /\ got <= Composed * Chunks
    <3>1. got <= Room /\ Composed \in Nat /\ Composed <= submitted /\ submitted \in Nat
      BY <2>1, ComposedBounds, RoomBound DEF SInv, Outputs, Inputs, Closing
    <3> QED
      BY <3>1 DEF Room
  <2>5. Received + 2 <= Composed
    BY <2>2, <2>3, <2>4, Multiples
  <2>6. Received = N \/ Received = IF submitted = 0 THEN 0 ELSE submitted - 1
    BY <1>2 DEF Received
  <2> QED
    BY <2>2, <2>3, <2>4, <2>5, <2>6
<1> QED
  BY <1>1, <1>2 DEF NobodyWaitsInACircle

(* Whatever the sizes of pipes and frames, the session, FFmpeg and the     *)
(* reader never wait for each other in a circle, and the cleanup never     *)
(* meets a reader that waits for room in the channel.                      *)
THEOREM NoCircleOfWaits == Spec => []NobodyWaitsInACircle
<1>1. SInv /\ IInv => NobodyWaitsInACircle
  BY SomeoneGoesOn
<1> QED
  BY InitIInv, NextIInv, InitSInv, NextSInv, <1>1, PTL DEF Spec

(* What is neither a record nor a publication changes no record. *)
LEMMA Quiet ==
    ASSUME Frames, IInv, Next
    PROVE  \/ ReceiveFrame \/ RecordLast \/ (Publish /\ call' = "done")
           \/ records' = records /\ call \notin {"done", "closed"} /\ call' = "closed"
           \/ records' = records /\ (call' = call \/ {call, call'} \cap {"done", "closed"} = {})
<1> USE DEF Ended, Destined, IInv
<1>1. CASE Take
  BY <1>1 DEF Take, MayTake, Running, session
<1>2. CASE Make
  BY <1>2 DEF Make, MayMake, Running, session
<1>3. CASE Succeed
  BY <1>3 DEF Succeed, MaySucceed, Running, session
<1>4. CASE EndEarly
  BY <1>4 DEF EndEarly, Running, session
<1>5. CASE Crash
  BY <1>5 DEF Crash, Running, session
<1>6. CASE Hang
  BY <1>6 DEF Hang, Running, session
<1>7. CASE ReadChunk
  BY <1>7 DEF ReadChunk, MayRead, session
<1>8. CASE SendFrame
  BY <1>8 DEF SendFrame, MaySend, session
<1>9. CASE ReadEnd
  BY <1>9 DEF ReadEnd, session
<1>10. CASE Submit
  BY <1>10 DEF Submit
<1>11. CASE Feed
  BY <1>11 DEF Feed, MayFeed, AwaitsFrame
<1>12. CASE BrokenPipe
  BY <1>12 DEF BrokenPipe, Fail
<1>13. CASE ReceiveFrame
  BY <1>13
<1>14. CASE FramesEnd
  BY <1>14 DEF FramesEnd, Fail, EndOfFrames
<1>15. CASE TimeOut
  BY <1>15 DEF TimeOut, Fail
<1>16. CASE Finish
  BY <1>16 DEF Finish
<1>17. CASE ReceiveLast
  BY <1>17 DEF ReceiveLast, MayReceive
<1>18. CASE Exited
  BY <1>18 DEF Exited
<1>19. CASE Drain
  BY <1>19 DEF Drain, Release, Kill
<1>20. CASE CleanupTimesOut
  BY <1>20 DEF CleanupTimesOut, Release, Kill
<1>21. CASE KillChild
  BY <1>21 DEF KillChild, Kill, session
<1>22. CASE Stop
  BY <1>22 DEF Stop
<1>23. CASE Abort
  BY <1>23 DEF Abort
<1>24. CASE AbortEnds
  BY <1>24 DEF AbortEnds, Release, Kill
<1>25. CASE RecordLast
  BY <1>25
<1>26. CASE Publish
  BY <1>26 DEF Publish
<1>27. CASE SinkFails
  BY <1>27 DEF SinkFails
<1>28. CASE Cancel
  BY <1>28 DEF Cancel, Release, Kill
<1>29. CASE Ended /\ UNCHANGED vars
  BY <1>29 DEF vars
<1> QED
  BY <1>1, <1>2, <1>3, <1>4, <1>5, <1>6, <1>7, <1>8, <1>9, <1>10, <1>11, <1>12, <1>13, <1>14,
       <1>15, <1>16, <1>17, <1>18, <1>19, <1>20, <1>21, <1>22, <1>23, <1>24, <1>25, <1>26, <1>27,
       <1>28, <1>29 DEF Next, Ffmpeg, Reader, Session

(* As many records as frames are the film. *)
LEMMA FilmIsFull ==
    ASSUME Recorded, Len(records) = N
    PROVE  records = Film
BY DEF Recorded, Film

(* A record that keeps the prefix is the next frame of the film. *)
LEMMA Appended ==
    ASSUME Recorded, Recorded', NEW r, records' = Append(records, r)
    PROVE  /\ Len(records) < Len(Film)
           /\ records' = Append(records, Film[Len(records) + 1])
<1>1. Len(records) \in Nat /\ Len(records') = Len(records) + 1 /\ Len(records') <= N
  BY DEF Recorded
<1>2. records'[Len(records) + 1] = r
  BY DEF Recorded
<1>3. r = [frame |-> Len(records) + 1, findings |-> Len(records) + 1]
  <2>1. Len(records) + 1 \in 1..Len(records')
    BY <1>1
  <2> QED
    BY <1>1, <1>2, <2>1 DEF Recorded
<1>4. Len(Film) = N /\ Film[Len(records) + 1] = r
  BY <1>1, <1>3 DEF Film
<1> QED
  BY <1>1, <1>4

(* Every step is a step of the abstract delivery, or none. *)
LEMMA Delivers ==
    ASSUME Frames, SInv, IInv, Next
    PROVE  [Promise!Next]_(Promise!streamVars)
<1>0. Recorded /\ Recorded'
  BY RecordedStep DEF SInv
<1> USE DEF Promise!Next, Promise!streamVars, Status
<1>1. ASSUME NEW r, records' = Append(records, r), call' \in {"ready", "publish"},
             call \in {"receive", "publish"}
      PROVE  Promise!Deliver
  BY <1>0, <1>1, Appended DEF Promise!Deliver, Film
<1>2. CASE ReceiveFrame
  BY <1>1, <1>2 DEF ReceiveFrame, Record
<1>3. CASE RecordLast
  BY <1>1, <1>3 DEF RecordLast
<1>4. CASE Publish /\ call' = "done"
  BY <1>0, <1>4, FilmIsFull DEF Publish, Promise!Complete, Film
<1>5. ASSUME records' = records, call \notin {"done", "closed"}, call' = "closed"
      PROVE  Promise!Break
  BY <1>5 DEF Promise!Break, Film
<1>6. ASSUME records' = records, call' = call \/ {call, call'} \cap {"done", "closed"} = {}
      PROVE  UNCHANGED Promise!streamVars
  BY <1>6 DEF Film
<1>7. CASE ~(ReceiveFrame \/ RecordLast \/ (Publish /\ call' = "done"))
  BY <1>5, <1>6, <1>7, Quiet
<1> QED
  BY <1>2, <1>3, <1>4, <1>7

(* A session that returns frames implements the delivery of the film, each *)
(* frame next to its own findings and all of them or a failure: the safety *)
(* half of DeliversTheComposition.                                         *)
THEOREM DeliversInOrder ==
    ASSUME Frames
    PROVE  Spec => Promise!Delivery
<1>1. Init => Promise!Init
  BY DEF Init, Promise!Init, Status
<1>2. SInv /\ IInv /\ [Next]_vars => [Promise!Next]_(Promise!streamVars)
  <2>1. UNCHANGED vars => UNCHANGED Promise!streamVars
    BY DEF vars, Promise!streamVars, Film, Status
  <2> QED
    BY <2>1, Delivers
<1> QED
  BY InitIInv, NextIInv, InitSInv, NextSInv, <1>1, <1>2, PTL DEF Spec, Promise!Delivery
=============================================================================
