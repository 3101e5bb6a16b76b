-------------------------- MODULE Subprocess_proofs --------------------------
(***************************************************************************)
(* What the five owners of a child process guarantee, for every number of  *)
(* frames, every length of the output and every size of the pipes.         *)
(***************************************************************************)
EXTENDS Subprocess, TLAPS

(* Where each owner may be, and what it may be doing. *)
Places ==
    /\ kind = "encoder" => pc \in {"idle", "write", "stop", "wait", "join", "joined", "done"}
    /\ kind \in {"mixer", "bundler"} => pc \in {"wait", "stop", "join", "joined", "done"}
    /\ kind = "probe" => pc \in {"spawnOut", "spawnErr", "wait", "reap", "joinOut", "joinErr", "done"}
    /\ kind = "browser" =>
         pc \in {"endpoint", "connect", "page", "graphics", "session", "wait", "kill", "stop", "join",
                 "joined", "handler", "done"}
    /\ kind = "encoder" /\ pc \in {"stop", "join", "joined"} =>
         call \in {"broken", "expired", "finish", "abort"}
    /\ kind = "encoder" /\ pc = "wait" => call = "finish"
    /\ kind = "encoder" /\ pc = "write" => input /\ given < Frames
    /\ kind = "probe" => call \in {"run", "stdout", "stderr"}
    /\ pc # "done" => result = "none"

(* What has ended is not disturbed any more: a child that succeeded has    *)
(* read all it was given and completed its output, and a pipe that was     *)
(* read to its end had no writer left.                                     *)
Ends ==
    /\ child = "ok" /\ kind = "encoder" => ~input /\ read = given
    /\ child = "ok" /\ kind \in {"encoder", "mixer"} /\ pc # "done" => file = "complete"
    /\ \A s \in Streams : reader[s] = "ended" => taken[s] = wrote[s] /\ Exited
    /\ kind # "browser" => handler = "none"

(* What an owner that has no error to report has observed.                 *)
Observed ==
    /\ pc \in {"join", "joined", "handler", "joinOut", "joinErr"} /\ ~failed => reaped
    /\ reaped => Exited
    /\ pc \in {"joined", "handler"} /\ ~failed => reader["stderr"] = "ended"
    /\ pc = "handler" /\ ~failed => child = "ok"
    /\ kind = "encoder" /\ call = "finish" /\ pc \in {"wait", "join", "joined"} /\ ~failed => given > 0

(* The handle of the stderr reader is gone only when the reader has been   *)
(* joined, is being joined, or was aborted.                                *)
Handles ==
    /\ pc \in {"joined", "handler"} => reader["stderr"] # "reading"
    /\ kind = "encoder" /\ ~owned /\ pc \notin {"join", "done"} => reader["stderr"] # "reading"
    /\ kind = "encoder" /\ pc \in {"join", "joined"} => ~owned

(* A frame that was torn closes the input, and the encoder cannot succeed  *)
(* any more: the write that tore it took the reader's handle away.         *)
Torn ==
    kind = "encoder" /\ torn =>
      /\ ~input /\ pc # "join"
      /\ owned => pc = "done" \/ (pc = "stop" /\ call = "expired")
      /\ pc = "joined" => failed

(* The two threads of the probe are started in turn; where one was not,    *)
(* the call says so.                                                       *)
Threads ==
    kind = "probe" =>
      /\ \A s \in {"stdout", "stderr"} : reader[s] # "aborted"
      /\ pc \in {"spawnOut", "spawnErr"} => reader["stderr"] = "none"
      /\ pc \in {"spawnOut", "spawnErr", "wait"} => call = "run"
      /\ call = "stdout" => reader["stdout"] = "failed" /\ reader["stderr"] = "none"
      /\ call = "stderr" => reader["stderr"] = "failed"
      /\ pc = "reap" /\ call # "stdout" => reader["stdout"] # "none"
      /\ pc \in {"spawnErr", "wait", "joinOut", "joinErr"} => reader["stdout"] # "none"
      /\ pc = "joinErr" => reader["stdout"] # "reading"
      /\ pc = "joinErr" /\ ~failed => reader["stdout"] = "ended"

(* The inductive invariant.  What is promised of the end alone would not   *)
(* be: an owner can promise it because it knows, at each await on the way, *)
(* what has happened to the child, its pipes and its input.                *)
IInv ==
    /\ TypeOK /\ Places
    /\ Ends /\ Observed /\ Handles /\ Torn /\ Threads
    /\ NothingIsLeft /\ SuccessIsObserved

-----------------------------------------------------------------------------
USE SubprocessAssumption DEF pipes, stdin, owner, Streams, Exited, Reading, Drained, Truncated

(* A child has just been started, and nothing is known of it.              *)
LEMMA Initially == Init => IInv
<1> SUFFICES ASSUME Init PROVE IInv
  OBVIOUS
<1>1. TypeOK
  <2>1. wrote \in [Streams -> 0..Output] /\ taken \in [Streams -> 0..Output]
    BY DEF Init
  <2>2. reader \in [Streams -> {"none", "reading", "ended", "failed", "aborted"}]
    BY DEF Init
  <2>3. {killable, heirs, owned, reaped, input, torn, failed} \subseteq BOOLEAN
    BY DEF Init
  <2>4. given \in 0..Frames /\ read \in 0..Frames
    BY DEF Init
  <2>5. file \in {"none", "partial", "complete"}
    BY DEF Init
  <2> QED
    BY <2>1, <2>2, <2>3, <2>4, <2>5 DEF Init, TypeOK
<1>2. Places /\ Ends /\ Observed
  BY DEF Init, Places, Ends, Observed
<1>3. Handles /\ Torn /\ Threads
  BY DEF Init, Handles, Torn, Threads
<1>4. NothingIsLeft /\ SuccessIsObserved
  BY DEF Init, NothingIsLeft, SuccessIsObserved
<1> QED
  BY <1>1, <1>2, <1>3, <1>4 DEF IInv

(* Steps of the child and of its descendants.                              *)
LEMMA ChildKeeps ==
    ASSUME IInv, Child
    PROVE  IInv'
<1> USE DEF IInv, TypeOK, Places, Ends, Observed, Handles, Torn, Threads, NothingIsLeft,
            SuccessIsObserved
<1>1. ASSUME NEW s \in {"stdout", "stderr"}, ChildWrites(s) PROVE IInv'
  BY <1>1 DEF ChildWrites
<1>2. CASE ChildReads
  BY <1>2 DEF ChildReads
<1>3. CASE ChildCreatesItsOutput
  BY <1>3 DEF ChildCreatesItsOutput
<1>4. CASE ChildForks
  BY <1>4 DEF ChildForks
<1>5. CASE HeirsEnd
  <2>1. TypeOK'
    BY <1>5, ZenonT(30) DEF HeirsEnd
  <2>2. Places'
    BY <1>5 DEF HeirsEnd
  <2>3. Ends' /\ Observed' /\ Handles' /\ Torn' /\ Threads'
    BY <1>5 DEF HeirsEnd
  <2>4. NothingIsLeft' /\ SuccessIsObserved'
    BY <1>5 DEF HeirsEnd
  <2> QED
    BY <2>1, <2>2, <2>3, <2>4 DEF IInv
<1>6. CASE ChildSucceeds
  BY <1>6 DEF ChildSucceeds
<1>7. CASE ChildFails
  BY <1>7 DEF ChildFails
<1>8. CASE ChildDies
  BY <1>8 DEF ChildDies
<1> QED
  BY <1>1, <1>2, <1>3, <1>4, <1>5, <1>6, <1>7, <1>8 DEF Child

(* Steps of the readers and of the connection.                             *)
LEMMA ReadersKeep ==
    ASSUME IInv, Readers
    PROVE  IInv'
<1> USE DEF IInv, TypeOK, Places, Ends, Observed, Handles, Torn, Threads, NothingIsLeft,
            SuccessIsObserved
<1>1. CASE HandlerEnds
  BY <1>1 DEF HandlerEnds
<1>2. CASE HandlerFails
  BY <1>2 DEF HandlerFails
<1>3. ASSUME NEW s \in {"stdout", "stderr"}, ReaderReads(s) PROVE IInv'
  BY <1>3 DEF ReaderReads, MayTake, Reported
<1>4. ASSUME NEW s \in {"stdout", "stderr"}, ReaderEnds(s) PROVE IInv'
  BY <1>4 DEF ReaderEnds
<1>5. ASSUME NEW s \in {"stdout", "stderr"}, ReaderFails(s) PROVE IInv'
  BY <1>5 DEF ReaderFails
<1> QED
  BY <1>1, <1>2, <1>3, <1>4, <1>5 DEF Readers

(* Steps of the encoder.                                                   *)
LEMMA EncoderKeeps ==
    ASSUME IInv, 
           \/ BeginWrite \/ WriteDone \/ WriteFails \/ Finish \/ AbortEncoder
           \/ EncoderStopped \/ EncoderReturns
    PROVE  IInv'
<1> USE DEF IInv, TypeOK, Places, Ends, Observed, Handles, Torn, Threads, NothingIsLeft,
            SuccessIsObserved
<1>1. CASE BeginWrite
  BY <1>1 DEF BeginWrite, Goto
<1>2. CASE WriteDone
  <2>1. TypeOK'
    <3>1. kind = "encoder"
      BY <1>2 DEF WriteDone
    <3>2. given < Frames /\ given \in Nat
      BY <1>2, <3>1 DEF WriteDone
    <3>3. given' \in 0..Frames
      BY <1>2, <3>2 DEF WriteDone
    <3>4. {killable, heirs, owned, reaped, input, torn, failed}' \subseteq BOOLEAN
      BY <1>2 DEF WriteDone, Goto
    <3> QED
      BY <1>2, <3>3, <3>4 DEF WriteDone, Goto
  <2>2. Places'
    BY <1>2 DEF WriteDone, Goto
  <2>3. Ends'
    BY <1>2 DEF WriteDone, Goto
  <2>4. Observed'
    BY <1>2 DEF WriteDone, Goto
  <2>5. Handles'
    BY <1>2 DEF WriteDone, Goto
  <2>6. Torn'
    BY <1>2 DEF WriteDone, Goto
  <2>7. Threads'
    BY <1>2 DEF WriteDone, Goto
  <2>8. NothingIsLeft'
    BY <1>2 DEF WriteDone, Goto
  <2>9. SuccessIsObserved'
    BY <1>2 DEF WriteDone, Goto
  <2> QED
    BY <2>1, <2>2, <2>3, <2>4, <2>5, <2>6, <2>7, <2>8, <2>9 DEF IInv
<1>3. CASE WriteFails
  <2>1. TypeOK'
    BY <1>3 DEF WriteFails, StopChild, Killed, Goto
  <2>2. Places'
    BY <1>3 DEF WriteFails, StopChild, Killed, Goto
  <2>3. Ends' /\ Observed'
    BY <1>3 DEF WriteFails, StopChild, Killed, Goto
  <2>4. Handles'
    BY <1>3 DEF WriteFails, StopChild, Killed, Goto
  <2>5. Torn'
    BY <1>3 DEF WriteFails, StopChild, Killed, Goto
  <2>6. Threads'
    BY <1>3 DEF WriteFails, StopChild, Killed, Goto
  <2>7. NothingIsLeft' /\ SuccessIsObserved'
    BY <1>3 DEF WriteFails, StopChild, Killed, Goto
  <2> QED
    BY <2>1, <2>2, <2>3, <2>4, <2>5, <2>6, <2>7 DEF IInv
<1>4. CASE Finish
  <2>1. TypeOK'
    BY <1>4 DEF Finish, StopChild, Killed, Goto
  <2>2. Places'
    BY <1>4 DEF Finish, StopChild, Killed, Goto
  <2>3. Ends' /\ Observed'
    BY <1>4 DEF Finish, StopChild, Killed, Goto
  <2>4. Handles' /\ Torn' /\ Threads'
    BY <1>4 DEF Finish, StopChild, Killed, Goto
  <2>5. NothingIsLeft' /\ SuccessIsObserved'
    BY <1>4 DEF Finish, StopChild, Killed, Goto
  <2> QED
    BY <2>1, <2>2, <2>3, <2>4, <2>5 DEF IInv
<1>5. CASE AbortEncoder
  BY <1>5, ZenonT(30) DEF AbortEncoder, StopChild, Killed, Goto
<1>6. CASE EncoderStopped
  <2>1. TypeOK'
    BY <1>6, ZenonT(30) DEF EncoderStopped, JoinStderr, Aborted, Goto
  <2>2. Places'
    BY <1>6 DEF EncoderStopped, JoinStderr, Aborted, Goto
  <2>3. Ends' /\ Observed'
    BY <1>6 DEF EncoderStopped, JoinStderr, Aborted, Goto
  <2>4. Handles' /\ Torn' /\ Threads'
    BY <1>6 DEF EncoderStopped, JoinStderr, Aborted, Goto
  <2>5. NothingIsLeft' /\ SuccessIsObserved'
    BY <1>6 DEF EncoderStopped, JoinStderr, Aborted, Goto
  <2> QED
    BY <2>1, <2>2, <2>3, <2>4, <2>5 DEF IInv
<1>7. CASE EncoderReturns
  <2>1. TypeOK'
    BY <1>7, ZenonT(30) DEF EncoderReturns, Leave, Killed, Goto
  <2>2. Places'
    BY <1>7 DEF EncoderReturns, Leave, Killed, Goto
  <2>3. Ends' /\ Observed'
    BY <1>7 DEF EncoderReturns, Leave, Killed, Goto
  <2>4. Handles' /\ Torn' /\ Threads'
    BY <1>7 DEF EncoderReturns, Leave, Killed, Goto
  <2>5. NothingIsLeft' /\ SuccessIsObserved'
    BY <1>7 DEF EncoderReturns, Leave, Killed, Goto
  <2> QED
    BY <2>1, <2>2, <2>3, <2>4, <2>5 DEF IInv
<1> QED
  BY <1>1, <1>2, <1>3, <1>4, <1>5, <1>6, <1>7

(* Steps of the probe, and the returns of mixer and bundler.               *)
LEMMA ProbeKeeps ==
    ASSUME IInv, 
           \/ MixerReturns \/ BundlerReturns
           \/ \E s \in {"stdout", "stderr"} : SpawnReader(s)
           \/ Reap \/ JoinStdout \/ ProbeReturns
    PROVE  IInv'
<1> USE DEF IInv, TypeOK, Places, Ends, Observed, Handles, Torn, Threads, NothingIsLeft,
            SuccessIsObserved
<1>1. CASE MixerReturns
  <2>1. TypeOK'
    BY <1>1 DEF MixerReturns, Leave, Killed
  <2>2. Places'
    BY <1>1 DEF MixerReturns, Leave, Killed
  <2>3. Ends' /\ Observed'
    BY <1>1 DEF MixerReturns, Leave, Killed
  <2>4. Handles' /\ Torn' /\ Threads'
    BY <1>1 DEF MixerReturns, Leave, Killed
  <2>5. NothingIsLeft' /\ SuccessIsObserved'
    BY <1>1 DEF MixerReturns, Leave, Killed
  <2> QED
    BY <2>1, <2>2, <2>3, <2>4, <2>5 DEF IInv
<1>2. CASE BundlerReturns
  <2>1. TypeOK'
    BY <1>2 DEF BundlerReturns, Leave, Killed
  <2>2. Places'
    BY <1>2 DEF BundlerReturns, Leave, Killed
  <2>3. Ends' /\ Observed'
    BY <1>2 DEF BundlerReturns, Leave, Killed
  <2>4. Handles' /\ Torn' /\ Threads'
    BY <1>2 DEF BundlerReturns, Leave, Killed
  <2>5. NothingIsLeft' /\ SuccessIsObserved'
    BY <1>2 DEF BundlerReturns, Leave, Killed
  <2> QED
    BY <2>1, <2>2, <2>3, <2>4, <2>5 DEF IInv
<1>3. ASSUME NEW s \in {"stdout", "stderr"}, SpawnReader(s) PROVE IInv'
  <2>1. TypeOK'
    BY <1>3, ZenonT(30) DEF SpawnReader, Leave, Killed, Goto
  <2>2. Places'
    BY <1>3 DEF SpawnReader, Leave, Killed, Goto
  <2>3. Ends' /\ Observed'
    BY <1>3 DEF SpawnReader, Leave, Killed, Goto
  <2>4. Handles' /\ Torn' /\ Threads'
    BY <1>3 DEF SpawnReader, Leave, Killed, Goto
  <2>5. NothingIsLeft' /\ SuccessIsObserved'
    BY <1>3 DEF SpawnReader, Leave, Killed, Goto
  <2> QED
    BY <2>1, <2>2, <2>3, <2>4, <2>5 DEF IInv
<1>4. CASE Reap
  <2>1. TypeOK'
    BY <1>4 DEF Reap, Leave, Killed, Goto
  <2>2. Places'
    BY <1>4 DEF Reap, Leave, Killed, Goto
  <2>3. Ends' /\ Observed'
    BY <1>4 DEF Reap, Leave, Killed, Goto
  <2>4. Handles' /\ Torn' /\ Threads'
    BY <1>4 DEF Reap, Leave, Killed, Goto
  <2>5. NothingIsLeft' /\ SuccessIsObserved'
    BY <1>4 DEF Reap, Leave, Killed, Goto
  <2> QED
    BY <2>1, <2>2, <2>3, <2>4, <2>5 DEF IInv
<1>5. CASE JoinStdout
  <2>1. TypeOK'
    BY <1>5 DEF JoinStdout, Leave, Killed, Goto
  <2>2. Places'
    BY <1>5 DEF JoinStdout, Leave, Killed, Goto
  <2>3. Ends' /\ Observed'
    BY <1>5 DEF JoinStdout, Leave, Killed, Goto
  <2>4. Handles' /\ Torn' /\ Threads'
    BY <1>5 DEF JoinStdout, Leave, Killed, Goto
  <2>5. NothingIsLeft' /\ SuccessIsObserved'
    BY <1>5 DEF JoinStdout, Leave, Killed, Goto
  <2> QED
    BY <2>1, <2>2, <2>3, <2>4, <2>5 DEF IInv
<1>6. CASE ProbeReturns
  <2>1. TypeOK'
    BY <1>6 DEF ProbeReturns, Leave, Killed
  <2>2. Places'
    BY <1>6 DEF ProbeReturns, Leave, Killed
  <2>3. Ends' /\ Observed'
    BY <1>6 DEF ProbeReturns, Leave, Killed
  <2>4. Handles' /\ Torn' /\ Threads'
    BY <1>6 DEF ProbeReturns, Leave, Killed
  <2>5. NothingIsLeft' /\ SuccessIsObserved'
    BY <1>6 DEF ProbeReturns, Leave, Killed
  <2> QED
    BY <2>1, <2>2, <2>3, <2>4, <2>5 DEF IInv
<1> QED
  BY <1>1, <1>2, <1>3, <1>4, <1>5, <1>6

(* Steps of the browser session.                                           *)
LEMMA BrowserKeeps ==
    ASSUME IInv, 
           \/ AwaitEndpoint \/ Establish \/ Shutdown \/ KillDone \/ BrowserJoined \/ JoinHandler
    PROVE  IInv'
<1> USE DEF IInv, TypeOK, Places, Ends, Observed, Handles, Torn, Threads, NothingIsLeft,
            SuccessIsObserved
<1>1. CASE AwaitEndpoint
  <2>1. TypeOK'
    BY <1>1 DEF AwaitEndpoint, ForceStop, Killed, Goto
  <2>2. Places'
    BY <1>1 DEF AwaitEndpoint, ForceStop, Killed, Goto
  <2>3. Ends' /\ Observed'
    BY <1>1 DEF AwaitEndpoint, ForceStop, Killed, Goto
  <2>4. Handles' /\ Torn' /\ Threads'
    BY <1>1 DEF AwaitEndpoint, ForceStop, Killed, Goto
  <2>5. NothingIsLeft' /\ SuccessIsObserved'
    BY <1>1 DEF AwaitEndpoint, ForceStop, Killed, Goto
  <2> QED
    BY <2>1, <2>2, <2>3, <2>4, <2>5 DEF IInv
<1>2. CASE Establish
  <2>1. TypeOK'
    <3>1. {killable, heirs, owned, reaped, input, torn, failed}' \subseteq BOOLEAN
      BY <1>2 DEF Establish, ForceStop, Killed, Goto
    <3>2. child' \in {"running", "killed", "ok", "failed"}
      BY <1>2 DEF Establish, ForceStop, Killed, Goto
    <3> QED
      BY <1>2, <3>1, <3>2 DEF Establish, ForceStop, Killed, Goto
  <2>2. Places'
    BY <1>2 DEF Establish, ForceStop, Killed, Goto
  <2>3. Ends' /\ Observed'
    BY <1>2 DEF Establish, ForceStop, Killed, Goto
  <2>4. Handles' /\ Torn' /\ Threads'
    BY <1>2 DEF Establish, ForceStop, Killed, Goto
  <2>5. NothingIsLeft' /\ SuccessIsObserved'
    BY <1>2 DEF Establish, ForceStop, Killed, Goto
  <2> QED
    BY <2>1, <2>2, <2>3, <2>4, <2>5 DEF IInv
<1>3. CASE Shutdown
  <2>1. TypeOK'
    BY <1>3, ZenonT(30) DEF Shutdown, Killed, Goto
  <2>2. Places'
    BY <1>3 DEF Shutdown, Killed, Goto
  <2>3. Ends' /\ Observed'
    BY <1>3 DEF Shutdown, Killed, Goto
  <2>4. Handles' /\ Torn' /\ Threads'
    BY <1>3 DEF Shutdown, Killed, Goto
  <2>5. NothingIsLeft' /\ SuccessIsObserved'
    BY <1>3 DEF Shutdown, Killed, Goto
  <2> QED
    BY <2>1, <2>2, <2>3, <2>4, <2>5 DEF IInv
<1>4. CASE KillDone
  <2>1. TypeOK'
    BY <1>4 DEF KillDone, Goto
  <2>2. Places'
    BY <1>4 DEF KillDone, Goto
  <2>3. Ends' /\ Observed'
    BY <1>4 DEF KillDone, Goto
  <2>4. Handles' /\ Torn' /\ Threads'
    BY <1>4 DEF KillDone, Goto
  <2>5. NothingIsLeft' /\ SuccessIsObserved'
    BY <1>4 DEF KillDone, Goto
  <2> QED
    BY <2>1, <2>2, <2>3, <2>4, <2>5 DEF IInv
<1>5. CASE BrowserJoined
  <2>1. TypeOK'
    BY <1>5, ZenonT(30) DEF BrowserJoined, Leave, Killed, Goto
  <2>2. Places'
    BY <1>5 DEF BrowserJoined, Leave, Killed, Goto
  <2>3. Ends' /\ Observed'
    BY <1>5 DEF BrowserJoined, Leave, Killed, Goto
  <2>4. Handles' /\ Torn' /\ Threads'
    BY <1>5 DEF BrowserJoined, Leave, Killed, Goto
  <2>5. NothingIsLeft' /\ SuccessIsObserved'
    BY <1>5 DEF BrowserJoined, Leave, Killed, Goto
  <2> QED
    BY <2>1, <2>2, <2>3, <2>4, <2>5 DEF IInv
<1>6. CASE JoinHandler
  <2>1. TypeOK'
    BY <1>6 DEF JoinHandler, Leave, Killed
  <2>2. Places'
    BY <1>6 DEF JoinHandler, Leave, Killed
  <2>3. Ends' /\ Observed'
    BY <1>6 DEF JoinHandler, Leave, Killed
  <2>4. Handles' /\ Torn' /\ Threads'
    BY <1>6 DEF JoinHandler, Leave, Killed
  <2>5. NothingIsLeft' /\ SuccessIsObserved'
    BY <1>6 DEF JoinHandler, Leave, Killed
  <2> QED
    BY <2>1, <2>2, <2>3, <2>4, <2>5 DEF IInv
<1> QED
  BY <1>1, <1>2, <1>3, <1>4, <1>5, <1>6

(* Waits that several owners have, and the drop of an owner.               *)
LEMMA WaitsKeep ==
    ASSUME IInv, WaitObserved \/ WaitExpires \/ Stopped \/ Join \/ Abandon
    PROVE  IInv'
<1> USE DEF IInv, TypeOK, Places, Ends, Observed, Handles, Torn, Threads, NothingIsLeft,
            SuccessIsObserved
<1>1. CASE WaitObserved
  <2>1. TypeOK'
    BY <1>1, ZenonT(30) DEF WaitObserved, JoinStderr, Goto
  <2>2. Places'
    BY <1>1 DEF WaitObserved, JoinStderr, Goto
  <2>3. Ends' /\ Observed'
    BY <1>1 DEF WaitObserved, JoinStderr, Goto
  <2>4. Handles' /\ Torn' /\ Threads'
    BY <1>1 DEF WaitObserved, JoinStderr, Goto
  <2>5. NothingIsLeft' /\ SuccessIsObserved'
    BY <1>1 DEF WaitObserved, JoinStderr, Goto
  <2> QED
    BY <2>1, <2>2, <2>3, <2>4, <2>5 DEF IInv
<1>2. CASE WaitExpires
  <2>1. TypeOK'
    <3>1. {killable, heirs, owned, reaped, input, torn, failed}' \subseteq BOOLEAN
      BY <1>2 DEF WaitExpires, ForceStop, StopChild, JoinStderr, Killed, Goto
    <3>2. child' \in {"running", "killed", "ok", "failed"}
      BY <1>2 DEF WaitExpires, ForceStop, StopChild, JoinStderr, Killed, Goto
    <3> QED
      BY <1>2, <3>1, <3>2 DEF WaitExpires, ForceStop, StopChild, JoinStderr, Killed, Goto
  <2>2. Places'
    BY <1>2 DEF WaitExpires, ForceStop, StopChild, JoinStderr, Killed, Goto
  <2>3. Ends' /\ Observed'
    BY <1>2 DEF WaitExpires, ForceStop, StopChild, JoinStderr, Killed, Goto
  <2>4. Handles' /\ Torn' /\ Threads'
    BY <1>2 DEF WaitExpires, ForceStop, StopChild, JoinStderr, Killed, Goto
  <2>5. NothingIsLeft' /\ SuccessIsObserved'
    BY <1>2 DEF WaitExpires, ForceStop, StopChild, JoinStderr, Killed, Goto
  <2> QED
    BY <2>1, <2>2, <2>3, <2>4, <2>5 DEF IInv
<1>3. CASE Stopped
  <2>1. TypeOK'
    BY <1>3 DEF Stopped, JoinStderr, Goto
  <2>2. Places'
    BY <1>3 DEF Stopped, JoinStderr, Goto
  <2>3. Ends' /\ Observed'
    BY <1>3 DEF Stopped, JoinStderr, Goto
  <2>4. Handles' /\ Torn' /\ Threads'
    BY <1>3 DEF Stopped, JoinStderr, Goto
  <2>5. NothingIsLeft' /\ SuccessIsObserved'
    BY <1>3 DEF Stopped, JoinStderr, Goto
  <2> QED
    BY <2>1, <2>2, <2>3, <2>4, <2>5 DEF IInv
<1>4. CASE Join
  <2>1. TypeOK'
    BY <1>4 DEF Join, Aborted, Goto
  <2>2. Places'
    BY <1>4 DEF Join, Aborted, Goto
  <2>3. Ends' /\ Observed'
    BY <1>4 DEF Join, Aborted, Goto
  <2>4. Handles' /\ Torn' /\ Threads'
    BY <1>4 DEF Join, Aborted, Goto
  <2>5. NothingIsLeft' /\ SuccessIsObserved'
    BY <1>4 DEF Join, Aborted, Goto
  <2> QED
    BY <2>1, <2>2, <2>3, <2>4, <2>5 DEF IInv
<1>5. CASE Abandon
  <2>1. TypeOK'
    BY <1>5 DEF Abandon, Leave, Killed, Aborted
  <2>2. Places'
    BY <1>5 DEF Abandon, Leave, Killed, Aborted
  <2>3. Ends' /\ Observed'
    BY <1>5 DEF Abandon, Leave, Killed, Aborted
  <2>4. Handles' /\ Torn' /\ Threads'
    BY <1>5 DEF Abandon, Leave, Killed, Aborted
  <2>5. NothingIsLeft' /\ SuccessIsObserved'
    BY <1>5 DEF Abandon, Leave, Killed, Aborted
  <2> QED
    BY <2>1, <2>2, <2>3, <2>4, <2>5 DEF IInv
<1> QED
  BY <1>1, <1>2, <1>3, <1>4, <1>5

(* Every behavior keeps the invariant.                                     *)
LEMMA Invariant == Spec => []IInv
<1>1. ASSUME IInv, [Next]_vars
      PROVE  IInv'
  <2>1. CASE UNCHANGED vars
    BY <1>1, <2>1 DEF vars, IInv, TypeOK, Places, Ends, Observed, Handles, Torn, Threads,
                      NothingIsLeft, SuccessIsObserved
  <2>2. CASE Next
    BY <1>1, <2>1, <2>2, ChildKeeps, ReadersKeep, EncoderKeeps, ProbeKeeps, BrowserKeeps, WaitsKeep
       DEF Next, Proceed, Calls, Done
  <2> QED
    BY <1>1, <2>1, <2>2
<1> QED
  BY <1>1, Initially, PTL DEF Spec

(* Every variable keeps its type, for all owners and bounds.               *)
THEOREM TypeCorrect == Spec => []TypeOK
<1>1. IInv => TypeOK
  BY DEF IInv
<1> QED
  BY <1>1, Invariant, PTL

(* However a call ends, no child, no reader or connection, and no rejected *)
(* output is left (Drop, kill_on_drop, stop, force_stop, cleanup_failure). *)
THEOREM NothingIsLeftHolds == Spec => []NothingIsLeft
<1>1. IInv => NothingIsLeft
  BY DEF IInv
<1> QED
  BY <1>1, Invariant, PTL

(* finish, mix_audio, bundle, capture and shutdown report success only of  *)
(* a child whose success they observed and whose pipes they read out.      *)
THEOREM SuccessIsObservedHolds == Spec => []SuccessIsObserved
<1>1. IInv => SuccessIsObserved
  BY DEF IInv
<1> QED
  BY <1>1, Invariant, PTL

-----------------------------------------------------------------------------
(* A pipe without a reader belongs to a child that does not run any more,  *)
(* or to a probe that still starts its threads.                            *)
Started ==
    \A s \in Streams : reader[s] = "none" =>
      /\ kind = "probe"
      /\ \/ pc \in {"spawnOut", "spawnErr", "done"}
         \/ s = "stderr" /\ pc = "reap" /\ call = "stdout" /\ child # "running"

LEMMA InitiallyStarted == Init => Started
BY DEF Init, Started

(* No step leaves a running child with a pipe that nobody reads.           *)
LEMMA StartedKeeps ==
    ASSUME IInv, Started, Next
    PROVE  Started'
<1>1. TypeOK /\ Places /\ Threads
  BY DEF IInv
<1> USE DEF TypeOK, Places, Threads, Started
<1>2. ASSUME NEW s \in {"stdout", "stderr"}, ChildWrites(s) PROVE Started'
  BY <1>1, <1>2 DEF ChildWrites
<1>3. ASSUME NEW s \in {"stdout", "stderr"}, ReaderReads(s) PROVE Started'
  BY <1>1, <1>3 DEF ReaderReads, MayTake, Reported
<1>4. ASSUME NEW s \in {"stdout", "stderr"}, ReaderEnds(s) PROVE Started'
  BY <1>1, <1>4 DEF ReaderEnds
<1>5. ASSUME NEW s \in {"stdout", "stderr"}, ReaderFails(s) PROVE Started'
  BY <1>1, <1>5 DEF ReaderFails
<1>6. ASSUME NEW s \in {"stdout", "stderr"}, SpawnReader(s) PROVE Started'
  BY <1>1, <1>6 DEF SpawnReader, Leave, Killed, Goto
<1>7. CASE ChildReads
  BY <1>1, <1>7 DEF ChildReads
<1>8. CASE ChildCreatesItsOutput
  BY <1>1, <1>8 DEF ChildCreatesItsOutput
<1>9. CASE ChildForks
  BY <1>1, <1>9 DEF ChildForks
<1>10. CASE HeirsEnd
  BY <1>1, <1>10 DEF HeirsEnd
<1>11. CASE ChildSucceeds
  BY <1>1, <1>11 DEF ChildSucceeds
<1>12. CASE ChildFails
  BY <1>1, <1>12 DEF ChildFails
<1>13. CASE ChildDies
  BY <1>1, <1>13 DEF ChildDies
<1>14. CASE HandlerEnds
  BY <1>1, <1>14 DEF HandlerEnds
<1>15. CASE HandlerFails
  BY <1>1, <1>15 DEF HandlerFails
<1>16. CASE BeginWrite
  BY <1>1, <1>16 DEF BeginWrite, Goto
<1>17. CASE WriteDone
  BY <1>1, <1>17 DEF WriteDone, Goto
<1>18. CASE WriteFails
  BY <1>1, <1>18 DEF WriteFails, StopChild, Killed, Goto
<1>19. CASE Finish
  BY <1>1, <1>19 DEF Finish, StopChild, Killed, Goto
<1>20. CASE AbortEncoder
  BY <1>1, <1>20 DEF AbortEncoder, StopChild, Killed, Goto
<1>21. CASE EncoderStopped
  BY <1>1, <1>21 DEF EncoderStopped, JoinStderr, Aborted, Goto
<1>22. CASE EncoderReturns
  BY <1>1, <1>22 DEF EncoderReturns, Leave, Killed, Goto
<1>23. CASE MixerReturns
  BY <1>1, <1>23 DEF MixerReturns, Leave, Killed
<1>24. CASE BundlerReturns
  BY <1>1, <1>24 DEF BundlerReturns, Leave, Killed
<1>25. CASE Reap
  BY <1>1, <1>25 DEF Reap, Leave, Killed, Goto
<1>26. CASE JoinStdout
  BY <1>1, <1>26 DEF JoinStdout, Leave, Killed, Goto
<1>27. CASE ProbeReturns
  BY <1>1, <1>27 DEF ProbeReturns, Leave, Killed
<1>28. CASE AwaitEndpoint
  BY <1>1, <1>28 DEF AwaitEndpoint, ForceStop, Killed, Goto
<1>29. CASE Establish
  BY <1>1, <1>29 DEF Establish, ForceStop, Killed, Goto
<1>30. CASE Shutdown
  BY <1>1, <1>30 DEF Shutdown, Killed, Goto
<1>31. CASE KillDone
  BY <1>1, <1>31 DEF KillDone, Goto
<1>32. CASE BrowserJoined
  BY <1>1, <1>32 DEF BrowserJoined, Leave, Killed, Goto
<1>33. CASE JoinHandler
  BY <1>1, <1>33 DEF JoinHandler, Leave, Killed
<1>34. CASE WaitObserved
  BY <1>1, <1>34 DEF WaitObserved, JoinStderr, Goto
<1>35. CASE WaitExpires
  BY <1>1, <1>35 DEF WaitExpires, ForceStop, StopChild, JoinStderr, Killed, Goto
<1>36. CASE Stopped
  BY <1>1, <1>36 DEF Stopped, JoinStderr, Goto
<1>37. CASE Join
  BY <1>1, <1>37 DEF Join, Aborted, Goto
<1>38. CASE Abandon
  BY <1>1, <1>38 DEF Abandon, Leave, Killed, Aborted
<1>39. CASE Done
  BY <1>39 DEF Done, vars
<1> QED
  BY <1>2, <1>3, <1>4, <1>5, <1>6, <1>7, <1>8, <1>9, <1>10, <1>11, <1>12, <1>13, <1>14,
     <1>15, <1>16, <1>17, <1>18, <1>19, <1>20, <1>21, <1>22, <1>23, <1>24, <1>25, <1>26,
     <1>27, <1>28, <1>29, <1>30, <1>31, <1>32, <1>33, <1>34, <1>35, <1>36, <1>37, <1>38,
     <1>39 DEF Next, Child, Readers, Proceed, Calls

(* A full pipe of a running child has a reader that can take from it, or   *)
(* no reader at the other end, which the child finds out: in no await does *)
(* the owner wait for a child that waits for its owner (capture_stderr,    *)
(* drain_stderr, OutputReaders).                                           *)
THEOREM NobodyBlocksTheChildHolds == Spec => []NobodyBlocksTheChild
<1>1. IInv /\ Started => NobodyBlocksTheChild
  <2> SUFFICES ASSUME IInv, Started, NEW s \in Streams,
                      pc \notin {"spawnOut", "spawnErr", "done"}, child = "running",
                      wrote[s] - taken[s] = Pipe
               PROVE  Drained(s) \/ MayTake(s)
    BY DEF NobodyBlocksTheChild
  <2>1. wrote[s] \in Nat /\ taken[s] \in Nat /\ taken[s] < wrote[s]
    BY DEF IInv, TypeOK
  <2>2. reader[s] \in {"reading", "failed", "aborted"}
    BY DEF IInv, TypeOK, Ends, Started
  <2> QED
    BY <2>1, <2>2 DEF MayTake
<1>2. IInv /\ Started /\ [Next]_vars => Started'
  BY StartedKeeps DEF vars, Started
<1> QED
  BY Invariant, InitiallyStarted, <1>1, <1>2, PTL DEF Spec
=============================================================================
