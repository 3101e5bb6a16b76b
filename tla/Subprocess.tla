------------------------------ MODULE Subprocess ------------------------------
(***************************************************************************)
(* How Onmark owns a child process.  Five owners follow one discipline,    *)
(* each in its own words:                                                  *)
(*                                                                         *)
(*   encoder   FfmpegSession, render/src/encoder/session.rs                *)
(*   mixer     mix_audio, render/src/encoder/audio.rs                      *)
(*   bundler   PresentationBundler::bundle, cli/src/bundler.rs             *)
(*   probe     Ffprobe::capture, media/src/probe.rs and process.rs         *)
(*   browser   BrowserSession and ChromiumProcess, render/src/browser      *)
(*                                                                         *)
(* A step of an owner ends at an await, or at a blocking call of the       *)
(* probe.  The child is external: it writes diagnostics, reads its input,  *)
(* leaves descendants that hold its pipes, succeeds, fails, or does        *)
(* nothing any more.  Pipes are counted in pieces.                         *)
(***************************************************************************)
EXTENDS Naturals

CONSTANTS
    Kinds,   \* the owners to consider
    Frames,  \* EncodeLimits.max_frames
    Output,  \* pieces the child writes to each of its pipes, at most
    Limit,   \* pieces a reader retains
    Pipe     \* pieces a pipe holds

ASSUME SubprocessAssumption ==
    /\ Kinds \subseteq {"encoder", "mixer", "bundler", "probe", "browser"}
    /\ Frames \in Nat \ {0} /\ Output \in Nat /\ Limit \in Nat /\ Pipe \in Nat \ {0}

VARIABLES
    kind,      \* who owns the child
    killable,  \* the system carries out a kill
    child,     \* "running", "killed" but not dead, or its exit: "ok", "failed"
    heirs,     \* descendants hold the write end of stderr
    wrote,     \* pieces the child has written to each pipe
    taken,     \* pieces its reader has taken from each pipe
    reader,    \* the task or thread that drains each pipe
    owned,     \* the owner still holds the handle of the stderr reader
    reaped,    \* the owner has observed the exit
    input,     \* FfmpegSession.stdin is Some
    given,     \* FfmpegSession.frames
    read,      \* frames the child has read
    torn,      \* a prefix of a frame was left in the child's input
    file,      \* the output file, or the bundler's private directory
    endpoint,  \* of DevTools: "none", "printed" by the child, "sent" by the reader
    handler,   \* the task that drives the CDP connection
    call,      \* what the owner is doing
    pc,        \* the await it is suspended at, or where it rests
    failed,    \* the call has an error to report
    result     \* what the owner got in the end

pipes == <<heirs, wrote, taken, reader>>
stdin == <<input, given, read, torn>>
owner == <<kind, killable, owned, reaped, endpoint, handler, call, pc, failed, result>>
vars == <<kind, killable, child, heirs, wrote, taken, reader, owned, reaped, input, given, read,
          torn, file, endpoint, handler, call, pc, failed, result>>

Streams == IF kind = "probe" THEN {"stdout", "stderr"} ELSE {"stderr"}

Exited == child \in {"ok", "failed"}

Resting == {"idle", "session", "done"}

Reading(s) == reader[s] = "reading"

(* A reader that failed or was aborted has closed its end of the pipe.     *)
Drained(s) == reader[s] \in {"failed", "aborted"}

Truncated(s) == taken[s] > Limit

Init ==
    /\ kind \in Kinds
    /\ killable \in BOOLEAN
    /\ child = "running"
    /\ heirs = FALSE
    /\ wrote = [s \in Streams |-> 0]
    /\ taken = [s \in Streams |-> 0]
    /\ reader = [s \in Streams |-> IF kind = "probe" THEN "none" ELSE "reading"]
    /\ owned = TRUE
    /\ reaped = FALSE
    /\ input = (kind = "encoder")
    /\ given = 0 /\ read = 0
    /\ torn = FALSE
    /\ file = IF kind = "bundler" THEN "partial" ELSE "none"
    /\ endpoint = "none"
    /\ handler = "none"
    /\ call = CASE kind = "encoder" -> "start" [] kind = "browser" -> "launch" [] OTHER -> "run"
    /\ pc = CASE kind = "encoder" -> "idle"
              [] kind = "browser" -> "endpoint"
              [] kind = "probe" -> "spawnOut"
              [] OTHER -> "wait"
    /\ failed = FALSE
    /\ result = "none"

-----------------------------------------------------------------------------
(* The child.  A process that a kill has reached takes no step of its own. *)

ChildWrites(s) ==
    /\ child = "running"
    /\ s \in Streams /\ ~Drained(s)
    /\ wrote[s] < Output /\ wrote[s] - taken[s] < Pipe
    /\ wrote' = [wrote EXCEPT ![s] = @ + 1]
    /\ endpoint' \in IF kind = "browser" /\ endpoint = "none" THEN {"none", "printed"} ELSE {endpoint}
    /\ UNCHANGED <<kind, killable, child, heirs, taken, reader, owned, reaped, stdin, file,
                   handler, call, pc, failed, result>>

ChildReads ==
    /\ child = "running" /\ read < given
    /\ read' = read + 1
    /\ UNCHANGED <<owner, child, pipes, input, given, torn, file>>

ChildCreatesItsOutput ==
    /\ child = "running" /\ kind \in {"encoder", "mixer"} /\ file = "none"
    /\ file' = "partial"
    /\ UNCHANGED <<owner, child, pipes, stdin>>

(* esbuild beneath Node, and the processes of Chromium; the probe admits   *)
(* only an executable that leaves none.                                    *)
ChildForks ==
    /\ child = "running" /\ kind \in {"bundler", "browser"}
    /\ heirs' = TRUE
    /\ UNCHANGED <<owner, child, wrote, taken, reader, stdin, file>>

HeirsEnd ==
    /\ heirs /\ heirs' = FALSE
    /\ UNCHANGED <<owner, child, wrote, taken, reader, stdin, file>>

ChildSucceeds ==
    /\ child = "running"
    /\ kind = "encoder" => ~input /\ read = given
    /\ child' = "ok"
    /\ file' \in CASE kind \in {"encoder", "mixer"} -> {"complete"}
                   [] kind = "bundler" -> {"complete", "partial"}
                   [] OTHER -> {file}
    /\ UNCHANGED <<owner, pipes, stdin>>

ChildFails ==
    /\ child = "running" /\ child' = "failed"
    /\ UNCHANGED <<owner, pipes, stdin, file>>

ChildDies ==
    /\ child = "killed" /\ child' = "failed"
    /\ UNCHANGED <<owner, pipes, stdin, file>>

Child ==
    \/ \E s \in {"stdout", "stderr"} : ChildWrites(s)
    \/ ChildReads \/ ChildCreatesItsOutput \/ ChildForks \/ HeirsEnd
    \/ ChildSucceeds \/ ChildFails \/ ChildDies

-----------------------------------------------------------------------------
(* The readers: capture_stderr, retain_tail, capture, drain_stderr         *)

(* report_devtools_endpoint sends what it finds once.                      *)
Reported(s) ==
    IF endpoint = "printed" /\ taken'[s] = wrote[s] THEN "sent" ELSE endpoint

(* Mutant: a reader that has all it may retain takes no more.              *)
MayTakeToItsLimit(s) ==
    s \in Streams /\ Reading(s) /\ taken[s] < wrote[s] /\ ~Truncated(s)

MayTake(s) == s \in Streams /\ Reading(s) /\ taken[s] < wrote[s]

(* What exceeds the limit is read and dropped.                             *)
ReaderReads(s) ==
    /\ MayTake(s)
    /\ taken' = [taken EXCEPT ![s] = @ + 1]
    /\ endpoint' = Reported(s)
    /\ UNCHANGED <<kind, killable, child, heirs, wrote, reader, owned, reaped, stdin, file,
                   handler, call, pc, failed, result>>

ReaderEnds(s) ==
    /\ s \in Streams /\ Reading(s) /\ taken[s] = wrote[s]
    /\ Exited /\ ~heirs
    /\ reader' = [reader EXCEPT ![s] = "ended"]
    /\ UNCHANGED <<owner, child, heirs, wrote, taken, stdin, file>>

ReaderFails(s) ==
    /\ s \in Streams /\ Reading(s)
    /\ reader' = [reader EXCEPT ![s] = "failed"]
    /\ UNCHANGED <<owner, child, heirs, wrote, taken, stdin, file>>

(* The connection ends with the browser, or by an error of the protocol.   *)
HandlerEnds ==
    /\ handler = "running" /\ Exited
    /\ handler' = "ended"
    /\ UNCHANGED <<kind, killable, child, pipes, owned, reaped, stdin, file, endpoint, call, pc,
                   failed, result>>

HandlerFails ==
    /\ handler = "running"
    /\ handler' = "failed"
    /\ UNCHANGED <<kind, killable, child, pipes, owned, reaped, stdin, file, endpoint, call, pc,
                   failed, result>>

Readers ==
    \/ HandlerEnds \/ HandlerFails
    \/ \E s \in {"stdout", "stderr"} : ReaderReads(s) \/ ReaderEnds(s) \/ ReaderFails(s)

-----------------------------------------------------------------------------
(* What the owners share *)

Killed == IF killable /\ child = "running" THEN "killed" ELSE child

Aborted(s) == [reader EXCEPT ![s] = IF @ = "reading" THEN "aborted" ELSE @]

Goto(to, error) ==
    /\ pc' = to
    /\ failed' = error

(* Mutant: a child outlives the handle that owned it.                      *)
LeaveRunning(how) ==
    /\ pc' = "done" /\ result' = how
    /\ child' = child
    /\ failed' = FALSE
    /\ file' = CASE how = "ok" -> file
                 [] kind = "mixer" /\ how = "dropped" -> file
                 [] OTHER -> "none"

(* The end of an owner, with what its Drop does: kill_on_drop, the partial *)
(* output, the temporary directory.                                        *)
Leave(how) ==
    /\ pc' = "done" /\ result' = how
    /\ child' = Killed
    /\ failed' = FALSE
    /\ file' = CASE how = "ok" -> file
                 [] kind = "mixer" /\ how = "dropped" -> file
                 [] OTHER -> "none"

(* take() of the handle of the stderr reader, and a bounded join of it; a  *)
(* reader that was joined or aborted before is an error.                   *)
JoinStderr(error) ==
    /\ owned' = FALSE
    /\ IF owned \/ kind # "encoder" THEN Goto("join", error) ELSE Goto("joined", TRUE)

(* start_kill, then a wait for CLEANUP_TIMEOUT.                            *)
StopChild ==
    /\ input' = FALSE
    /\ child' = Killed
    /\ Goto("stop", TRUE)

-----------------------------------------------------------------------------
(* FfmpegSession: calls of its owner *)

BeginWrite ==
    /\ kind = "encoder" /\ pc = "idle" /\ input /\ given < Frames
    /\ call' = "write" /\ Goto("write", FALSE)
    /\ UNCHANGED <<kind, killable, child, pipes, owned, reaped, stdin, file, endpoint, handler, result>>

WriteDone ==
    /\ pc = "write" /\ ~Exited /\ given - read < Pipe
    /\ given' = given + 1
    /\ Goto("idle", FALSE)
    /\ UNCHANGED <<kind, killable, child, pipes, owned, reaped, input, read, torn, file, endpoint,
                   handler, call, result>>

(* input_write_failure, or the inactivity timeout in the middle of a frame *)
WriteFails ==
    /\ pc = "write"
    /\ \/ Exited /\ call' = "broken" /\ torn' = torn
       \/ call' = "expired" /\ torn' \in {torn, TRUE}
    /\ StopChild
    /\ UNCHANGED <<kind, killable, pipes, owned, reaped, given, read, file, endpoint, handler, result>>

Finish ==
    /\ kind = "encoder" /\ pc = "idle"
    /\ call' = "finish"
    /\ IF given = 0 THEN StopChild ELSE input' = FALSE /\ Goto("wait", FALSE) /\ child' = child
    /\ UNCHANGED <<kind, killable, pipes, owned, reaped, given, read, torn, file, endpoint, handler, result>>

AbortEncoder ==
    /\ kind = "encoder" /\ pc = "idle"
    /\ call' = "abort"
    /\ StopChild
    /\ UNCHANGED <<kind, killable, pipes, owned, reaped, given, read, torn, file, endpoint, handler, result>>

(* Mutant: the handle of an aborted reader can be taken again.             *)
EncoderStoppedOnly ==
    /\ kind = "encoder" /\ pc = "stop"
    /\ reaped' \in IF Exited THEN {TRUE, reaped} ELSE {reaped}
    /\ IF call \in {"broken", "abort"}
       THEN JoinStderr(call = "broken" \/ ~reaped') /\ UNCHANGED reader
       ELSE Goto("joined", TRUE) /\ UNCHANGED <<reader, owned>>
    /\ UNCHANGED <<kind, killable, child, heirs, wrote, taken, stdin, file, endpoint, handler, call, result>>

(* An expired write and a failed finish abort the reader, the other ways   *)
(* to stop an encoder read its last words.                                 *)
EncoderStopped ==
    /\ kind = "encoder" /\ pc = "stop"
    /\ reaped' \in IF Exited THEN {TRUE, reaped} ELSE {reaped}
    /\ IF call \in {"broken", "abort"}
       THEN JoinStderr(call = "broken" \/ ~reaped') /\ UNCHANGED reader
       ELSE /\ reader' = IF owned THEN Aborted("stderr") ELSE reader
            /\ owned' = FALSE
            /\ Goto("joined", TRUE)
    /\ UNCHANGED <<kind, killable, child, heirs, wrote, taken, stdin, file, endpoint, handler, call, result>>

(* A failed write leaves the session to its owner, finish and abort end it;*)
(* an abort has no video to return.                                        *)
EncoderReturns ==
    /\ kind = "encoder" /\ pc = "joined"
    /\ CASE call \in {"broken", "expired"} ->
              Goto("idle", FALSE) /\ UNCHANGED <<child, file, result>>
         [] call = "finish" -> Leave(IF ~failed /\ child = "ok" THEN "ok" ELSE "error")
         [] call = "abort" -> Leave("error")
    /\ UNCHANGED <<kind, killable, pipes, owned, reaped, stdin, endpoint, handler, call>>

-----------------------------------------------------------------------------
(* mix_audio, bundle *)

MixerReturns ==
    /\ kind = "mixer" /\ pc = "joined"
    /\ Leave(IF ~failed /\ child = "ok" THEN "ok" ELSE "error")
    /\ UNCHANGED <<kind, killable, pipes, owned, reaped, stdin, endpoint, handler, call>>

(* read_manifest accepts what it can decode.                               *)
BundlerReturns ==
    /\ kind = "bundler" /\ pc = "joined"
    /\ \/ ~failed /\ child = "ok" /\ file = "complete" /\ Leave("ok")
       \/ (failed \/ child # "ok" \/ file # "complete") /\ Leave("error")
    /\ UNCHANGED <<kind, killable, pipes, owned, reaped, stdin, endpoint, handler, call>>

-----------------------------------------------------------------------------
(* Ffprobe::capture *)

(* A thread that cannot be spawned ends the probe; a kill that fails is    *)
(* an error unless the child has exited meanwhile.                         *)
SpawnReader(s) ==
    /\ pc = IF s = "stdout" THEN "spawnOut" ELSE "spawnErr"
    /\ s \in Streams
    /\ \/ /\ reader' = [reader EXCEPT ![s] = "reading"]
          /\ Goto(IF s = "stdout" THEN "spawnErr" ELSE "wait", FALSE)
          /\ UNCHANGED <<child, file, call, result>>
       \/ /\ killable \/ Exited
          /\ reader' = [reader EXCEPT ![s] = "failed"]
          /\ call' = s /\ child' = Killed
          /\ Goto("reap", TRUE)
          /\ UNCHANGED <<file, result>>
       \/ /\ ~killable /\ ~Exited
          /\ reader' = [reader EXCEPT ![s] = "failed"]
          /\ call' = s
          /\ Leave("error")
    /\ UNCHANGED <<kind, killable, heirs, wrote, taken, owned, reaped, stdin, endpoint, handler>>

(* reap() waits without a deadline for a child that a kill has reached.    *)
Reap ==
    /\ pc = "reap" /\ Exited
    /\ reaped' = TRUE
    /\ IF call = "stdout" THEN Leave("error")
       ELSE Goto("joinOut", TRUE) /\ UNCHANGED <<child, file, result>>
    /\ UNCHANGED <<kind, killable, pipes, owned, stdin, endpoint, handler, call>>

(* OutputReaders::finish joins both readers, without a deadline.           *)
JoinStdout ==
    /\ pc = "joinOut" /\ ~Reading("stdout")
    /\ IF call = "stderr" THEN Leave("error")
       ELSE /\ Goto("joinErr", failed \/ reader["stdout"] = "failed")
            /\ UNCHANGED <<child, file, result>>
    /\ UNCHANGED <<kind, killable, pipes, owned, reaped, stdin, endpoint, handler, call>>

ProbeReturns ==
    /\ pc = "joinErr" /\ ~Reading("stderr")
    /\ \/ /\ ~failed /\ reader["stderr"] = "ended" /\ child = "ok"
          /\ ~Truncated("stdout") /\ ~Truncated("stderr")
          /\ Leave("ok")
       \/ /\ failed \/ reader["stderr"] = "failed" \/ child # "ok"
             \/ Truncated("stdout") \/ Truncated("stderr")
          /\ Leave("error")
    /\ UNCHANGED <<kind, killable, pipes, owned, reaped, stdin, endpoint, handler, call>>

-----------------------------------------------------------------------------
(* BrowserSession *)

(* force_stop: kill().await has no deadline, but returns at once when the  *)
(* kill fails.                                                             *)
ForceStop ==
    /\ child' = Killed
    /\ Goto(IF killable THEN "kill" ELSE "stop", TRUE)

(* Chromium publishes its endpoint, or closes stderr, or misses the        *)
(* deadline.                                                               *)
AwaitEndpoint ==
    /\ pc = "endpoint"
    /\ \/ endpoint = "sent" /\ Goto("connect", FALSE) /\ child' = child
       \/ endpoint # "sent" /\ ForceStop
    /\ UNCHANGED <<kind, killable, pipes, owned, reaped, stdin, file, endpoint, handler, call, result>>

(* connect_with_config, new_page, validate_graphics_backend: the handler   *)
(* becomes a task of its own when new_page has returned, and not when it   *)
(* ends first.  A browser is taken to answer the handshake or to end: only *)
(* the commands that follow it have a deadline.                            *)
Establish ==
    /\ pc \in {"connect", "page", "graphics"}
    /\ \/ /\ ~Exited
          /\ Goto(CASE pc = "connect" -> "page" [] pc = "page" -> "graphics" [] OTHER -> "session", FALSE)
          /\ call' = IF pc = "graphics" THEN "session" ELSE call
          /\ handler' = IF pc = "page" THEN "running" ELSE handler
          /\ child' = child
       \/ /\ ForceStop
          /\ handler' \in IF pc = "page" THEN {handler, "running"} ELSE {handler}
          /\ call' = call
    /\ UNCHANGED <<kind, killable, pipes, owned, reaped, stdin, file, endpoint, result>>

(* shutdown: a browser that does not confirm its close is asked to stop.   *)
Shutdown ==
    /\ pc = "session"
    /\ call' = "shutdown"
    /\ \/ child' = child /\ Goto("wait", FALSE)
       \/ child' = Killed /\ Goto("wait", TRUE)
    /\ UNCHANGED <<kind, killable, pipes, owned, reaped, stdin, file, endpoint, handler, result>>

KillDone ==
    /\ pc = "kill" /\ Exited
    /\ Goto("stop", failed)
    /\ UNCHANGED <<kind, killable, child, pipes, owned, reaped, stdin, file, endpoint, handler, call, result>>

BrowserJoined ==
    /\ kind = "browser" /\ pc = "joined"
    /\ IF call = "launch"
       THEN Leave("error") /\ handler' = IF handler = "running" THEN "aborted" ELSE handler
       ELSE Goto("handler", failed \/ child # "ok") /\ UNCHANGED <<child, file, result, handler>>
    /\ UNCHANGED <<kind, killable, pipes, owned, reaped, stdin, endpoint, call>>

(* shutdown_handler, bounded by the same deadline.                         *)
JoinHandler ==
    /\ pc = "handler"
    /\ handler' = IF handler = "running" THEN "aborted" ELSE handler
    /\ Leave(IF handler = "ended" /\ ~failed THEN "ok" ELSE "error")
    /\ UNCHANGED <<kind, killable, pipes, owned, reaped, stdin, endpoint, call>>

-----------------------------------------------------------------------------
(* Waits that several owners have *)

WaitObserved ==
    /\ pc = "wait" /\ Exited
    /\ reaped' = TRUE
    /\ IF kind = "probe" THEN Goto("joinOut", failed) /\ owned' = owned ELSE JoinStderr(failed)
    /\ UNCHANGED <<kind, killable, child, pipes, stdin, file, endpoint, handler, call, result>>

(* The deadline passes, or the wait itself fails.                          *)
WaitExpires ==
    /\ pc = "wait"
    /\ CASE kind = "browser" -> ForceStop /\ UNCHANGED <<owned, input>>
         [] kind = "probe" ->
              /\ child' = Killed
              /\ Goto(IF killable \/ Exited THEN "reap" ELSE "joinOut", TRUE)
              /\ UNCHANGED <<owned, input>>
         [] kind = "bundler" /\ ~killable -> JoinStderr(TRUE) /\ UNCHANGED <<child, input>>
         [] OTHER -> StopChild /\ UNCHANGED owned
    /\ UNCHANGED <<kind, killable, pipes, reaped, given, read, torn, file, endpoint, handler, call, result>>

(* The bounded wait after a kill, for all but the encoder.                 *)
Stopped ==
    /\ pc = "stop" /\ kind # "encoder"
    /\ reaped' \in IF Exited THEN {TRUE, reaped} ELSE {reaped}
    /\ JoinStderr(TRUE)
    /\ UNCHANGED <<kind, killable, child, pipes, stdin, file, endpoint, handler, call, result>>

(* Mutant: the join has no deadline.                                       *)
JoinForEver ==
    /\ pc = "join" /\ ~Reading("stderr")
    /\ Goto("joined", failed \/ reader["stderr"] # "ended")
    /\ UNCHANGED <<kind, killable, child, pipes, owned, reaped, stdin, file, endpoint, handler,
                   call, result>>

(* The join of the stderr reader: it ends, or it misses its deadline and   *)
(* is aborted.                                                             *)
Join ==
    /\ pc = "join"
    /\ reader' = Aborted("stderr")
    /\ Goto("joined", failed \/ reader["stderr"] # "ended")
    /\ UNCHANGED <<kind, killable, child, heirs, wrote, taken, owned, reaped, stdin, file, endpoint,
                   handler, call, result>>

(* The future that owns the child is dropped at an await.  The encoder and *)
(* the bundler abort a reader whose handle they hold, any other goes on    *)
(* until its pipe is closed.                                               *)
Abandon ==
    /\ kind # "probe" /\ pc # "done"
    /\ Leave("dropped")
    /\ reader' = IF kind \in {"encoder", "bundler"} /\ owned THEN Aborted("stderr") ELSE reader
    /\ UNCHANGED <<kind, killable, heirs, wrote, taken, owned, reaped, stdin, endpoint, handler, call>>

(* What an owner does without being asked. *)
Proceed ==
    \/ WriteDone \/ WriteFails \/ EncoderStopped \/ EncoderReturns
    \/ MixerReturns \/ BundlerReturns
    \/ \E s \in {"stdout", "stderr"} : SpawnReader(s)
    \/ Reap \/ JoinStdout \/ ProbeReturns
    \/ AwaitEndpoint \/ Establish \/ KillDone \/ BrowserJoined \/ JoinHandler
    \/ WaitObserved \/ WaitExpires \/ Stopped \/ Join

Calls == BeginWrite \/ Finish \/ AbortEncoder \/ Shutdown \/ Abandon

Done == pc = "done" /\ UNCHANGED vars

Next == Child \/ Readers \/ Proceed \/ Calls \/ Done

(* Deadlines pass, tasks and threads are scheduled, and what a kill has    *)
(* reached dies; the child itself may do nothing for ever.                 *)
Spec ==
    /\ Init /\ [][Next]_vars
    /\ WF_vars(Proceed) /\ WF_vars(ChildDies)
    /\ \A s \in {"stdout", "stderr"} : WF_vars(ReaderReads(s) \/ ReaderEnds(s))
    /\ WF_vars(HandlerEnds)

-----------------------------------------------------------------------------
(* Properties *)

(* Every variable keeps its type. *)
TypeOK ==
    /\ kind \in Kinds
    /\ {killable, heirs, owned, reaped, input, torn, failed} \subseteq BOOLEAN
    /\ child \in {"running", "killed", "ok", "failed"}
    /\ wrote \in [Streams -> 0..Output] /\ taken \in [Streams -> 0..Output]
    /\ reader \in [Streams -> {"none", "reading", "ended", "failed", "aborted"}]
    /\ given \in 0..Frames /\ read \in 0..Frames
    /\ file \in {"none", "partial", "complete"}
    /\ endpoint \in {"none", "printed", "sent"}
    /\ handler \in {"none", "running", "ended", "failed", "aborted"}
    /\ result \in {"none", "ok", "error", "dropped"}

(* However a call ends, by success, error, deadline or the drop of its     *)
(* future, the child is dead or dying, no task the owner has waited for    *)
(* still runs, and a rejected output is gone, wherever kills work.         *)
NothingIsLeft ==
    pc = "done" /\ killable =>
      /\ child # "running"
      /\ result # "dropped" => handler # "running" /\ \A s \in Streams : ~Reading(s)
      /\ result = "error" \/ (result = "dropped" /\ kind # "mixer") => file = "none"

(* Success is reported only of a child that was seen to exit with success, *)
(* whose last word on every pipe was read, that was given whole frames     *)
(* only and all of them, and whose output is complete: never after a write *)
(* that failed, a reader that was aborted, or metadata cut at the limit.   *)
SuccessIsObserved ==
    result = "ok" =>
      /\ child = "ok" /\ reaped
      /\ \A s \in Streams : reader[s] = "ended" /\ taken[s] = wrote[s]
      /\ kind = "encoder" => ~torn /\ given > 0 /\ read = given
      /\ kind \in {"encoder", "mixer", "bundler"} => file = "complete"
      /\ kind = "probe" => \A s \in Streams : ~Truncated(s)
      /\ kind = "browser" => handler = "ended"

(* A child whose pipe is full has a reader that empties it, so that its    *)
(* owner never waits for a child that waits for its owner.                 *)
NobodyBlocksTheChild ==
    \A s \in Streams :
      pc \notin {"spawnOut", "spawnErr", "done"} /\ child = "running" /\ wrote[s] - taken[s] = Pipe =>
        \/ Drained(s)
        \/ MayTake(s)

(* Every call comes to an end, with a child that hangs, descendants that   *)
(* keep its pipes and kills that fail.  The one exception is a probe whose *)
(* kill fails: OutputReaders::finish then waits as long as ffprobe lives.  *)
EveryCallEnds == [](pc \notin Resting /\ (kind = "probe" => killable) => <>(pc \in Resting))
=============================================================================
