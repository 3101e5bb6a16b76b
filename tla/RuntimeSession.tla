--------------------------- MODULE RuntimeSession ---------------------------
(***************************************************************************)
(* The browser half of the capture protocol: the RuntimeSession of         *)
(* packages/runtime/src/session.ts, the PresentationRuntimeAdapter it      *)
(* drives and the DecodedVideo controllers the adapter owns.               *)
(*                                                                         *)
(* A client may send any command at any time, also while another one is    *)
(* executing.  Every `await` of the adapter is a step boundary: the        *)
(* observers of decoded frames, media events, readiness timers and author  *)
(* callbacks run between the steps.                                        *)
(***************************************************************************)
EXTENDS Integers, Sequences, FiniteSets

CONSTANTS
    Frames,         \* frame indices a command may name
    Plans,          \* plans a client may load
    VideoOrder,     \* the plan's videos, in canonical node order
    MediaTime,      \* [Videos -> [Frames -> source frame, or None when inactive]]
    MaxConcurrent,  \* MAX_CONCURRENT_VIDEO_OPERATIONS
    None

Videos == {VideoOrder[i] : i \in DOMAIN VideoOrder}
SourceTimes == (UNION {{MediaTime[v][f] : f \in Frames} : v \in Videos}) \ {None}

(* A plan is admitted by planViolation or not; it names the half-open      *)
(* evaluation interval and whether decoded videos are bound.               *)
PlanType ==
    [start : Int, end : Int, valid : BOOLEAN,
     media : {"decoded", "layoutOnly", "omitted"}]

ASSUME ConstantsAssumption ==
    /\ Frames \subseteq Int
    /\ Plans \subseteq PlanType
    /\ VideoOrder \in Seq(Videos)
    /\ \A i, j \in DOMAIN VideoOrder : VideoOrder[i] = VideoOrder[j] => i = j
    /\ MediaTime \in [Videos -> [Frames -> SourceTimes \cup {None}]]
    /\ MaxConcurrent \in Nat \ {0}
    /\ None \notin Frames /\ None \notin Plans /\ None \notin SourceTimes

VARIABLES
    session,       \* RuntimeSession.#state
    command,       \* the command #busy guards, or None
    step,          \* the adapter's await the command is suspended at
    presentation,  \* PresentationRuntimeAdapter.#state
    staged,        \* PresentationRuntimeAdapter.#staged, as its frame
    video,         \* the DecodedVideo controllers
    work,          \* outcomes of the current batch of video work
    decoded,       \* the source frame each <video> element is positioned at
    onscreen,      \* the source frame the compositor shows for each of them
    visible,       \* the videos made visible
    reply          \* the last response

runtimeVars ==
    <<session, command, step, presentation, staged, video, work, decoded,
      onscreen, visible, reply>>

-----------------------------------------------------------------------------
(* Commands and responses *)

LoadCommand(plan)  == [type |-> "load", plan |-> plan]
FrameCommand(t, f) == [type |-> t, frame |-> f]
DisposeCommand     == [type |-> "dispose"]

Commands ==
    {LoadCommand(plan) : plan \in Plans}
        \cup {FrameCommand(t, f) : t \in {"prepare", "seek", "confirm"}, f \in Frames}
        \cup {DisposeCommand}

ASSUME NoCommandAssumption == None \notin Commands

Events ==
    {"loaded", "prepared", "frameStaged", "frameReady", "disposed",
     "loadFailed", "prepareFailed", "seekFailed", "confirmFailed", "internal",
     "invalidRequest"}

(* Frame carried by the frameStaged and frameReady events. *)
EventFrame(c) == IF c.type \in {"seek", "confirm"} THEN c.frame ELSE None

Respond(c, event) == reply' = [event |-> event, frame |-> EventFrame(c)]

NoVideo == [state |-> "unbound", pending |-> None, seen |-> "waiting", presented |-> None]

VideoType ==
    [state     : {"unbound", "empty", "loaded", "disposed"},
     pending   : SourceTimes \cup {None},        \* #pendingFrame
     seen      : {"waiting", "presented", "failed"}, \* its observation
     presented : SourceTimes \cup {None}]        \* #presentedMediaTime

SessionType ==
    [kind  : {"empty", "loaded", "ready", "staged", "failed", "disposed"},
     plan  : Plans \cup {None},
     frame : Frames \cup {None}]

(* A page that has just loaded the bundle. *)
FreshSession == [kind |-> "empty", plan |-> None, frame |-> None]

RuntimeInit ==
    /\ session = FreshSession
    /\ command = None
    /\ step = "idle"
    /\ presentation = "empty"
    /\ staged = None
    /\ video = [v \in Videos |-> NoVideo]
    /\ work = [v \in Videos |-> "idle"]
    /\ decoded = [v \in Videos |-> None]
    /\ onscreen = [v \in Videos |-> None]
    /\ visible = {}
    /\ reply = [event |-> "invalidRequest", frame |-> None]

(***************************************************************************)
(* Shared steps                                                            *)
(***************************************************************************)

Idle == [v \in Videos |-> "idle"]

(* Starts a batch of video work over the given videos. *)
Queue(vs) == work' = [v \in Videos |-> IF v \in vs THEN "queued" ELSE "idle"]

Settled == \A v \in Videos : work[v] \notin {"queued", "running"}

Failed == \E v \in Videos : work[v] = "failed"

(* The first queued video in plan order. *)
NextInput(v) ==
    /\ work[v] = "queued"
    /\ \A i, j \in DOMAIN VideoOrder :
          VideoOrder[i] = v /\ j < i => work[VideoOrder[j]] # "queued"

(* Mutant: workers stop at the first failure, the barrier still waits.     *)
WorkersStopOnFailure ==
    /\ ~Failed
    /\ Cardinality({v \in Videos : work[v] = "running"}) < MaxConcurrent

HasWorker == Cardinality({v \in Videos : work[v] = "running"}) < MaxConcurrent

(* DecodedVideo.discardStagedFrame for every video of the set. *)
Discard(vs) ==
    [v \in Videos |-> IF v \in vs
                      THEN [video[v] EXCEPT !.pending = None, !.seen = "waiting"]
                      ELSE video[v]]

Bound == {v \in Videos : video[v].state # "unbound"}

Active(f) == {v \in Bound : MediaTime[v][f] # None}

(* The adapter command ends: the session leaves #busy with this state. *)
Answer(next, event) ==
    /\ session' = next
    /\ command' = None
    /\ step' = "idle"
    /\ Respond(command, event)

(* A worker of mapVideoWork that has not settled goes on by itself: only   *)
(* the outcomes are the command's, and end with it.                        *)
Finish(next, event) ==
    /\ Answer(next, event)
    /\ work' = [v \in Videos |-> IF work[v] \in {"queued", "running"} THEN work[v] ELSE "idle"]

FailedSession == [FreshSession EXCEPT !.kind = "failed"]

FailSession(event) == Finish(FailedSession, event)

-----------------------------------------------------------------------------
(* Dispatch *)

(* Which commands the session's state admits, in RuntimeSession.#load,     *)
(* #prepare, #seek, #confirm and #dispose.                                 *)
Admits(c) ==
    CASE c.type = "load"    -> session.kind = "empty" /\ c.plan.valid
      [] c.type = "prepare" -> session.kind = "loaded" /\ c.frame = session.plan.start
      [] c.type = "seek"    -> /\ session.kind = "ready"
                               /\ session.plan.start <= c.frame
                               /\ c.frame < session.plan.end
      [] c.type = "confirm" -> session.kind = "staged" /\ c.frame = session.frame
      [] c.type = "dispose" -> session.kind # "disposed"

(* A command is refused without touching any state. *)
Reject(c) ==
    /\ command # None \/ ~Admits(c)
    /\ Respond(c, "invalidRequest")
    /\ UNCHANGED <<session, command, step, presentation, staged, video, work,
                   decoded, onscreen, visible>>

Begin(c) ==
    /\ command = None
    /\ Admits(c)
    /\ command' = c
    /\ UNCHANGED reply

(* The first n videos are bound to empty controllers. *)
Bind(n) ==
    [v \in Videos |-> IF \E i \in 1..n : VideoOrder[i] = v
                      THEN [NoVideo EXCEPT !.state = "empty"] ELSE NoVideo]

(* Load binds structure and videos synchronously, then awaits extensions.  *)
(* A binding that throws first releases what was bound.                    *)
BeginLoad(c) ==
    /\ c.type = "load" /\ Begin(c)
    /\ LET bindable == IF c.plan.media = "decoded" THEN Len(VideoOrder) ELSE 0 IN
       \/ step' = "extensions" /\ video' = Bind(bindable)
       \/ step' = "release" /\ \E n \in 0..bindable : video' = Bind(n)
    /\ UNCHANGED <<session, presentation, staged, work, decoded, onscreen, visible>>

BeginPrepare(c) ==
    /\ c.type = "prepare" /\ Begin(c)
    /\ step' = "resources"
    /\ UNCHANGED <<session, presentation, staged, video, work, decoded, onscreen, visible>>

(* The adapter refuses before it touches its own state. *)
Refuse(c, event) ==
    /\ session' = FailedSession
    /\ Respond(c, event)
    /\ UNCHANGED <<command, step, work, visible>>

(* Seek hides every video before staging the active ones; the adapter      *)
(* never stages over an unconfirmed frame.                                 *)
BeginSeek(c) ==
    /\ c.type = "seek"
    /\ IF staged = None
       THEN /\ Begin(c)
            /\ step' = "videos"
            /\ visible' = {}
            /\ Queue(Active(c.frame))
            /\ UNCHANGED session
       ELSE command = None /\ Admits(c) /\ Refuse(c, "seekFailed")
    /\ UNCHANGED <<presentation, staged, video, decoded, onscreen>>

(* The adapter confirms only the frame it staged. *)
BeginConfirm(c) ==
    /\ c.type = "confirm"
    /\ IF staged = c.frame
       THEN /\ Begin(c)
            /\ step' = "videos"
            /\ Queue(Active(c.frame))
            /\ UNCHANGED <<session, visible>>
       ELSE command = None /\ Admits(c) /\ Refuse(c, "confirmFailed")
    /\ UNCHANGED <<presentation, staged, video, decoded, onscreen>>

(* Mutant: disposal forgets the staged frame. *)
BeginDisposeKeepsStaged(c) ==
    /\ c.type = "dispose"
    /\ command = None
    /\ Admits(c)
    /\ session' = [FreshSession EXCEPT !.kind = "disposed"]
    /\ IF presentation = "disposed"
       THEN Respond(c, "disposed") /\ UNCHANGED <<command, step, presentation>>
       ELSE /\ command' = c
            /\ step' = "release"
            /\ presentation' = "disposed"
            /\ UNCHANGED reply
    /\ UNCHANGED <<staged, video, work, decoded, onscreen, visible>>

(* Disposal is terminal before any cleanup runs.  An adapter that already  *)
(* disposed itself returns at once.                                        *)
BeginDispose(c) ==
    /\ c.type = "dispose"
    /\ command = None
    /\ Admits(c)
    /\ session' = [FreshSession EXCEPT !.kind = "disposed"]
    /\ IF presentation = "disposed"
       THEN /\ Respond(c, "disposed")
            /\ UNCHANGED <<command, step, staged, presentation>>
       ELSE /\ command' = c
            /\ step' = "release"
            /\ presentation' = "disposed"
            /\ staged' = None
            /\ UNCHANGED reply
    /\ UNCHANGED <<video, work, decoded, onscreen, visible>>

Dispatch(c) ==
    \/ Reject(c)
    \/ BeginLoad(c)
    \/ BeginPrepare(c)
    \/ BeginSeek(c)
    \/ BeginConfirm(c)
    \/ BeginDispose(c)

-----------------------------------------------------------------------------
(* Video work: mapVideoWork over DecodedVideo.load and DecodedVideo.stage *)

(* A worker takes the next input and sets the element's source. *)
StartLoad(v) ==
    /\ command # None /\ command.type = "load" /\ step = "videos"
    /\ NextInput(v) /\ HasWorker
    /\ work' = [work EXCEPT ![v] = "running"]
    /\ UNCHANGED <<session, command, step, presentation, staged, video, decoded, onscreen,
                   visible, reply>>

(* The load event, an error event or the readiness timeout.  A source that *)
(* cannot be released after a failure makes the controller terminal.       *)
SettleLoad(v) ==
    /\ command # None /\ command.type = "load" /\ work[v] = "running"
    /\ \/ /\ work' = [work EXCEPT ![v] = "done"]
          /\ video' = [video EXCEPT ![v].state = "loaded"]
       \/ /\ work' = [work EXCEPT ![v] = "failed"]
          /\ \E state \in {"empty", "disposed"} :
                video' = [video EXCEPT ![v].state = state]
    /\ UNCHANGED <<session, command, step, presentation, staged, decoded, onscreen, visible,
                   reply>>

(* DecodedVideo.stage up to its await: a source frame that was already     *)
(* presented needs no seek; otherwise the frame observer is registered     *)
(* before the element is asked to seek.  An earlier frame that is still    *)
(* pending, or an observer that cannot register, is an error.              *)
StartStage(v) ==
    /\ command # None /\ command.type = "seek" /\ step = "videos"
    /\ NextInput(v) /\ HasWorker
    /\ LET wanted == MediaTime[v][command.frame] IN
       IF video[v].presented = wanted
       THEN work' = [work EXCEPT ![v] = "done"] /\ UNCHANGED video
       ELSE \/ /\ video[v].pending = None
               /\ work' = [work EXCEPT ![v] = "running"]
               /\ video' = [video EXCEPT ![v].pending = wanted, ![v].seen = "waiting"]
            \/ work' = [work EXCEPT ![v] = "failed"] /\ UNCHANGED video
    /\ UNCHANGED <<session, command, step, presentation, staged, decoded, onscreen, visible,
                   reply>>

(* The element decodes the frame it was asked for: its callback may run    *)
(* from now on, before the seeked event does.                              *)
Decode(v) ==
    /\ command # None /\ command.type = "seek" /\ work[v] = "running"
    /\ decoded' = [decoded EXCEPT ![v] = MediaTime[v][command.frame]]
    /\ UNCHANGED <<session, command, step, presentation, staged, video, work, onscreen,
                   visible, reply>>

(* The seeked event finds the element at its frame; an error or the        *)
(* readiness timeout, which may come first, cancels the observer.          *)
SettleStage(v) ==
    /\ command # None /\ command.type = "seek" /\ work[v] = "running"
    /\ \/ /\ decoded[v] = MediaTime[v][command.frame]
          /\ work' = [work EXCEPT ![v] = "done"]
          /\ UNCHANGED video
       \/ /\ work' = [work EXCEPT ![v] = "failed"]
          /\ video' = Discard({v})
    /\ UNCHANGED <<session, command, step, presentation, staged, decoded, onscreen, visible,
                   reply>>

Observed(v) == video[v].pending # None /\ video[v].seen = "waiting"

(* Presenting this video now would show the frame it is observed for. *)
Presentable(v) == Observed(v) /\ decoded[v] = video[v].pending

(* Mutant: the callback takes any frame for the one it waits for.          *)
PresentAny(v) ==
    /\ Observed(v)
    /\ video' = [video EXCEPT ![v].seen = "presented"]
    /\ onscreen' = [onscreen EXCEPT ![v] = decoded[v]]
    /\ UNCHANGED <<session, command, step, presentation, staged, work, decoded, visible, reply>>

(* The compositor presents what the element stands at and runs the         *)
(* registered callback, which settles the observation only for the wanted  *)
(* frame and registers itself again after an earlier one.                  *)
Present(v) ==
    /\ Observed(v)
    /\ video' = [video EXCEPT ![v].seen = IF Presentable(v) THEN "presented" ELSE "waiting"]
    /\ onscreen' = [onscreen EXCEPT ![v] = decoded[v]]
    /\ UNCHANGED <<session, command, step, presentation, staged, work, decoded,
                   visible, reply>>

(* The element reports an error, or the callback cannot be re-registered. *)
ObservationFails(v) ==
    /\ Observed(v)
    /\ video' = [video EXCEPT ![v].seen = "failed"]
    /\ UNCHANGED <<session, command, step, presentation, staged, work, decoded, onscreen,
                   visible, reply>>

(* DecodedVideo.confirm, for one staged video after another: skip a frame  *)
(* already presented, else await the observation against the deadline; the *)
(* observer is cancelled either way.                                       *)
ConfirmVideo(v) ==
    /\ command # None /\ command.type = "confirm" /\ step = "videos"
    /\ NextInput(v) /\ ~Failed
    /\ LET wanted == MediaTime[v][command.frame] IN
       CASE video[v].presented = wanted ->
               work' = [work EXCEPT ![v] = "done"] /\ UNCHANGED video
         [] video[v].presented # wanted /\ video[v].pending = wanted ->
               IF video[v].seen = "presented"
               THEN /\ work' = [work EXCEPT ![v] = "done"]
                    /\ video' = [video EXCEPT ![v].pending = None, ![v].seen = "waiting",
                                              ![v].presented = wanted]
               ELSE /\ work' = [work EXCEPT ![v] = "failed"]
                    /\ video' = Discard({v})
         [] OTHER -> work' = [work EXCEPT ![v] = "failed"] /\ UNCHANGED video
    /\ UNCHANGED <<session, command, step, presentation, staged, decoded, onscreen, visible,
                   reply>>

-----------------------------------------------------------------------------
(* Continuations of the adapter's awaits *)

(* bindExtensions and the validation of what it returned. *)
ExtensionsSettle ==
    /\ step = "extensions"
    /\ \/ step' = "videos" /\ Queue(Bound)
       \/ step' = "release" /\ UNCHANGED work
    /\ UNCHANGED <<session, command, presentation, staged, video, decoded, onscreen, visible,
                   reply>>

LoadCompletes ==
    /\ command # None /\ command.type = "load" /\ step = "videos" /\ Settled
    /\ IF Failed
       THEN /\ step' = "release"
            /\ UNCHANGED <<session, command, presentation, work, reply>>
       ELSE /\ presentation' = "loaded"
            /\ Finish([kind |-> "loaded", plan |-> command.plan, frame |-> None],
                      "loaded")
    /\ UNCHANGED <<staged, video, decoded, onscreen, visible>>

(* preparePresentationResources under its deadline, then the media layout. *)
(* A layout the response codec rejects fails the session but not the       *)
(* adapter, which has finished preparing.                                  *)
PrepareCompletes ==
    /\ step = "resources"
    /\ \/ /\ Finish([session EXCEPT !.kind = "ready"], "prepared")
          /\ UNCHANGED presentation
       \/ /\ FailSession("prepareFailed")
          /\ presentation' = "failed"
       \/ /\ session.plan.media = "layoutOnly"
          /\ FailSession("prepareFailed")
          /\ UNCHANGED presentation
    /\ UNCHANGED <<staged, video, decoded, onscreen, visible>>

(* Mutant: the barrier is lost.  The first failure ends the seek, while    *)
(* the other workers go on to register their observers.                    *)
StagingFailsAtOnce ==
    /\ command # None /\ command.type = "seek" /\ step = "videos" /\ (Settled \/ Failed)
    /\ IF Failed
       THEN /\ video' = Discard(Videos)
            /\ presentation' = "failed"
            /\ FailSession("seekFailed")
            /\ UNCHANGED visible
       ELSE /\ visible' = Active(command.frame)
            /\ step' = "effects"
            /\ UNCHANGED <<session, command, presentation, video, work, reply>>
    /\ UNCHANGED <<staged, decoded, onscreen>>

(* Mutant: a seek that fails leaves the observers of its videos registered. *)
StagingKeepsObservers ==
    /\ command # None /\ command.type = "seek" /\ step = "videos" /\ Settled
    /\ IF Failed
       THEN /\ presentation' = "failed"
            /\ FailSession("seekFailed")
            /\ UNCHANGED <<video, visible>>
       ELSE /\ visible' = Active(command.frame)
            /\ step' = "effects"
            /\ UNCHANGED <<session, command, presentation, video, work, reply>>
    /\ UNCHANGED <<staged, decoded, onscreen>>

(* stageVideos ends: the barrier has seen every worker settle, so a failure *)
(* discards every observer; success makes the staged videos visible and     *)
(* awaits the author's frame effects.                                       *)
StagingCompletes ==
    /\ command # None /\ command.type = "seek" /\ step = "videos" /\ Settled
    /\ IF Failed
       THEN /\ video' = Discard(Videos)
            /\ presentation' = "failed"
            /\ FailSession("seekFailed")
            /\ UNCHANGED visible
       ELSE /\ visible' = Active(command.frame)
            /\ step' = "effects"
            /\ UNCHANGED <<session, command, presentation, video, work, reply>>
    /\ UNCHANGED <<staged, decoded, onscreen>>

EffectsSettle ==
    /\ step = "effects"
    /\ \/ /\ staged' = command.frame
          /\ Finish([session EXCEPT !.kind = "staged", !.frame = command.frame],
                    "frameStaged")
          /\ UNCHANGED <<presentation, video>>
       \/ /\ video' = Discard(Videos)
          /\ presentation' = "failed"
          /\ FailSession("seekFailed")
          /\ UNCHANGED staged
    /\ UNCHANGED <<decoded, onscreen, visible>>

(* confirmVideos ends, and inspectPresentation measures the page; findings *)
(* the response codec rejects fail the session but not the adapter.  It    *)
(* awaits one video after another: those after one that failed are never   *)
(* begun.                                                                  *)
ConfirmCompletes ==
    /\ command # None /\ command.type = "confirm" /\ step = "videos"
    /\ Settled \/ Failed
    /\ staged' = None
    /\ work' = Idle
    /\ \/ /\ ~Failed
          /\ Answer([session EXCEPT !.kind = "ready", !.frame = None], "frameReady")
          /\ UNCHANGED presentation
       \/ /\ ~Failed
          /\ Answer(FailedSession, "confirmFailed")
          /\ UNCHANGED presentation
       \/ /\ Answer(FailedSession, "confirmFailed")
          /\ presentation' = "failed"
    /\ UNCHANGED <<video, decoded, onscreen, visible>>

(* Mutant: disposal leaves videos visible. *)
ReleaseLeavesVisible ==
    /\ step = "release"
    /\ video' = [v \in Videos |->
                   IF v \in Bound THEN [NoVideo EXCEPT !.state = "disposed"] ELSE NoVideo]
    /\ presentation' = "disposed"
    /\ IF command.type = "load"
       THEN FailSession("loadFailed")
       ELSE \E event \in {"disposed", "internal"} : Finish(session, event)
    /\ UNCHANGED <<staged, decoded, onscreen, visible>>

(* releasePresentation: once the author's effects and resources have been  *)
(* disposed of, every controller is disposed synchronously.  Disposal may  *)
(* report an error, but no resource is left behind.                        *)
ReleaseCompletes ==
    /\ step = "release"
    /\ video' = [v \in Videos |->
                   IF v \in Bound THEN [NoVideo EXCEPT !.state = "disposed"] ELSE NoVideo]
    /\ visible' = {}
    /\ presentation' = "disposed"
    /\ IF command.type = "load"
       THEN FailSession("loadFailed")
       ELSE \E event \in {"disposed", "internal"} : Finish(session, event)
    /\ UNCHANGED <<staged, decoded, onscreen>>

-----------------------------------------------------------------------------
VideoSettles(v) == SettleLoad(v) \/ Decode(v) \/ SettleStage(v)

VideoStarts(v) == StartLoad(v) \/ StartStage(v)

(* Steps the browser or a readiness timer bounds. *)
BoundedStep ==
    \/ \E v \in Videos : VideoStarts(v) \/ VideoSettles(v) \/ ConfirmVideo(v)
    \/ LoadCompletes
    \/ PrepareCompletes
    \/ StagingCompletes
    \/ ConfirmCompletes

(* Steps that wait for the presentation's author. *)
AuthorStep == ExtensionsSettle \/ EffectsSettle \/ ReleaseCompletes

Compositing == \E v \in Videos : Present(v) \/ ObservationFails(v)

RuntimeStep == BoundedStep \/ AuthorStep

Next ==
    \/ \E c \in Commands : Dispatch(c)
    \/ RuntimeStep
    \/ Compositing

RuntimeSpec ==
    /\ RuntimeInit
    /\ [][Next]_runtimeVars
    /\ WF_runtimeVars(BoundedStep)
-----------------------------------------------------------------------------
(* Properties *)

(* Every variable keeps its type; a step belongs to the command it serves. *)
TypeOK ==
    /\ session \in SessionType
    /\ command \in Commands \cup {None}
    /\ step \in {"idle", "extensions", "resources", "videos", "effects", "release"}
    /\ presentation \in {"empty", "loaded", "failed", "disposed"}
    /\ staged \in Frames \cup {None}
    /\ video \in [Videos -> VideoType]
    /\ work \in [Videos -> {"idle", "queued", "running", "done", "failed"}]
    /\ decoded \in [Videos -> SourceTimes \cup {None}]
    /\ onscreen \in [Videos -> SourceTimes \cup {None}]
    /\ visible \subseteq Videos
    /\ reply \in [event : Events, frame : Frames \cup {None}]

(* Between commands the session and its adapter, which keep separate state *)
(* machines, never disagree: the adapter has staged exactly the frame the  *)
(* session will let the client confirm, and an adapter that failed or      *)
(* disposed itself is only ever behind a terminal session.                 *)
LifecycleAgreement ==
    command = None =>
        /\ session.kind = "empty" => presentation = "empty"
        /\ session.kind \in {"loaded", "ready", "staged"} => presentation = "loaded"
        /\ session.kind = "disposed" => presentation = "disposed"
        /\ staged = IF session.kind = "staged" THEN session.frame ELSE None

(* A video on its frame whose confirmation failed: nothing observes it any *)
(* more, and what it stands at was never reported presented.               *)
Unconfirmed(v) ==
    /\ v \in visible
    /\ video[v].pending = None
    /\ video[v].presented # decoded[v]

(* No media operation outlives the command that started it: when a seek    *)
(* fails with videos of its batch still to come, the barrier waits for     *)
(* them and every observer is discarded.  Between commands an observer is  *)
(* registered only for the frame that is staged, or, until disposal, for   *)
(* a video that a confirmation did not come to because another's failed.   *)
NothingOutlivesItsCommand ==
    command = None =>
        /\ \A v \in Videos : work[v] = "idle"
        /\ \A v \in Videos : video[v].pending # None =>
              \/ session.kind = "staged"
              \/ session.kind = "failed" /\ \E u \in Videos : Unconfirmed(u)

(* A frame is reported ready only when every video shown at it stands at   *)
(* that frame's source frame and the compositor shows it, in whatever      *)
(* order callbacks and seeked events came, and however earlier seeks ended. *)
FrameReadyIsExact ==
    reply.event = "frameReady" /\ session.kind = "ready" /\ command = None =>
        \A v \in Active(reply.frame) :
            /\ video[v].presented = MediaTime[v][reply.frame]
            /\ decoded[v] = MediaTime[v][reply.frame]
            /\ onscreen[v] = MediaTime[v][reply.frame]
            /\ v \in visible

(* Once the session reports disposal finished, no video holds a source,    *)
(* an observer or a visible element.                                       *)
DisposalReleasesEverything ==
    session.kind = "disposed" /\ command = None =>
        /\ visible = {}
        /\ \A v \in Videos : video[v].state \in {"unbound", "disposed"}

(* A disposed controller never returns to life, a failed session only goes *)
(* on to disposal, and a disposed session never changes again.             *)
TerminalStatesAreFinal ==
    [][/\ \A v \in Videos : video[v].state = "disposed" => video'[v].state = "disposed"
       /\ session.kind = "failed" => session'.kind \in {"failed", "disposed"}
       /\ session.kind = "disposed" => session' = session]_runtimeVars

(* The batch of video work of a load, a seek or a confirmation always ends, *)
(* because each of its waits has a deadline.                                *)
VideoWorkEnds == (step = "videos") ~> (step # "videos")
=============================================================================
