--------------------------- MODULE CaptureSession ---------------------------
(***************************************************************************)
(* The native half of the capture protocol composed with the browser half: *)
(* crates/render/src/executor/capture.rs drives one Chromium target        *)
(* through a sequence of units, sends the RuntimeSession of each page its  *)
(* commands, and between a frame's `seek` and `confirm` steps Chromium's   *)
(* compositor (browser/session.rs, browser/compositor.rs) for the picture. *)
(*                                                                         *)
(* Chromium's compositor is modelled by the contract the code relies on:   *)
(* a picture is made only at a turn; a layer that a placement boundary     *)
(* introduces may be missing at the first turn after it, and its media may *)
(* lag for one turn more; a screenshot without damage may be omitted.      *)
(***************************************************************************)
EXTENDS RuntimeSession

CONSTANT Jobs   \* what a browser session can be asked to capture:
                \* a sequence of units, in a BrowserCaptureMode

(* A unit evaluates plan.start..plan.end-1 and publishes from..to-1.       *)
(* `boundaries` are the placement boundaries, `look` is the DOM's          *)
(* appearance at each frame, `preflight` a media-layout preflight.         *)
UnitType ==
    [plan : Plans, from : Int, to : Int, cadence : {"everyFrame", "placementBounded"},
     boundaries : SUBSET Frames, look : [Frames -> Nat], preflight : BOOLEAN]

(* The plan a pass loads: a preflight asks for the media layout only.      *)
PlanOf(unit, pass) == IF pass = "layout" THEN [unit.plan EXCEPT !.media = "layoutOnly"] ELSE unit.plan

(* What the film shows at a frame of a unit. *)
Shows(unit, f) ==
    [dom   |-> unit.look[f],
     media |-> [v \in Videos |-> IF unit.plan.media = "decoded" THEN MediaTime[v][f] ELSE None]]

(* Placement boundaries separate whatever changes the set of layers, and a *)
(* placement-bounded unit looks the same between two of them.              *)
Separates(unit, f) ==
    f \in unit.boundaries \/
        /\ unit.plan.media = "decoded" =>
              \A v \in Videos : MediaTime[v][f] = None <=> MediaTime[v][f - 1] = None
        /\ unit.cadence = "placementBounded" => Shows(unit, f) = Shows(unit, f - 1)

ASSUME CaptureAssumption ==
    \A job \in Jobs :
        /\ job.mode \in {"beginFrame", "screenshot"}
        /\ job.units \in Seq(UnitType) /\ job.units # <<>>
        /\ \A u \in DOMAIN job.units :
              LET unit == job.units[u] IN
              /\ unit.plan.start <= unit.from
              /\ unit.from < unit.to
              /\ unit.to <= unit.plan.end
              /\ unit.plan.start .. unit.plan.end - 1 \subseteq Frames
              /\ unit.plan.valid /\ unit.plan.media # "layoutOnly"
              /\ unit.preflight => PlanOf(unit, "layout") \in Plans
              /\ \A f \in unit.from + 1 .. unit.to - 1 : Separates(unit, f)

ASSUME NoAnswerAssumption == None \notin [event : Events, frame : Frames \cup {None}]

VARIABLES
    native,       \* the session's job, and where render_session stands
    awaiting,     \* the command whose response is awaited, or None
    answer,       \* the response, or None
    lastCapture,  \* BrowserSession.last_capture
    shot,         \* the frame's capture so far
    previous,     \* the unit's previous frame, for reuse
    clock,        \* CompositorClock
    written,      \* frames handed to the sink
    screen,       \* the compositor's last picture
    copied,       \* its last screenshot
    shown,        \* the frame the page shows
    age           \* turns since the layers last changed, at most 2

browserVars == <<screen, copied, shown, age>>
nativeVars == <<native, awaiting, answer, lastCapture, shot, previous, clock, written>>
vars == <<runtimeVars, nativeVars, browserVars>>

Phases ==
    {"navigate", "load", "prepare", "initialize", "frame", "seek", "commit", "capture",
     "retry", "confirm", "recapture", "write", "dispose", "shutdown", "done", "failed"}

Units == native.job.units
Mode == native.job.mode
Unit == Units[native.unit]

(* The command a native phase sends, and the response it accepts. *)
Request ==
    CASE native.phase = "load"    -> LoadCommand(PlanOf(Unit, native.pass))
      [] native.phase = "prepare" -> FrameCommand("prepare", Unit.plan.start)
      [] native.phase = "seek"    -> FrameCommand("seek", native.frame)
      [] native.phase = "confirm" -> FrameCommand("confirm", native.frame)
      [] native.phase = "dispose" -> DisposeCommand

Accepted ==
    CASE native.phase = "load"    -> "loaded"
      [] native.phase = "prepare" -> "prepared"
      [] native.phase = "seek"    -> "frameStaged"
      [] native.phase = "confirm" -> "frameReady"
      [] native.phase = "dispose" -> "disposed"

FirstPass(unit) == IF unit.preflight THEN "layout" ELSE "capture"

Goto(phase) == native' = [native EXCEPT !.phase = phase]

(* Once the page has been navigated, an error still disposes its runtime.  *)
Error ==
    native' = [native EXCEPT !.failed = TRUE,
                             !.phase = IF @ \in {"navigate", "dispose"} THEN "shutdown" ELSE "dispose"]

(* plan_frame_capture *)
Placement == native.frame \in Unit.boundaries

CaptureReason ==
    IF Placement THEN "placement" ELSE IF previous = None THEN "initial" ELSE "stable"

Reuses ==
    /\ Unit.cadence = "placementBounded"
    /\ ~Placement
    /\ previous # None

-----------------------------------------------------------------------------
(* Compositor transactions, in microseconds *)

SurfaceTime == 1000
BaseTime    == 1000000
Step        == 1000
Offset      == 1

(* A turn at this offset from the active transaction's capture time; `turn`*)
(* keeps the time of the turn before it as well.                           *)
Tick(offset) == clock' = [clock EXCEPT !.turn = <<@[2], clock.active.time + offset>>]

(* CompositorClock::begin, with the transaction's first turn. *)
BeginTransaction(offset) ==
    clock' = [clock EXCEPT !.active = [frame |-> native.frame, time |-> clock.next],
                           !.next = @ + Step,
                           !.turn = <<@[2], clock.next + offset>>]

(* Mutant: every page starts at the fixed pre-baseline time. *)
InitializeClockAnew ==
    clock' = [clock EXCEPT !.initialized = TRUE, !.turn = <<@[2], SurfaceTime>>]

(* CompositorClock::initialize: a reused target never rewinds its clock.   *)
InitializeClock ==
    clock' = [clock EXCEPT !.initialized = TRUE,
                           !.turn = <<@[2], IF clock.initialized THEN clock.next - Step \div 2
                                                                 ELSE SurfaceTime>>]

Blank == [dom |-> 0, media |-> [v \in Videos |-> None]]

(* What a turn that presents the videos vs may put on the screen.          *)
Composed(vs) ==
    LET now(v) == IF v \notin visible THEN None
                  ELSE IF v \in vs THEN decoded[v] ELSE onscreen[v]
        dom    == IF shown = None THEN 0 ELSE Unit.look[shown]
    IN  {pic \in [dom   : IF age = 0 THEN {screen.dom, dom} ELSE {dom},
                  media : [Videos -> SourceTimes \cup {None}]] :
            \A v \in Videos : pic.media[v] \in IF age < 2 THEN {screen.media[v], now(v)}
                                                          ELSE {now(v)}}

(* A compositor turn presents some of the frames that are due and runs     *)
(* their callbacks in the page.                                            *)
Turn ==
    \E vs \in SUBSET {v \in Videos : Presentable(v)} :
        /\ video' = [v \in Videos |-> IF v \in vs THEN [video[v] EXCEPT !.seen = "presented"]
                                                  ELSE video[v]]
        /\ onscreen' = [v \in Videos |-> IF v \in vs THEN decoded[v] ELSE onscreen[v]]
        /\ screen' \in Composed(vs)
        /\ age' = IF age < 2 THEN age + 1 ELSE 2
        /\ UNCHANGED <<session, command, step, presentation, staged, work, decoded,
                       visible, reply, shown>>

(* A screenshot is returned unless nothing changed since the last one, in  *)
(* which case it may be.                                                   *)
Returned == copied' = screen' /\ lastCapture' = screen' /\ shot' = screen'
Omitted  == screen' = copied /\ UNCHANGED <<copied, lastCapture>>

-----------------------------------------------------------------------------
Init ==
    /\ RuntimeInit
    /\ \E job \in Jobs :
          native = [job |-> job, phase |-> "navigate", pass |-> FirstPass(job.units[1]),
                    unit |-> 1, frame |-> job.units[1].from, failed |-> FALSE]
    /\ awaiting = None
    /\ answer = None
    /\ lastCapture = None
    /\ shot = None
    /\ previous = None
    /\ clock = [initialized |-> FALSE, next |-> BaseTime, active |-> None, turn |-> <<-1, 0>>]
    /\ written = <<>>
    /\ screen = Blank
    /\ copied = None
    /\ shown = None
    /\ age = 0

(* BrowserSession::navigate replaces the page and forgets the last capture *)
(* of the preceding unit.                                                  *)
Navigate ==
    /\ native.phase = "navigate"
    /\ lastCapture' = None
    /\ previous' = None
    /\ \/ /\ Goto("load")
          /\ session' = FreshSession /\ command' = None /\ step' = "idle"
          /\ presentation' = "empty" /\ staged' = None
          /\ video' = [v \in Videos |-> NoVideo] /\ work' = Idle
          /\ decoded' = [v \in Videos |-> None] /\ visible' = {}
          /\ onscreen' = [v \in Videos |-> None]
          /\ shown' = None /\ age' = 0
          /\ UNCHANGED reply
       \/ Error /\ UNCHANGED <<runtimeVars, shown, age>>
    /\ UNCHANGED <<awaiting, answer, shot, clock, written, screen, copied>>

(* BrowserSession::dispatch sends one request; the runtime refuses it at   *)
(* once or begins to execute it.                                           *)
Send ==
    /\ native.phase \in {"load", "prepare", "seek", "confirm", "dispose"}
    /\ awaiting = None
    /\ Dispatch(Request)
    /\ awaiting' = Request
    /\ answer' = IF command = None /\ command' # None THEN None ELSE reply'
    /\ UNCHANGED <<native, lastCapture, shot, previous, clock, written, browserVars>>

(* Mutant: the picture is not reconciled after confirmation. *)
SuccessorWithoutRecapture ==
    CASE native.phase = "load"    -> [native EXCEPT !.phase = "prepare"]
      [] native.phase = "prepare" -> [native EXCEPT !.phase = IF native.pass = "layout"
                                                              THEN "dispose" ELSE "initialize"]
      [] native.phase = "seek"    -> [native EXCEPT !.phase = IF CaptureReason = "stable"
                                                              THEN "capture" ELSE "commit"]
      [] native.phase = "confirm" -> [native EXCEPT !.phase = "write"]
      [] OTHER                    -> [native EXCEPT !.phase = "shutdown"]

(* The response settles the phase: any event but the expected one fails.   *)
Successor ==
    CASE native.phase = "load"    -> [native EXCEPT !.phase = "prepare"]
      [] native.phase = "prepare" -> [native EXCEPT !.phase = IF native.pass = "layout"
                                                              THEN "dispose" ELSE "initialize"]
      [] native.phase = "seek"    -> [native EXCEPT !.phase =
                                        IF CaptureReason = "stable" \/ Mode = "screenshot"
                                        THEN "capture" ELSE "commit"]
      [] native.phase = "confirm" -> [native EXCEPT !.phase = IF CaptureReason = "stable"
                                                              THEN "write" ELSE "recapture"]
      [] native.phase = "dispose" ->
            IF native.failed
            THEN [native EXCEPT !.phase = "shutdown"]
            ELSE IF native.pass = "layout"
            THEN [native EXCEPT !.phase = "navigate", !.pass = "capture"]
            ELSE IF native.unit = Len(Units)
            THEN [native EXCEPT !.phase = "shutdown"]
            ELSE [native EXCEPT !.phase = "navigate", !.unit = @ + 1,
                                !.pass = FirstPass(Units[native.unit + 1]),
                                !.frame = Units[native.unit + 1].from]

Receive ==
    /\ awaiting # None /\ answer # None
    /\ IF answer = [event |-> Accepted, frame |-> EventFrame(awaiting)]
       THEN native' = Successor
       ELSE Error
    /\ awaiting' = None
    /\ answer' = None
    /\ UNCHANGED <<lastCapture, shot, previous, clock, written, runtimeVars, browserVars>>

(* The request's deadline passes; the page goes on with it unobserved.     *)
GiveUp ==
    /\ awaiting # None
    /\ Error
    /\ awaiting' = None
    /\ answer' = None
    /\ UNCHANGED <<lastCapture, shot, previous, clock, written, runtimeVars, browserVars>>

InitializeSurface ==
    /\ native.phase = "initialize"
    /\ Goto("frame")
    /\ IF Mode = "beginFrame"
       THEN /\ Turn
            /\ InitializeClock
       ELSE UNCHANGED <<runtimeVars, clock, screen, shown, age>>
    /\ UNCHANGED <<awaiting, answer, lastCapture, shot, previous, written, copied>>

(* Mutant: the next unit is navigated to without disposing of this one.    *)
ChooseFrameWithoutDisposal ==
    /\ native.phase = "frame"
    /\ native' = IF native.frame < Unit.to
                 THEN [native EXCEPT !.phase = "seek"]
                 ELSE IF native.unit < Len(Units)
                 THEN [native EXCEPT !.phase = "navigate", !.unit = @ + 1,
                                     !.frame = Units[native.unit + 1].from]
                 ELSE [native EXCEPT !.phase = "dispose"]
    /\ UNCHANGED <<awaiting, answer, lastCapture, shot, previous, clock, written, runtimeVars,
                   browserVars>>

(* The head of the loop of render_frames. *)
ChooseFrame ==
    /\ native.phase = "frame"
    /\ Goto(IF native.frame = Unit.to THEN "dispose" ELSE IF Reuses THEN "write" ELSE "seek")
    /\ shot' = IF Reuses THEN previous ELSE shot
    /\ UNCHANGED <<awaiting, answer, lastCapture, previous, clock, written, runtimeVars,
                   browserVars>>

(* A changed surface is committed before it is captured. *)
CommitSurface ==
    /\ native.phase = "commit"
    /\ Turn
    /\ BeginTransaction(-Offset)
    /\ Goto("capture")
    /\ UNCHANGED <<awaiting, answer, lastCapture, shot, previous, written, copied>>

(* The capture turn.  Without damage a stable frame is the one before it;  *)
(* a changed surface gets one more turn.                                   *)
Capture ==
    /\ native.phase = "capture" /\ Mode = "beginFrame"
    /\ Turn
    /\ IF CaptureReason = "stable"
       THEN BeginTransaction(0)
       ELSE Tick(0)
    /\ \/ Returned /\ Goto("confirm")
       \/ /\ Omitted
          /\ IF CaptureReason = "stable" /\ lastCapture # None
             THEN shot' = lastCapture /\ Goto("confirm")
             ELSE Goto("retry") /\ UNCHANGED shot
    /\ UNCHANGED <<awaiting, answer, previous, written>>

RetryCapture ==
    /\ native.phase = "retry"
    /\ Turn
    /\ Tick(Offset)
    /\ \/ Returned /\ Goto("confirm")
       \/ Omitted /\ Error /\ UNCHANGED shot
    /\ UNCHANGED <<awaiting, answer, previous, written>>

(* recapture_png_after_confirmation reconciles a changed surface. *)
Recapture ==
    /\ native.phase = "recapture" /\ Mode = "beginFrame"
    /\ clock.active.frame = native.frame
    /\ Turn
    /\ Tick(2 * Offset)
    /\ \/ Returned /\ Goto("write")
       \/ Omitted /\ (IF lastCapture # None THEN shot' = lastCapture /\ Goto("write")
                                            ELSE Error /\ UNCHANGED shot)
    /\ UNCHANGED <<awaiting, answer, previous, written>>

(* Page.captureScreenshot waits for a current picture and always returns it.*)
TakeScreenshot ==
    /\ native.phase \in {"capture", "recapture"} /\ Mode = "screenshot"
    /\ screen' = [dom   |-> IF shown = None THEN 0 ELSE Unit.look[shown],
                  media |-> [v \in Videos |-> IF v \in visible THEN onscreen[v] ELSE None]]
    /\ Returned
    /\ Goto(IF native.phase = "capture" THEN "confirm" ELSE "write")
    /\ UNCHANGED <<awaiting, answer, previous, clock, written, runtimeVars, shown, age>>

Write ==
    /\ native.phase = "write"
    /\ written' = Append(written, [unit |-> native.unit, frame |-> native.frame, picture |-> shot])
    /\ previous' = shot
    /\ native' = [native EXCEPT !.phase = "frame", !.frame = @ + 1]
    /\ UNCHANGED <<awaiting, answer, lastCapture, shot, clock, runtimeVars, browserVars>>

(* A browser command or the sink fails, or a screenshot exceeds its limit. *)
StepFails ==
    /\ native.phase \in Phases \ {"navigate", "frame", "shutdown", "done", "failed"}
    /\ awaiting = None
    /\ Error
    /\ UNCHANGED <<awaiting, answer, lastCapture, shot, previous, clock, written, runtimeVars,
                   browserVars>>

(* FrameCaptureSession::finish closes Chromium whatever happened before.   *)
Shutdown ==
    /\ native.phase = "shutdown"
    /\ \/ ~native.failed /\ Goto("done")
       \/ Goto("failed")
    /\ UNCHANGED <<awaiting, answer, lastCapture, shot, previous, clock, written, runtimeVars,
                   browserVars>>

NativeStep ==
    \/ Navigate
    \/ Send
    \/ Receive
    \/ GiveUp
    \/ InitializeSurface
    \/ ChooseFrame
    \/ CommitSurface
    \/ Capture
    \/ RetryCapture
    \/ Recapture
    \/ TakeScreenshot
    \/ Write
    \/ StepFails
    \/ Shutdown

(* The page works on its command; its response answers the native side     *)
(* only while that still waits for it.                                     *)
Segment(f) == Cardinality({b \in Unit.boundaries : b <= f})

PageStep ==
    /\ \/ RuntimeStep
       \/ \E v \in Videos : ObservationFails(v)
    /\ answer' = IF command # None /\ command' = None /\ awaiting = command THEN reply' ELSE answer
    /\ IF staged' # None /\ staged' # staged
       THEN /\ shown' = staged'
            /\ age' = IF shown = None \/ Segment(shown) # Segment(staged') THEN 0 ELSE age
       ELSE UNCHANGED <<shown, age>>
    /\ UNCHANGED <<native, awaiting, lastCapture, shot, previous, clock, written, screen,
                   copied>>

(* Outside BeginFrame control Chromium presents media whenever it likes.   *)
FreeTurn(v) ==
    /\ Mode = "screenshot"
    /\ Present(v)
    /\ UNCHANGED <<nativeVars, screen, copied, shown, age>>

Finished == native.phase \in {"done", "failed"}

Stop == Finished /\ UNCHANGED vars

CaptureNext ==
    \/ NativeStep
    \/ ~Finished /\ (PageStep \/ \E v \in Videos : FreeTurn(v))
    \/ Stop

(* Every native wait has a deadline; the page owes nothing. *)
Spec == Init /\ [][CaptureNext]_vars /\ WF_vars(NativeStep)
-----------------------------------------------------------------------------
(* Properties *)

PictureType == [dom : Nat, media : [Videos -> SourceTimes \cup {None}]]

(* Every variable of the native side and of the compositor keeps its type. *)
CaptureTypeOK ==
    /\ native.phase \in Phases
    /\ native.unit \in DOMAIN Units
    /\ native.frame \in Unit.from .. Unit.to
    /\ lastCapture \in PictureType \cup {None}
    /\ shot \in PictureType \cup {None}
    /\ previous \in PictureType \cup {None}
    /\ screen \in PictureType
    /\ copied \in PictureType \cup {None}
    /\ shown \in Frames \cup {None}
    /\ age \in 0..2

(* The frames a unit publishes, and the film they make up. *)
FramesOf(units, u) ==
    [i \in 1 .. units[u].to - units[u].from |->
        LET f == units[u].from + i - 1 IN
        [unit |-> u, frame |-> f, picture |-> Shows(units[u], f)]]

FilmUpTo(units) ==
    LET upTo[n \in 0 .. Len(units)] == IF n = 0 THEN <<>> ELSE upTo[n - 1] \o FramesOf(units, n)
    IN  upTo

Status == IF Finished THEN native.phase ELSE "running"

Promise == INSTANCE FrameStream WITH
    film <- FilmUpTo(Units)[Len(Units)], stream <- written, status <- Status

(* Capture delivers the film: whatever the compositor lags behind or       *)
(* leaves out, each frame written is the next one of the film with exactly *)
(* the picture the film shows at it, success means that all of them were   *)
(* written, and the session always ends.                                   *)
DeliversTheFilm == Promise!Spec

(* Chromium's compositor time never stands still or runs backwards, within *)
(* a transaction, across transactions and across navigations.              *)
TicksAdvance == clock.turn[1] < clock.turn[2]

(* No unit's page is replaced before its runtime has released everything.  *)
PagesAreDisposed ==
    [][(native.phase = "navigate" /\ native'.phase = "load" /\ session.kind # "empty")
          => session.kind = "disposed" /\ command = None]_vars
=============================================================================
