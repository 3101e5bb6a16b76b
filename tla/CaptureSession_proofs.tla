----------------------- MODULE CaptureSession_proofs -----------------------
(***************************************************************************)
(* The page, and the capture session that drives it.                       *)
(*                                                                         *)
(* First, what the browser session of RuntimeSession guarantees for every  *)
(* plan, every set of videos and any number of workers: its state machine  *)
(* agrees with its adapter's, terminal states are final, a frame is        *)
(* reported ready only when it is exact, and neither a command nor the     *)
(* session leaves anything behind.                                         *)
(*                                                                         *)
(* Then, for any jobs, units, plans and videos, whatever the compositor    *)
(* lags behind or leaves out, and whatever fails or is abandoned: capture  *)
(* writes the film.                                                        *)
(*                                                                         *)
(* CInv relates the two halves and the compositor between them: the        *)
(* invariant of the page (RInv, which also survives turns and navigations),*)
(* where the native side stands (NativeShape, Begins), what it awaits of   *)
(* the page (Waits, PageAt), Chromium's clock (Ticks), what the screen     *)
(* shows (ScreenType), which frame the page shows (Showing) and how far    *)
(* the compositor has caught up with it (Settles).  Pictures and Sofar add *)
(* what the pictures show and what was written.                            *)
(***************************************************************************)
EXTENDS CaptureSession, WellFoundedInduction, NaturalsInduction, TLAPS

(* The await a command is suspended at is one of its own. *)
Serving ==
    /\ command = None <=> step = "idle"
    /\ step = "extensions" => command.type = "load"
    /\ step = "resources" => command.type = "prepare"
    /\ step = "videos" => command.type \in {"load", "seek", "confirm"}
    /\ step = "effects" => command.type = "seek"
    /\ step = "release" => command.type \in {"load", "dispose"}

(* What session and adapter agree on while a command executes. *)
Executing ==
    command # None =>
        CASE command.type = "load"    -> /\ session.kind = "empty" /\ presentation = "empty"
                                         /\ staged = None
          [] command.type = "prepare" -> /\ session.kind = "loaded" /\ presentation = "loaded"
                                         /\ staged = None
          [] command.type = "seek"    -> /\ session.kind = "ready" /\ presentation = "loaded"
                                         /\ staged = None
          [] command.type = "confirm" -> /\ session.kind = "staged" /\ presentation = "loaded"
                                         /\ staged = session.frame
          [] command.type = "dispose" -> /\ session.kind = "disposed"
                                         /\ presentation = "disposed" /\ staged = None

(* A failed session executes nothing. *)
FailedRests == session.kind = "failed" => command = None

LInv == TypeOK /\ Serving /\ Executing /\ FailedRests /\ LifecycleAgreement

-----------------------------------------------------------------------------
(* The shape of each command. *)
LEMMA CommandShape ==
    \A c \in Commands :
        /\ c # None
        /\ c.type \in {"load", "prepare", "seek", "confirm", "dispose"}
        /\ c.type = "load" => c.plan \in Plans
        /\ c.type \in {"prepare", "seek", "confirm"} => c.frame \in Frames
BY NoCommandAssumption DEF Commands, LoadCommand, FrameCommand, DisposeCommand

(* The event of a command names a frame of the film or none. *)
LEMMA EventFrames == \A c \in Commands : EventFrame(c) \in Frames \cup {None}
BY CommandShape DEF EventFrame

(* The source frame a command asks a video for is a known one or none. *)
LEMMA WantedFrames ==
    \A v \in Videos, f \in Frames : MediaTime[v][f] \in SourceTimes \cup {None}
BY ConstantsAssumption

(* Discarding observers keeps controllers typed and their states. *)
LEMMA Discarded ==
    ASSUME video \in [Videos -> VideoType], NEW vs
    PROVE  /\ Discard(vs) \in [Videos -> VideoType]
           /\ \A v \in Videos : Discard(vs)[v].state = video[v].state
BY DEF Discard, VideoType

(* Bound controllers are empty. *)
LEMMA Binding == \A n : Bind(n) \in [Videos -> VideoType]
BY DEF Bind, NoVideo, VideoType

(* The session states a command ends in. *)
LEMMA SessionStates ==
    ASSUME session \in SessionType, NEW f \in Frames \cup {None}
    PROVE  /\ [FreshSession EXCEPT !.kind = "failed"] \in SessionType
           /\ [session EXCEPT !.kind = "ready", !.frame = f] \in SessionType
           /\ [session EXCEPT !.kind = "staged", !.frame = f] \in SessionType
BY DEF FreshSession, SessionType

(* A page that has just loaded the bundle is typed. *)
LEMMA TypeInit == RuntimeInit => TypeOK
BY ConstantsAssumption
   DEF RuntimeInit, TypeOK, FreshSession, NoVideo, SessionType, VideoType, Events

(* Every step keeps every variable's type. *)
LEMMA TypeStep ==
    ASSUME TypeOK, Serving, [Next]_runtimeVars
    PROVE  TypeOK'
<1> USE CommandShape, EventFrames
        DEF TypeOK, Serving, Begin, Respond, Finish, Answer, FailSession, FailedSession,
            Events, Idle, Queue
<1>1. CASE UNCHANGED runtimeVars
      BY <1>1 DEF runtimeVars
<1>2. ASSUME NEW c \in Commands, Reject(c)
      PROVE  TypeOK'
      BY <1>2 DEF Reject
<1>3. ASSUME NEW c \in Commands, BeginLoad(c)
      PROVE  TypeOK'
      BY <1>3, Binding DEF BeginLoad
<1>4. ASSUME NEW c \in Commands, BeginPrepare(c)
      PROVE  TypeOK'
      BY <1>4 DEF BeginPrepare
<1>5. ASSUME NEW c \in Commands, BeginSeek(c)
      PROVE  TypeOK'
      BY <1>5 DEF BeginSeek, Refuse, FreshSession, SessionType
<1>6. ASSUME NEW c \in Commands, BeginConfirm(c)
      PROVE  TypeOK'
      BY <1>6 DEF BeginConfirm, Refuse, FreshSession, SessionType
<1>7. ASSUME NEW c \in Commands, BeginDispose(c)
      PROVE  TypeOK'
      BY <1>7 DEF BeginDispose, FreshSession, SessionType
<1>8. ASSUME NEW v \in Videos, StartLoad(v)
      PROVE  TypeOK'
      BY <1>8 DEF StartLoad
<1>9. ASSUME NEW v \in Videos, SettleLoad(v)
      PROVE  TypeOK'
  <2>0. v \in Videos /\ video \in [Videos -> VideoType]
        OBVIOUS
  <2>1. PICK state \in {"loaded", "empty", "disposed"} :
          video' = [video EXCEPT ![v].state = state]
        BY ONLY <1>9 DEF SettleLoad
  <2>2. video' \in [Videos -> VideoType]
        BY ONLY <2>0, <2>1 DEF VideoType
  <2> QED
        BY <1>9, <2>2 DEF SettleLoad
<1>10. ASSUME NEW v \in Videos, StartStage(v)
      PROVE  TypeOK'
      BY <1>10, WantedFrames DEF StartStage, VideoType
<1>11. ASSUME NEW v \in Videos, SettleStage(v)
      PROVE  TypeOK'
      BY <1>11, WantedFrames, Discarded DEF SettleStage
<1>12. ASSUME NEW v \in Videos, ConfirmVideo(v)
      PROVE  TypeOK'
  <2> DEFINE wanted == MediaTime[v][command.frame]
  <2>1. wanted \in SourceTimes \cup {None}
        BY <1>12, WantedFrames DEF ConfirmVideo
  <2>2. work' \in [Videos -> {"idle", "queued", "running", "done", "failed"}]
        BY <1>12 DEF ConfirmVideo
  <2>3. \/ UNCHANGED video \/ video' = Discard({v})
        \/ video' = [video EXCEPT ![v].pending = None, ![v].seen = "waiting",
                                   ![v].presented = wanted]
        BY <1>12 DEF ConfirmVideo
  <2>4. ASSUME video' = [video EXCEPT ![v].pending = None, ![v].seen = "waiting",
                                      ![v].presented = wanted]
        PROVE  video' \in [Videos -> VideoType]
    <3> HIDE DEF wanted
    <3>1. video'[v] = [video[v] EXCEPT !.pending = None, !.seen = "waiting",
                                       !.presented = wanted]
          BY <2>4
    <3>2. video[v] \in VideoType
          OBVIOUS
    <3>3. video'[v] \in VideoType
          BY <2>1, <3>1, <3>2 DEF VideoType
    <3> QED
          BY <2>4, <3>3
  <2>5. video' \in [Videos -> VideoType]
        BY <2>3, <2>4, Discarded
  <2> QED
        BY <1>12, <2>2, <2>5 DEF ConfirmVideo
<1>13. ASSUME NEW v \in Videos, Present(v)
      PROVE  TypeOK'
      BY <1>13 DEF Present, Observed, Presentable, VideoType
<1>14. ASSUME NEW v \in Videos, ObservationFails(v)
      PROVE  TypeOK'
      BY <1>14 DEF ObservationFails, Observed, VideoType
<1>15. CASE LoadCompletes
      BY <1>15 DEF LoadCompletes, SessionType, FreshSession
<1>16. CASE PrepareCompletes
      BY <1>16 DEF PrepareCompletes, SessionType, FreshSession
<1>17. CASE StagingCompletes
      BY <1>17, Discarded DEF StagingCompletes, SessionType, FreshSession, Active, Bound
<1>18. ASSUME ConfirmCompletes
      PROVE  TypeOK'
  <2>1. session' \in SessionType
    <3>1. [session EXCEPT !.kind = "ready", !.frame = None] \in SessionType
          BY SessionStates
    <3>2. [FreshSession EXCEPT !.kind = "failed"] \in SessionType
          BY SessionStates
    <3> QED
          BY <1>18, <3>1, <3>2 DEF ConfirmCompletes
  <2>2. reply' \in [event : Events, frame : Frames \cup {None}]
        BY <1>18 DEF ConfirmCompletes
  <2> QED
        BY <1>18, <2>1, <2>2 DEF ConfirmCompletes
<1>19. CASE ExtensionsSettle
      BY <1>19 DEF ExtensionsSettle
<1>20. ASSUME EffectsSettle
      PROVE  TypeOK'
  <2>1. command.frame \in Frames
        BY <1>20 DEF EffectsSettle
  <2>2. session' \in SessionType /\ staged' \in Frames \cup {None}
    <3>1. [session EXCEPT !.kind = "staged", !.frame = command.frame] \in SessionType
          BY <2>1, SessionStates
    <3>2. [FreshSession EXCEPT !.kind = "failed"] \in SessionType
          BY SessionStates
    <3> QED
          BY <1>20, <2>1, <3>1, <3>2 DEF EffectsSettle
  <2>3. reply' \in [event : Events, frame : Frames \cup {None}]
        BY <1>20 DEF EffectsSettle
  <2> QED
        BY <1>20, <2>2, <2>3, Discarded DEF EffectsSettle
<1>21. CASE ReleaseCompletes
      BY <1>21 DEF ReleaseCompletes, SessionType, FreshSession, NoVideo, VideoType
<1>22. ASSUME NEW v \in Videos, Decode(v)
      PROVE  TypeOK'
      BY <1>22, WantedFrames DEF Decode
<1> QED
      BY <1>1, <1>2, <1>3, <1>4, <1>5, <1>6, <1>7, <1>8, <1>9, <1>10,
         <1>11, <1>12, <1>13, <1>14, <1>15, <1>16, <1>17, <1>18, <1>19, <1>20, <1>21, <1>22
         DEF Next, Dispatch, RuntimeStep, BoundedStep, AuthorStep, Compositing, VideoStarts,
             VideoSettles

(* Session and adapter move in step. *)
LEMMA LifecycleStep ==
    ASSUME LInv, [Next]_runtimeVars
    PROVE  Serving' /\ Executing' /\ FailedRests' /\ LifecycleAgreement'
<1> USE CommandShape
        DEF LInv, TypeOK, Serving, Executing, FailedRests, LifecycleAgreement, Begin, Finish,
            Answer,
            FailSession, FailedSession, FreshSession, SessionType
<1>1. CASE UNCHANGED runtimeVars
      BY <1>1 DEF runtimeVars
<1>2. ASSUME NEW c \in Commands, Reject(c)
      PROVE  Serving' /\ Executing' /\ FailedRests' /\ LifecycleAgreement'
      BY <1>2 DEF Reject
<1>3. ASSUME NEW c \in Commands, BeginLoad(c)
      PROVE  Serving' /\ Executing' /\ FailedRests' /\ LifecycleAgreement'
      BY <1>3 DEF BeginLoad, Admits
<1>4. ASSUME NEW c \in Commands, BeginPrepare(c)
      PROVE  Serving' /\ Executing' /\ FailedRests' /\ LifecycleAgreement'
      BY <1>4 DEF BeginPrepare, Admits
<1>5. ASSUME NEW c \in Commands, BeginSeek(c)
      PROVE  Serving' /\ Executing' /\ FailedRests' /\ LifecycleAgreement'
      BY <1>5 DEF BeginSeek, Admits, Refuse
<1>6. ASSUME NEW c \in Commands, BeginConfirm(c)
      PROVE  Serving' /\ Executing' /\ FailedRests' /\ LifecycleAgreement'
      BY <1>6 DEF BeginConfirm, Admits, Refuse
<1>7. ASSUME NEW c \in Commands, BeginDispose(c)
      PROVE  Serving' /\ Executing' /\ FailedRests' /\ LifecycleAgreement'
      BY <1>7 DEF BeginDispose, Admits
<1>8. ASSUME NEW v \in Videos, StartLoad(v)
      PROVE  Serving' /\ Executing' /\ FailedRests' /\ LifecycleAgreement'
      BY <1>8 DEF StartLoad
<1>9. ASSUME NEW v \in Videos, SettleLoad(v)
      PROVE  Serving' /\ Executing' /\ FailedRests' /\ LifecycleAgreement'
      BY <1>9 DEF SettleLoad
<1>10. ASSUME NEW v \in Videos, StartStage(v)
      PROVE  Serving' /\ Executing' /\ FailedRests' /\ LifecycleAgreement'
      BY <1>10 DEF StartStage
<1>11. ASSUME NEW v \in Videos, SettleStage(v)
      PROVE  Serving' /\ Executing' /\ FailedRests' /\ LifecycleAgreement'
      BY <1>11 DEF SettleStage
<1>12. ASSUME NEW v \in Videos, ConfirmVideo(v)
      PROVE  Serving' /\ Executing' /\ FailedRests' /\ LifecycleAgreement'
      BY <1>12 DEF ConfirmVideo
<1>13. ASSUME NEW v \in Videos, Present(v)
      PROVE  Serving' /\ Executing' /\ FailedRests' /\ LifecycleAgreement'
      BY <1>13 DEF Present, Observed, Presentable
<1>14. ASSUME NEW v \in Videos, ObservationFails(v)
      PROVE  Serving' /\ Executing' /\ FailedRests' /\ LifecycleAgreement'
      BY <1>14 DEF ObservationFails, Observed
<1>15. ASSUME LoadCompletes
      PROVE  Serving' /\ Executing' /\ FailedRests' /\ LifecycleAgreement'
  <2>1. command.type = "load" /\ command # None /\ step = "videos"
        BY <1>15 DEF LoadCompletes
  <2>2. CASE Failed
        BY <1>15, <2>1, <2>2 DEF LoadCompletes
  <2>3. CASE ~Failed
        BY <1>15, <2>1, <2>3 DEF LoadCompletes
  <2> QED
        BY <2>2, <2>3
<1>16. CASE PrepareCompletes
      BY <1>16 DEF PrepareCompletes
<1>17. CASE StagingCompletes
      BY <1>17 DEF StagingCompletes
<1>18. CASE ConfirmCompletes
      BY <1>18 DEF ConfirmCompletes
<1>19. CASE ExtensionsSettle
      BY <1>19 DEF ExtensionsSettle
<1>20. CASE EffectsSettle
      BY <1>20 DEF EffectsSettle
<1>21. CASE ReleaseCompletes
      BY <1>21 DEF ReleaseCompletes
<1>22. ASSUME NEW v \in Videos, Decode(v)
      PROVE  Serving' /\ Executing' /\ FailedRests' /\ LifecycleAgreement'
      BY <1>22 DEF Decode
<1> QED
      BY <1>1, <1>2, <1>3, <1>4, <1>5, <1>6, <1>7, <1>8, <1>9, <1>10,
         <1>11, <1>12, <1>13, <1>14, <1>15, <1>16, <1>17, <1>18, <1>19, <1>20, <1>21, <1>22
         DEF Next, Dispatch, RuntimeStep, BoundedStep, AuthorStep, Compositing, VideoStarts,
             VideoSettles

(* The invariant of the two state machines and the command between them. *)
THEOREM LInvHolds == RuntimeSpec => []LInv
<1>1. RuntimeInit => LInv
  <2> SUFFICES ASSUME RuntimeInit PROVE LInv
      OBVIOUS
  <2> QED
      BY TypeInit DEF RuntimeInit, LInv, Serving, Executing, FailedRests, LifecycleAgreement,
         FreshSession
<1>2. LInv /\ [Next]_runtimeVars => LInv'
      BY TypeStep, LifecycleStep DEF LInv
<1> QED
      BY <1>1, <1>2, PTL DEF RuntimeSpec

(* Every variable keeps its type, and every command its own awaits. *)
THEOREM TypeCorrect == RuntimeSpec => []TypeOK
<1>1. LInv => TypeOK
      BY DEF LInv
<1> QED
      BY <1>1, LInvHolds, PTL

(* Between commands RuntimeSession and PresentationRuntimeAdapter, which   *)
(* keep separate state machines, agree.                                    *)
THEOREM LifecycleAgreementHolds == RuntimeSpec => []LifecycleAgreement
<1>1. LInv => LifecycleAgreement
      BY DEF LInv
<1> QED
      BY <1>1, LInvHolds, PTL

-----------------------------------------------------------------------------
(* Controllers are disposed of only where nobody will use them again. *)
Living ==
    /\ session.kind = "empty" /\ (command = None \/ step = "extensions") =>
          \A v \in Videos : video[v].state # "disposed"
    /\ session.kind = "empty" /\ command # None /\ step = "videos" =>
          \A v \in Videos : work[v] \in {"queued", "running"} => video[v].state # "disposed"

(* Video work is only under way while its command awaits it. *)
Resting == step # "videos" => \A v \in Videos : work[v] \notin {"queued", "running"}

(* An adapter at rest that was disposed of has released everything. *)
Released ==
    presentation = "disposed" /\ command = None =>
        visible = {} /\ \A v \in Videos : video[v].state \in {"unbound", "disposed"}

(* The controllers follow the session. *)
LEMMA VideosStep ==
    ASSUME LInv, Living, Released, Resting, [Next]_runtimeVars
    PROVE  Living' /\ Released' /\ Resting'
<1> USE CommandShape, Discarded
        DEF LInv, TypeOK, Serving, Executing, FailedRests, LifecycleAgreement, Living, Released,
            Resting, Settled, Idle, Queue, Begin, Finish, Answer, FailSession, FailedSession,
            FreshSession, SessionType
<1>1. CASE UNCHANGED runtimeVars
      BY <1>1 DEF runtimeVars
<1>2. ASSUME NEW c \in Commands, Reject(c)
      PROVE  Living' /\ Released' /\ Resting'
      BY <1>2 DEF Reject
<1>3. ASSUME NEW c \in Commands, BeginLoad(c)
      PROVE  Living' /\ Released' /\ Resting'
      BY <1>3 DEF BeginLoad, Admits, Bind, NoVideo
<1>4. ASSUME NEW c \in Commands, BeginPrepare(c)
      PROVE  Living' /\ Released' /\ Resting'
      BY <1>4 DEF BeginPrepare, Admits
<1>5. ASSUME NEW c \in Commands, BeginSeek(c)
      PROVE  Living' /\ Released' /\ Resting'
      BY <1>5 DEF BeginSeek, Admits, Refuse
<1>6. ASSUME NEW c \in Commands, BeginConfirm(c)
      PROVE  Living' /\ Released' /\ Resting'
      BY <1>6 DEF BeginConfirm, Admits, Refuse
<1>7. ASSUME NEW c \in Commands, BeginDispose(c)
      PROVE  Living' /\ Released' /\ Resting'
      BY <1>7 DEF BeginDispose, Admits
<1>8. ASSUME NEW v \in Videos, StartLoad(v)
      PROVE  Living' /\ Released' /\ Resting'
      BY <1>8 DEF StartLoad, NextInput
<1>9. ASSUME NEW v \in Videos, SettleLoad(v)
      PROVE  Living' /\ Released' /\ Resting'
  <2>1. \A w \in Videos \ {v} : work'[w] = work[w] /\ video'[w] = video[w]
        BY <1>9 DEF SettleLoad
  <2>2. work'[v] \in {"done", "failed"}
        BY <1>9 DEF SettleLoad
  <2>3. command # None /\ command.type = "load" /\ UNCHANGED <<session, command, step, presentation>>
        BY <1>9 DEF SettleLoad
  <2>4. step = "videos"
        BY <1>9 DEF SettleLoad
  <2>5. Living'
        BY <2>1, <2>2, <2>3, <2>4
  <2> QED
        BY <1>9, <2>1, <2>2, <2>3, <2>4, <2>5 DEF SettleLoad
<1>10. ASSUME NEW v \in Videos, StartStage(v)
      PROVE  Living' /\ Released' /\ Resting'
      BY <1>10 DEF StartStage
<1>11. ASSUME NEW v \in Videos, SettleStage(v)
      PROVE  Living' /\ Released' /\ Resting'
      BY <1>11 DEF SettleStage
<1>12. ASSUME NEW v \in Videos, ConfirmVideo(v)
      PROVE  Living' /\ Released' /\ Resting'
      BY <1>12 DEF ConfirmVideo
<1>13. ASSUME NEW v \in Videos, Present(v)
      PROVE  Living' /\ Released' /\ Resting'
      BY <1>13 DEF Present, Observed, Presentable
<1>14. ASSUME NEW v \in Videos, ObservationFails(v)
      PROVE  Living' /\ Released' /\ Resting'
      BY <1>14 DEF ObservationFails, Observed
<1>15. CASE LoadCompletes
      BY <1>15 DEF LoadCompletes
<1>16. CASE PrepareCompletes
      BY <1>16 DEF PrepareCompletes
<1>17. CASE StagingCompletes
      BY <1>17 DEF StagingCompletes
<1>18. CASE ConfirmCompletes
      BY <1>18 DEF ConfirmCompletes
<1>19. CASE ExtensionsSettle
      BY <1>19 DEF ExtensionsSettle, Bound
<1>20. CASE EffectsSettle
      BY <1>20 DEF EffectsSettle
<1>21. CASE ReleaseCompletes
      BY <1>21 DEF ReleaseCompletes, Bound, NoVideo
<1>22. ASSUME NEW v \in Videos, Decode(v)
      PROVE  Living' /\ Released' /\ Resting'
      BY <1>22 DEF Decode
<1> QED
      BY <1>1, <1>2, <1>3, <1>4, <1>5, <1>6, <1>7, <1>8, <1>9, <1>10,
         <1>11, <1>12, <1>13, <1>14, <1>15, <1>16, <1>17, <1>18, <1>19, <1>20, <1>21, <1>22
         DEF Next, Dispatch, RuntimeStep, BoundedStep, AuthorStep, Compositing, VideoStarts,
             VideoSettles

(* The invariant with the controllers. *)
THEOREM VideosHold == RuntimeSpec => [](LInv /\ Living /\ Released /\ Resting)
<1>1. RuntimeInit => Living /\ Released /\ Resting
      BY DEF RuntimeInit, Living, Released, Resting, FreshSession, NoVideo
<1>2. LInv /\ Living /\ Released /\ Resting /\ [Next]_runtimeVars =>
          (Living /\ Released /\ Resting)'
      BY VideosStep
<1> QED
      BY <1>1, <1>2, LInvHolds, PTL DEF RuntimeSpec

(* Once the session reports disposal finished, no video is visible and     *)
(* none holds a source: RuntimeSession.#dispose leaves nothing behind,     *)
(* also when the adapter had disposed of itself after a failed load.       *)
THEOREM DisposalReleasesEverythingHolds == RuntimeSpec => []DisposalReleasesEverything
<1>1. LInv /\ Released => DisposalReleasesEverything
      BY DEF LInv, LifecycleAgreement, Released, DisposalReleasesEverything
<1> QED
      BY <1>1, VideosHold, PTL

(* What a step leaves terminal. *)
Final ==
    /\ \A v \in Videos : video[v].state = "disposed" => video'[v].state = "disposed"
    /\ session.kind = "failed" => session'.kind \in {"failed", "disposed"}
    /\ session.kind = "disposed" => session' = session

(* No step brings a controller or a session back. *)
LEMMA FinalStep ==
    ASSUME LInv, Living, Resting, [Next]_runtimeVars
    PROVE  Final
<1> USE CommandShape, Discarded
        DEF LInv, TypeOK, Serving, Executing, FailedRests, Living, Resting, Final, Begin,
            Finish, Answer,
            FailSession, FailedSession, FreshSession, SessionType
<1>1. CASE UNCHANGED runtimeVars
      BY <1>1 DEF runtimeVars
<1>2. ASSUME NEW c \in Commands, Reject(c)
      PROVE  Final
      BY <1>2 DEF Reject
<1>3. ASSUME NEW c \in Commands, BeginLoad(c)
      PROVE  Final
      BY <1>3 DEF BeginLoad, Admits, Bind, NoVideo
<1>4. ASSUME NEW c \in Commands, BeginPrepare(c)
      PROVE  Final
      BY <1>4 DEF BeginPrepare, Admits
<1>5. ASSUME NEW c \in Commands, BeginSeek(c)
      PROVE  Final
      BY <1>5 DEF BeginSeek, Admits, Refuse
<1>6. ASSUME NEW c \in Commands, BeginConfirm(c)
      PROVE  Final
      BY <1>6 DEF BeginConfirm, Admits, Refuse
<1>7. ASSUME NEW c \in Commands, BeginDispose(c)
      PROVE  Final
      BY <1>7 DEF BeginDispose, Admits
<1>8. ASSUME NEW v \in Videos, StartLoad(v)
      PROVE  Final
      BY <1>8 DEF StartLoad
<1>9. ASSUME NEW v \in Videos, SettleLoad(v)
      PROVE  Final
  <2>1. video[v].state # "disposed" /\ UNCHANGED session
        BY <1>9 DEF SettleLoad
  <2>2. \A w \in Videos \ {v} : video'[w] = video[w]
        BY <1>9 DEF SettleLoad
  <2> QED
        BY <2>1, <2>2
<1>10. ASSUME NEW v \in Videos, StartStage(v)
      PROVE  Final
  <2>1. \/ UNCHANGED video
        \/ video' = [video EXCEPT ![v].pending = MediaTime[v][command.frame],
                                   ![v].seen = "waiting"]
        BY <1>10 DEF StartStage
  <2>2. \A w \in Videos : video'[w].state = video[w].state
        BY <2>1 DEF VideoType
  <2> QED
        BY <1>10, <2>2 DEF StartStage
<1>11. ASSUME NEW v \in Videos, SettleStage(v)
      PROVE  Final
      BY <1>11 DEF SettleStage
<1>12. ASSUME NEW v \in Videos, ConfirmVideo(v)
      PROVE  Final
  <2>0. v \in Videos /\ video \in [Videos -> VideoType]
        OBVIOUS
  <2>1. \/ UNCHANGED video
        \/ video' = Discard({v})
        \/ video' = [video EXCEPT ![v].pending = None, ![v].seen = "waiting",
                                   ![v].presented = MediaTime[v][command.frame]]
        BY <1>12 DEF ConfirmVideo
  <2>2. \A w \in Videos : video'[w].state = video[w].state
        BY ONLY <2>0, <2>1, Discarded DEF VideoType
  <2> QED
        BY <1>12, <2>2 DEF ConfirmVideo
<1>13. ASSUME NEW v \in Videos, Present(v)
      PROVE  Final
      BY <1>13 DEF Present, Observed, Presentable
<1>14. ASSUME NEW v \in Videos, ObservationFails(v)
      PROVE  Final
      BY <1>14 DEF ObservationFails, Observed
<1>15. CASE LoadCompletes
      BY <1>15 DEF LoadCompletes
<1>16. CASE PrepareCompletes
      BY <1>16 DEF PrepareCompletes
<1>17. CASE StagingCompletes
      BY <1>17 DEF StagingCompletes
<1>18. CASE ConfirmCompletes
      BY <1>18 DEF ConfirmCompletes
<1>19. CASE ExtensionsSettle
      BY <1>19 DEF ExtensionsSettle
<1>20. ASSUME EffectsSettle
      PROVE  Final
  <2>1. session.kind = "ready"
        BY <1>20 DEF EffectsSettle
  <2>2. UNCHANGED video \/ video' = Discard(Videos)
        BY <1>20 DEF EffectsSettle
  <2> QED
        BY <2>1, <2>2
<1>21. CASE ReleaseCompletes
      BY <1>21 DEF ReleaseCompletes, Bound, NoVideo
<1>22. ASSUME NEW v \in Videos, Decode(v)
      PROVE  Final
      BY <1>22 DEF Decode
<1> QED
      BY <1>1, <1>2, <1>3, <1>4, <1>5, <1>6, <1>7, <1>8, <1>9, <1>10,
         <1>11, <1>12, <1>13, <1>14, <1>15, <1>16, <1>17, <1>18, <1>19, <1>20, <1>21, <1>22
         DEF Next, Dispatch, RuntimeStep, BoundedStep, AuthorStep, Compositing, VideoStarts,
             VideoSettles

(* A disposed controller stays disposed, a failed session only goes on to  *)
(* disposal, and a disposed session changes no more.                       *)
THEOREM TerminalStatesAreFinalHolds == RuntimeSpec => TerminalStatesAreFinal
<1>1. LInv /\ Living /\ Resting /\ [Next]_runtimeVars => [Final]_runtimeVars
      BY FinalStep
<1> QED
      BY <1>1, VideosHold, PTL DEF RuntimeSpec, TerminalStatesAreFinal, Final

-----------------------------------------------------------------------------
(* The source frame a video shows at a frame.                              *)
At(v, f) == MediaTime[v][f]

(* A seek executes.                                                        *)
Seeking == command # None /\ command.type = "seek"

(* A confirmation executes.                                                *)
Confirming == command # None /\ command.type = "confirm"

(* Video work belongs to the videos the executing command names.           *)
Working ==
    /\ step \in {"idle", "extensions", "resources"} => \A v \in Videos : work[v] = "idle"
    /\ step = "effects" => \A v \in Videos : work[v] \in {"idle", "done"}
    /\ (Seeking \/ Confirming) =>
          \A v \in Videos : work[v] # "idle" <=> v \in Active(command.frame)
    /\ Confirming => command.frame = session.frame /\ session.kind = "staged"
    /\ Confirming => \A v \in Videos : work[v] # "running"

(* An observer is registered only for a source frame that was asked for    *)
(* and not yet presented, by the seek that executes or for the frame that  *)
(* is staged; a confirmation that failed may leave one behind until        *)
(* disposal.                                                               *)
Observing == \A v \in Videos : video[v].pending # None =>
    \/ /\ session.kind = "failed" /\ presentation # "disposed"
       /\ \E u \in Videos : Unconfirmed(u)
    \/ session.kind = "disposed" /\ command # None
    \/ /\ Seeking /\ work[v] \in {"running", "done"}
       /\ video[v].pending = At(v, command.frame)
       /\ video[v].presented # video[v].pending
    \/ /\ session.kind = "staged" /\ v \in Active(session.frame)
       /\ Confirming => work[v] = "queued"
       /\ video[v].pending = At(v, session.frame)
       /\ video[v].presented # video[v].pending

(* An element that is not being moved stands at the source frame it last   *)
(* presented, which is what lets a seek skip it.                           *)
Standing == session.kind \notin {"failed", "disposed"} => \A v \in Videos :
    video[v].presented # None /\ video[v].pending = None /\ work[v] # "failed" =>
        decoded[v] = video[v].presented

(* While a seek stages its videos, and until its effects settle, every     *)
(* video that is done stands at the wanted source frame.                   *)
Fetched == Seeking => \A v \in Videos :
    /\ work[v] = "running" => video[v].pending = At(v, command.frame)
    /\ work[v] = "done" =>
         /\ decoded[v] = At(v, command.frame)
         /\ At(v, command.frame) \in {video[v].presented, video[v].pending}

(* While a frame is staged, every video active at it stands at its source  *)
(* frame, presented or observed; a confirmed one has presented it.         *)
Held == session.kind = "staged" => \A v \in Active(session.frame) :
      /\ work[v] \in {"idle", "queued"} =>
         /\ decoded[v] = At(v, session.frame)
         /\ At(v, session.frame) \in {video[v].presented, video[v].pending}
      /\ work[v] = "done" =>
         /\ decoded[v] = At(v, session.frame)
         /\ At(v, session.frame) = video[v].presented

(* Once staged, exactly the videos active at the frame are visible.        *)
Shown == /\ step = "effects" => visible = Active(command.frame)
         /\ session.kind = "staged" => visible = Active(session.frame)

(* The page is neither failed nor disposed.                                *)
Alive == session.kind \notin {"failed", "disposed"}

(* The screen shows what the controllers believe was presented.            *)
Presented == Alive => \A v \in Videos :
    /\ video[v].presented # None /\ video[v].pending = None /\ work[v] # "failed" =>
          onscreen[v] = video[v].presented
    /\ video[v].pending # None /\ video[v].seen = "presented" => onscreen[v] = video[v].pending

(* A video whose confirmation failed stands at a frame it never presented. *)
Failing == Confirming => \A v \in Videos : work[v] = "failed" => Unconfirmed(v)

(* The invariant of the observers.                                         *)
OInv ==
    /\ Working /\ Observing /\ Standing /\ Fetched /\ Held /\ Shown
    /\ Presented /\ Failing

(* What the settling of a load leaves alone.                               *)
LEMMA SettleLoadShape ==
    ASSUME TypeOK, Serving, NEW v \in Videos, SettleLoad(v)
    PROVE  /\ UNCHANGED <<session, command, step, presentation, staged, decoded, onscreen,
                       visible, reply>>
           /\ command # None /\ command.type = "load" /\ work[v] = "running"
           /\ \A w \in Videos \ {v} : work'[w] = work[w]
           /\ \A w \in Videos : /\ video'[w].pending = video[w].pending
                                /\ video'[w].seen = video[w].seen
                                /\ video'[w].presented = video[w].presented
BY DEF SettleLoad, TypeOK, VideoType

(* What the settling of a seek does to the video it served.                *)
LEMMA SettleStageShape ==
    ASSUME TypeOK, NEW v \in Videos, SettleStage(v)
    PROVE  /\ UNCHANGED <<session, command, step, presentation, staged, decoded, onscreen,
                       visible, reply>>
           /\ Seeking /\ work[v] = "running"
           /\ \A w \in Videos \ {v} : work'[w] = work[w] /\ video'[w] = video[w]
           /\ \/ /\ work'[v] = "done" /\ video'[v] = video[v]
                 /\ decoded[v] = At(v, command.frame)
              \/ /\ work'[v] = "failed" /\ video'[v].pending = None
                 /\ video'[v].presented = video[v].presented
           /\ Bound' = Bound
<1>1. /\ UNCHANGED <<session, command, step, presentation, staged, decoded, onscreen,
                   visible, reply>>
      /\ Seeking /\ work[v] = "running"
      /\ work \in [Videos -> {"idle", "queued", "running", "done", "failed"}]
      /\ video \in [Videos -> VideoType]
  BY DEF SettleStage, Seeking, TypeOK
<1>2. CASE /\ decoded[v] = MediaTime[v][command.frame]
           /\ work' = [work EXCEPT ![v] = "done"] /\ UNCHANGED video
  BY <1>1, <1>2 DEF Bound, At
<1>3. ASSUME work' = [work EXCEPT ![v] = "failed"], video' = Discard({v})
      PROVE  /\ \A w \in Videos \ {v} : work'[w] = work[w] /\ video'[w] = video[w]
             /\ work'[v] = "failed" /\ video'[v].pending = None
             /\ video'[v].presented = video[v].presented
             /\ Bound' = Bound
  <2>1. \A w \in Videos : video'[w].state = video[w].state
    BY <1>1, <1>3 DEF Discard, VideoType
  <2>2. Bound' = Bound
    BY <2>1 DEF Bound
  <2> QED
    BY <1>1, <1>3, <2>2 DEF Discard, VideoType
<1> QED
  BY <1>1, <1>2, <1>3 DEF SettleStage

(* The four ways the confirmation of a video ends.                         *)
LEMMA ConfirmVideoShape ==
    ASSUME TypeOK, NEW v \in Videos, ConfirmVideo(v)
    PROVE  /\ UNCHANGED <<session, command, step, presentation, staged, decoded, onscreen,
                       visible, reply>>
           /\ Confirming /\ work[v] = "queued"
           /\ \A w \in Videos \ {v} : work'[w] = work[w] /\ video'[w] = video[w]
           /\ \/ /\ work'[v] = "done" /\ video'[v] = video[v]
                 /\ video[v].presented = At(v, command.frame)
              \/ /\ work'[v] = "done" /\ video[v].pending = At(v, command.frame)
                 /\ video[v].seen = "presented"
                 /\ video'[v].pending = None /\ video'[v].presented = At(v, command.frame)
              \/ /\ work'[v] = "failed" /\ video'[v].pending = None
                 /\ video'[v].presented = video[v].presented
                 /\ video[v].presented # At(v, command.frame)
              \/ /\ work'[v] = "failed" /\ video'[v] = video[v]
                 /\ At(v, command.frame) \notin {video[v].presented, video[v].pending}
           /\ Bound' = Bound
<1> USE DEF Confirming, At
<1>1. /\ UNCHANGED <<session, command, step, presentation, staged, decoded, onscreen,
                   visible, reply>>
      /\ Confirming /\ work[v] = "queued" /\ v \in Videos
      /\ work \in [Videos -> {"idle", "queued", "running", "done", "failed"}]
      /\ video \in [Videos -> VideoType]
  BY DEF ConfirmVideo, NextInput, TypeOK
<1>2. CASE video[v].presented = At(v, command.frame)
  <2>1. video' = video /\ work' = [work EXCEPT ![v] = "done"]
    BY <1>2 DEF ConfirmVideo
  <2> QED
    BY <1>1, <1>2, <2>1 DEF Bound
<1>3. CASE video[v].presented # At(v, command.frame) /\ video[v].pending = At(v, command.frame)
  <2>1. CASE video[v].seen = "presented"
    <3>1. /\ work' = [work EXCEPT ![v] = "done"]
          /\ video' = [video EXCEPT ![v].pending = None, ![v].seen = "waiting",
                                    ![v].presented = At(v, command.frame)]
      BY <1>3, <2>1 DEF ConfirmVideo
    <3>2. /\ video'[v].pending = None /\ video'[v].presented = At(v, command.frame)
          /\ video'[v].state = video[v].state
          /\ \A w \in Videos \ {v} : video'[w] = video[w]
      BY <1>1, <3>1 DEF VideoType
    <3> QED
      BY <1>1, <1>3, <2>1, <3>1, <3>2 DEF Bound
  <2>2. CASE video[v].seen # "presented"
    <3>1. work' = [work EXCEPT ![v] = "failed"] /\ video' = Discard({v})
      BY <1>3, <2>2 DEF ConfirmVideo
    <3>2. /\ video'[v].pending = None /\ video'[v].presented = video[v].presented
          /\ video'[v].state = video[v].state
          /\ \A w \in Videos \ {v} : video'[w] = video[w]
      BY <1>1, <3>1 DEF VideoType, Discard
    <3> QED
      BY <1>1, <1>3, <3>1, <3>2 DEF Bound
  <2> QED
    BY <2>1, <2>2
<1>4. CASE At(v, command.frame) \notin {video[v].presented, video[v].pending}
  <2>1. video' = video /\ work' = [work EXCEPT ![v] = "failed"]
    BY <1>4 DEF ConfirmVideo
  <2> QED
    BY <1>1, <1>4, <2>1 DEF Bound
<1> QED
  BY <1>2, <1>3, <1>4

(* No observer is registered.                                              *)
NoObserver == \A w \in Videos : video[w].pending = None

(* The batch of a seek fails as a whole or goes on to the effects.         *)
LEMMA StagingShape ==
    ASSUME TypeOK, StagingCompletes
    PROVE  /\ UNCHANGED <<staged, decoded, onscreen>> /\ Seeking
           /\ \A w \in Videos : work[w] \notin {"queued", "running"}
           /\ \/ /\ session'.kind = "failed" /\ presentation' = "failed" /\ command' = None
                 /\ step' = "idle" /\ work' = Idle /\ NoObserver'
              \/ /\ UNCHANGED <<session, command, presentation, video, work, reply>>
                 /\ step' = "effects" /\ visible' = Active(command.frame)
                 /\ \A w \in Videos : work[w] \in {"idle", "done"}
<1>1. /\ UNCHANGED <<staged, decoded, onscreen>> /\ Seeking
      /\ \A w \in Videos : work[w] \notin {"queued", "running"}
      /\ \A w \in Videos : work[w] \in {"idle", "queued", "running", "done", "failed"}
  BY DEF StagingCompletes, Seeking, Settled, TypeOK
<1>2. CASE Failed
  <2>1. video' = Discard(Videos) /\ presentation' = "failed" /\ FailSession("seekFailed")
    BY <1>2 DEF StagingCompletes
  <2>2. NoObserver'
    BY <2>1 DEF TypeOK, VideoType, Discard, NoObserver
  <2> QED
    BY <1>1, <2>1, <2>2 DEF FailSession, FailedSession, Finish, Answer, FreshSession, Idle
<1>3. CASE ~Failed
  BY <1>1, <1>3 DEF StagingCompletes, Failed
<1> QED
  BY <1>2, <1>3

(* A seek ends with its frame staged, or with every observer discarded.    *)
LEMMA EffectsShape ==
    ASSUME TypeOK, Serving, Resting, EffectsSettle
    PROVE  /\ UNCHANGED <<decoded, onscreen, visible>> /\ Seeking /\ step = "effects"
           /\ command' = None /\ step' = "idle" /\ work' = Idle
           /\ reply'.event \in {"frameStaged", "seekFailed"}
           /\ \/ /\ session'.kind = "failed" /\ presentation' = "failed" /\ NoObserver'
              \/ /\ session'.kind = "staged" /\ session'.frame = command.frame
                 /\ session'.plan = session.plan
                 /\ UNCHANGED <<presentation, video>>
<1>1. /\ UNCHANGED <<decoded, onscreen, visible>> /\ Seeking /\ step = "effects"
      /\ \A w \in Videos : work[w] \notin {"queued", "running"}
  BY DEF EffectsSettle, Seeking, Serving, Resting
<1>2. ASSUME Finish([session EXCEPT !.kind = "staged", !.frame = command.frame], "frameStaged"),
             UNCHANGED <<presentation, video>>
      PROVE  /\ command' = None /\ step' = "idle" /\ work' = Idle
             /\ reply'.event = "frameStaged"
             /\ session'.kind = "staged" /\ session'.frame = command.frame
             /\ session'.plan = session.plan
  BY <1>1, <1>2 DEF Finish, Answer, Idle, Respond, TypeOK, SessionType
<1>3. ASSUME video' = Discard(Videos), FailSession("seekFailed")
      PROVE  /\ command' = None /\ step' = "idle" /\ work' = Idle
             /\ reply'.event = "seekFailed"
             /\ session'.kind = "failed" /\ NoObserver'
  <2>1. NoObserver'
    BY <1>3 DEF Discard, NoObserver, TypeOK, VideoType
  <2> QED
    BY <1>1, <1>3, <2>1
       DEF FailSession, FailedSession, Finish, Answer, Idle, Respond, FreshSession
<1> QED
  BY <1>1, <1>2, <1>3 DEF EffectsSettle

(* Every step keeps video work with its command.                           *)
LEMMA WorkingStep ==
    ASSUME LInv, Resting, OInv, [Next]_runtimeVars
    PROVE  Working'
<1> USE CommandShape, EventFrames
   DEF LInv, TypeOK, Serving, Executing, FailedRests, LifecycleAgreement, Resting, OInv,
       Begin, Finish, Answer, FailSession, FailedSession, FreshSession, Idle, Queue, Settled,
       Failed, Discard,
       Bound, Active, Seeking, Confirming, At, Working, VideoType, SessionType
<1>0. LInv /\ Resting /\ OInv
      OBVIOUS
<1>1. CASE UNCHANGED runtimeVars
      BY <1>1 DEF runtimeVars
<1>2. ASSUME NEW c \in Commands, Reject(c)
      PROVE  Working'
      BY <1>2 DEF Reject
<1>3. ASSUME NEW c \in Commands, BeginLoad(c)
      PROVE  Working'
      BY <1>3 DEF BeginLoad, Admits, Bind, NoVideo
<1>4. ASSUME NEW c \in Commands, BeginPrepare(c)
      PROVE  Working'
      BY <1>4 DEF BeginPrepare, Admits
<1>5. ASSUME NEW c \in Commands, BeginSeek(c)
      PROVE  Working'
      BY <1>5 DEF BeginSeek, Admits, Refuse
<1>6. ASSUME NEW c \in Commands, BeginConfirm(c)
      PROVE  Working'
      BY <1>6 DEF BeginConfirm, Admits, Refuse
<1>7. ASSUME NEW c \in Commands, BeginDispose(c)
      PROVE  Working'
      BY <1>7 DEF BeginDispose, Admits
<1>8. ASSUME NEW v \in Videos, StartLoad(v)
      PROVE  Working'
      BY <1>8 DEF StartLoad, NextInput
<1>9. ASSUME NEW v \in Videos, SettleLoad(v)
      PROVE  Working'
      BY ONLY <1>0, <1>9, SettleLoadShape
         DEF LInv, Serving, Executing, FailedRests, OInv, Seeking, Confirming, Active, Idle,
             NoObserver, Bound, At, Working
<1>10. ASSUME NEW v \in Videos, StartStage(v)
      PROVE  Working'
      BY <1>10, SMTT(30) DEF StartStage, NextInput
<1>11. ASSUME NEW v \in Videos, SettleStage(v)
      PROVE  Working'
      BY ONLY <1>0, <1>11, SettleStageShape
         DEF LInv, Serving, Executing, FailedRests, OInv, Seeking, Confirming, Active, Idle,
             NoObserver, Bound, At, Working
<1>12. ASSUME NEW v \in Videos, ConfirmVideo(v)
      PROVE  Working'
      BY ONLY <1>0, <1>12, ConfirmVideoShape
         DEF LInv, Serving, Executing, FailedRests, OInv, Seeking, Confirming, Active, Idle,
             NoObserver, Bound, At, Working
<1>13. ASSUME NEW v \in Videos, Present(v)
      PROVE  Working'
      BY <1>13 DEF Present, Observed, Presentable
<1>14. ASSUME NEW v \in Videos, ObservationFails(v)
      PROVE  Working'
      BY <1>14 DEF ObservationFails, Observed
<1>15. ASSUME LoadCompletes
      PROVE  Working'
      BY <1>15 DEF LoadCompletes
<1>16. ASSUME PrepareCompletes
      PROVE  Working'
      BY <1>16 DEF PrepareCompletes
<1>17. ASSUME StagingCompletes
      PROVE  Working'
      BY ONLY <1>0, <1>17, StagingShape
         DEF LInv, Serving, Executing, FailedRests, OInv, Seeking, Confirming, Active, Idle,
             NoObserver, Bound, At, Working
<1>18. ASSUME ConfirmCompletes
      PROVE  Working'
      BY <1>18 DEF ConfirmCompletes
<1>19. ASSUME ExtensionsSettle
      PROVE  Working'
      BY <1>19 DEF ExtensionsSettle
<1>20. ASSUME EffectsSettle
      PROVE  Working'
      BY ONLY <1>0, <1>20, EffectsShape
         DEF LInv, Serving, Executing, FailedRests, OInv, Seeking, Confirming, Active, Idle,
             NoObserver, Bound, At, Working
<1>21. ASSUME ReleaseCompletes
      PROVE  Working'
      BY <1>21 DEF ReleaseCompletes, NoVideo
<1>22. ASSUME NEW v \in Videos, Decode(v)
      PROVE  Working'
      BY <1>22 DEF Decode
<1> QED
      BY <1>1, <1>2, <1>3, <1>4, <1>5, <1>6, <1>7, <1>8, <1>9, <1>10, <1>11,
         <1>12, <1>13, <1>14, <1>15, <1>16, <1>17, <1>18, <1>19, <1>20, <1>21, <1>22
         DEF Next, Dispatch, RuntimeStep, BoundedStep, AuthorStep, Compositing, VideoStarts,
             VideoSettles

(* Every step keeps observers to frames that are awaited.                  *)
LEMMA ObservingStep ==
    ASSUME LInv, Resting, OInv, [Next]_runtimeVars
    PROVE  Observing'
<1> USE CommandShape, EventFrames
   DEF LInv, TypeOK, Serving, Executing, FailedRests, LifecycleAgreement, Resting, OInv,
       Begin, Finish, Answer, FailSession, FailedSession, FreshSession, Idle, Queue, Settled,
       Failed, Discard,
       Bound, Active, Seeking, Confirming, At, Observing, Unconfirmed, Working, Fetched, Held,
       VideoType, SessionType
<1>0. LInv /\ Resting /\ OInv
      OBVIOUS
<1>1. CASE UNCHANGED runtimeVars
      BY <1>1 DEF runtimeVars
<1>2. ASSUME NEW c \in Commands, Reject(c)
      PROVE  Observing'
      BY <1>2 DEF Reject
<1>3. ASSUME NEW c \in Commands, BeginLoad(c)
      PROVE  Observing'
  <2>1. NoObserver'
    <3>1. PICK n : video' = Bind(n)
          BY ONLY <1>3 DEF BeginLoad
    <3> QED
          BY ONLY <3>1 DEF Bind, NoVideo, NoObserver
  <2> QED
        BY ONLY <2>1 DEF Observing, NoObserver
<1>4. ASSUME NEW c \in Commands, BeginPrepare(c)
      PROVE  Observing'
      BY <1>4 DEF BeginPrepare, Admits
<1>5. ASSUME NEW c \in Commands, BeginSeek(c)
      PROVE  Observing'
      BY <1>5 DEF BeginSeek, Admits, Refuse
<1>6. ASSUME NEW c \in Commands, BeginConfirm(c)
      PROVE  Observing'
      BY <1>6 DEF BeginConfirm, Admits, Refuse
<1>7. ASSUME NEW c \in Commands, BeginDispose(c)
      PROVE  Observing'
      BY <1>7 DEF BeginDispose, Admits
<1>8. ASSUME NEW v \in Videos, StartLoad(v)
      PROVE  Observing'
      BY <1>8 DEF StartLoad, NextInput
<1>9. ASSUME NEW v \in Videos, SettleLoad(v)
      PROVE  Observing'
  <2>1. session.kind = "empty" /\ session' = session /\ NoObserver
        BY ONLY <1>0, <1>9, SettleLoadShape
           DEF LInv, Executing, OInv, Observing, Seeking, NoObserver
  <2>2. NoObserver'
        BY ONLY <1>0, <1>9, <2>1, SettleLoadShape DEF LInv, NoObserver
  <2> QED
        BY ONLY <2>2 DEF Observing, NoObserver
<1>10. ASSUME NEW v \in Videos, StartStage(v)
      PROVE  Observing'
      BY <1>10 DEF StartStage, NextInput
<1>11. ASSUME NEW v \in Videos, SettleStage(v)
      PROVE  Observing'
      BY ONLY <1>0, <1>11, SettleStageShape
         DEF LInv, Serving, Executing, FailedRests, OInv, Seeking, Confirming, Active, Idle,
             NoObserver, Bound, At, Observing, Working, Fetched, Held
<1>12. ASSUME NEW v \in Videos, ConfirmVideo(v)
      PROVE  Observing'
      BY ONLY <1>0, <1>12, ConfirmVideoShape
         DEF LInv, Serving, Executing, FailedRests, OInv, Seeking, Confirming, Active, Idle,
             NoObserver, Bound, At, Observing, Working, Fetched, Held
<1>13. ASSUME NEW v \in Videos, Present(v)
      PROVE  Observing'
      BY <1>13 DEF Present, Observed, Presentable
<1>14. ASSUME NEW v \in Videos, ObservationFails(v)
      PROVE  Observing'
      BY <1>14 DEF ObservationFails, Observed
<1>15. ASSUME LoadCompletes
      PROVE  Observing'
      BY <1>15 DEF LoadCompletes
<1>16. ASSUME PrepareCompletes
      PROVE  Observing'
      BY <1>16 DEF PrepareCompletes
<1>17. ASSUME StagingCompletes
      PROVE  Observing'
      BY ONLY <1>0, <1>17, StagingShape
         DEF LInv, Serving, Executing, FailedRests, OInv, Seeking, Confirming, Active, Idle,
             NoObserver, Bound, At, Observing, Working, Fetched, Held
<1>18. ASSUME ConfirmCompletes
      PROVE  Observing'
  <2>1. /\ Confirming /\ session.kind = "staged" /\ presentation = "loaded"
        /\ UNCHANGED <<video, decoded, visible>>
        BY ONLY <1>0, <1>18 DEF ConfirmCompletes, LInv, Executing, Confirming
  <2>2. CASE Failed
    <3>1. PICK u \in Videos : work[u] = "failed"
          BY ONLY <2>2 DEF Failed
    <3>2. Unconfirmed(u)'
          BY ONLY <1>0, <2>1, <3>1 DEF OInv, Failing, Unconfirmed
    <3>3. session'.kind = "failed" /\ presentation' # "disposed"
          BY ONLY <1>18, <2>1, <2>2 DEF ConfirmCompletes, Answer, FailedSession, FreshSession
    <3> QED
          BY ONLY <3>2, <3>3 DEF Observing
  <2>3. CASE ~Failed
    <3>1. \A v \in Videos : work[v] # "queued"
          BY ONLY <1>18, <2>3 DEF ConfirmCompletes, Settled
    <3>2. NoObserver
          BY ONLY <1>0, <2>1, <3>1 DEF OInv, Observing, Confirming, Seeking, NoObserver
    <3> QED
          BY ONLY <2>1, <3>2 DEF Observing, NoObserver
  <2> QED
        BY ONLY <2>2, <2>3
<1>19. ASSUME ExtensionsSettle
      PROVE  Observing'
      BY <1>19 DEF ExtensionsSettle
<1>20. ASSUME EffectsSettle
      PROVE  Observing'
  <2>1. CASE NoObserver'
        BY ONLY <2>1 DEF Observing, NoObserver
  <2>2. CASE ~NoObserver'
    <3>1. /\ session.kind = "ready" /\ step = "effects" /\ Seeking /\ video' = video
          /\ command' = None /\ session'.kind = "staged" /\ session'.frame = command.frame
          BY ONLY <1>0, <1>20, <2>2, EffectsShape DEF LInv, Executing, Seeking
    <3>2. Observing /\ Working
          BY ONLY <1>0 DEF OInv
    <3>3. ASSUME NEW w \in Videos, video[w].pending # None
          PROVE  /\ work[w] # "idle"
                 /\ video[w].pending = At(w, command.frame)
                 /\ video[w].presented # video[w].pending
          BY ONLY <3>1, <3>2, <3>3 DEF Observing
    <3>4. ASSUME NEW w \in Videos, work[w] # "idle"
          PROVE  w \in Active(command.frame)
          BY ONLY <3>1, <3>2, <3>4 DEF Working
    <3>5. ~Confirming' /\ Active(command.frame) = Active(session.frame)'
          BY ONLY <3>1 DEF Confirming, Active, Bound
    <3> QED
          BY ONLY <3>1, <3>3, <3>4, <3>5 DEF Observing, At
  <2> QED
        BY ONLY <2>1, <2>2
<1>21. ASSUME ReleaseCompletes
      PROVE  Observing'
      BY <1>21 DEF ReleaseCompletes, NoVideo
<1>22. ASSUME NEW v \in Videos, Decode(v)
      PROVE  Observing'
      BY <1>22 DEF Decode
<1> QED
      BY <1>1, <1>2, <1>3, <1>4, <1>5, <1>6, <1>7, <1>8, <1>9, <1>10, <1>11,
         <1>12, <1>13, <1>14, <1>15, <1>16, <1>17, <1>18, <1>19, <1>20, <1>21, <1>22
         DEF Next, Dispatch, RuntimeStep, BoundedStep, AuthorStep, Compositing, VideoStarts,
             VideoSettles

(* Every step keeps elements at rest where they last presented.            *)
LEMMA StandingStep ==
    ASSUME LInv, Resting, OInv, [Next]_runtimeVars
    PROVE  Standing'
<1> USE CommandShape, EventFrames
   DEF LInv, TypeOK, Serving, Executing, FailedRests, LifecycleAgreement, Resting, OInv,
       Begin, Finish, Answer, FailSession, FailedSession, FreshSession, Idle, Queue, Settled,
       Failed, Discard,
       Bound, Active, Seeking, Confirming, At, Standing, Working, Observing, Fetched, Held,
       VideoType, SessionType
<1>0. LInv /\ Resting /\ OInv
      OBVIOUS
<1>1. CASE UNCHANGED runtimeVars
      BY <1>1 DEF runtimeVars
<1>2. ASSUME NEW c \in Commands, Reject(c)
      PROVE  Standing'
      BY <1>2 DEF Reject
<1>3. ASSUME NEW c \in Commands, BeginLoad(c)
      PROVE  Standing'
  <2>1. \A v \in Videos : video'[v].presented = None
    <3>1. PICK n : video' = Bind(n)
          BY ONLY <1>3 DEF BeginLoad
    <3> QED
          BY ONLY <3>1 DEF Bind, NoVideo
  <2> QED
        BY ONLY <2>1 DEF Standing
<1>4. ASSUME NEW c \in Commands, BeginPrepare(c)
      PROVE  Standing'
      BY <1>4 DEF BeginPrepare, Admits
<1>5. ASSUME NEW c \in Commands, BeginSeek(c)
      PROVE  Standing'
      BY <1>5 DEF BeginSeek, Admits, Refuse
<1>6. ASSUME NEW c \in Commands, BeginConfirm(c)
      PROVE  Standing'
      BY <1>6 DEF BeginConfirm, Admits, Refuse
<1>7. ASSUME NEW c \in Commands, BeginDispose(c)
      PROVE  Standing'
      BY <1>7 DEF BeginDispose, Admits
<1>8. ASSUME NEW v \in Videos, StartLoad(v)
      PROVE  Standing'
      BY <1>8 DEF StartLoad, NextInput
<1>9. ASSUME NEW v \in Videos, SettleLoad(v)
      PROVE  Standing'
      BY ONLY <1>0, <1>9, SettleLoadShape
         DEF LInv, Serving, Executing, FailedRests, OInv, Seeking, Confirming, Active, Idle,
             NoObserver, Bound, At, Standing, Working, Observing, Fetched
<1>10. ASSUME NEW v \in Videos, StartStage(v)
      PROVE  Standing'
      BY <1>10 DEF StartStage, NextInput
<1>11. ASSUME NEW v \in Videos, SettleStage(v)
      PROVE  Standing'
      BY ONLY <1>0, <1>11, SettleStageShape
         DEF LInv, Serving, Executing, FailedRests, OInv, Seeking, Confirming, Active, Idle,
             NoObserver, Bound, At, Standing, Working, Observing, Fetched
<1>12. ASSUME NEW v \in Videos, ConfirmVideo(v)
      PROVE  Standing'
      BY ONLY <1>0, <1>12, ConfirmVideoShape
         DEF LInv, Serving, Executing, FailedRests, OInv, Seeking, Confirming, Active, Idle,
             NoObserver, Bound, At, Standing, Working, Observing, Fetched, Held
<1>13. ASSUME NEW v \in Videos, Present(v)
      PROVE  Standing'
      BY <1>13 DEF Present, Observed, Presentable
<1>14. ASSUME NEW v \in Videos, ObservationFails(v)
      PROVE  Standing'
      BY <1>14 DEF ObservationFails, Observed
<1>15. ASSUME LoadCompletes
      PROVE  Standing'
      BY <1>15 DEF LoadCompletes
<1>16. ASSUME PrepareCompletes
      PROVE  Standing'
      BY <1>16 DEF PrepareCompletes
<1>17. ASSUME StagingCompletes
      PROVE  Standing'
      BY ONLY <1>0, <1>17, StagingShape
         DEF LInv, Serving, Executing, FailedRests, OInv, Seeking, Confirming, Active, Idle,
             NoObserver, Bound, At, Standing, Working, Observing, Fetched
<1>18. ASSUME ConfirmCompletes
      PROVE  Standing'
      BY <1>18 DEF ConfirmCompletes
<1>19. ASSUME ExtensionsSettle
      PROVE  Standing'
      BY <1>19 DEF ExtensionsSettle
<1>20. ASSUME EffectsSettle
      PROVE  Standing'
  <2>1. CASE session'.kind = "failed"
        BY ONLY <2>1 DEF Standing
  <2>2. CASE session'.kind # "failed"
    <3>1. /\ session.kind = "ready" /\ step = "effects" /\ video' = video
          /\ decoded' = decoded
          BY ONLY <1>0, <1>20, <2>2, EffectsShape DEF LInv, Executing, Seeking
    <3> QED
          BY ONLY <1>0, <3>1 DEF OInv, Standing, Working
  <2> QED
        BY ONLY <2>1, <2>2
<1>21. ASSUME ReleaseCompletes
      PROVE  Standing'
      BY <1>21 DEF ReleaseCompletes, NoVideo
<1>22. ASSUME NEW v \in Videos, Decode(v)
      PROVE  Standing'
      BY <1>22 DEF Decode
<1> QED
      BY <1>1, <1>2, <1>3, <1>4, <1>5, <1>6, <1>7, <1>8, <1>9, <1>10, <1>11,
         <1>12, <1>13, <1>14, <1>15, <1>16, <1>17, <1>18, <1>19, <1>20, <1>21, <1>22
         DEF Next, Dispatch, RuntimeStep, BoundedStep, AuthorStep, Compositing, VideoStarts,
             VideoSettles

(* Every step keeps staged videos at the wanted source frame.              *)
LEMMA FetchedStep ==
    ASSUME LInv, Resting, OInv, [Next]_runtimeVars
    PROVE  Fetched'
<1> USE CommandShape, EventFrames
   DEF LInv, TypeOK, Serving, Executing, FailedRests, LifecycleAgreement, Resting, OInv,
       Begin, Finish, Answer, FailSession, FailedSession, FreshSession, Idle, Queue, Settled,
       Failed, Discard,
       Bound, Active, Seeking, Confirming, At, Fetched, Working, Observing, Standing,
       VideoType, SessionType
<1>0. LInv /\ Resting /\ OInv
      OBVIOUS
<1>1. CASE UNCHANGED runtimeVars
      BY <1>1 DEF runtimeVars
<1>2. ASSUME NEW c \in Commands, Reject(c)
      PROVE  Fetched'
      BY <1>2 DEF Reject
<1>3. ASSUME NEW c \in Commands, BeginLoad(c)
      PROVE  Fetched'
      BY <1>3 DEF BeginLoad, Admits, Bind, NoVideo
<1>4. ASSUME NEW c \in Commands, BeginPrepare(c)
      PROVE  Fetched'
      BY <1>4 DEF BeginPrepare, Admits
<1>5. ASSUME NEW c \in Commands, BeginSeek(c)
      PROVE  Fetched'
      BY <1>5 DEF BeginSeek, Admits, Refuse
<1>6. ASSUME NEW c \in Commands, BeginConfirm(c)
      PROVE  Fetched'
      BY <1>6 DEF BeginConfirm, Admits, Refuse
<1>7. ASSUME NEW c \in Commands, BeginDispose(c)
      PROVE  Fetched'
      BY <1>7 DEF BeginDispose, Admits
<1>8. ASSUME NEW v \in Videos, StartLoad(v)
      PROVE  Fetched'
      BY <1>8 DEF StartLoad, NextInput
<1>9. ASSUME NEW v \in Videos, SettleLoad(v)
      PROVE  Fetched'
      BY ONLY <1>0, <1>9, SettleLoadShape
         DEF LInv, Serving, Executing, FailedRests, OInv, Seeking, Confirming, Active, Idle,
             NoObserver, Bound, At, Fetched, Working, Observing, Standing
<1>10. ASSUME NEW v \in Videos, StartStage(v)
      PROVE  Fetched'
      BY <1>10 DEF StartStage, NextInput
<1>11. ASSUME NEW v \in Videos, SettleStage(v)
      PROVE  Fetched'
      BY ONLY <1>0, <1>11, SettleStageShape
         DEF LInv, Serving, Executing, FailedRests, OInv, Seeking, Confirming, Active, Idle,
             NoObserver, Bound, At, Fetched, Working, Observing, Standing
<1>12. ASSUME NEW v \in Videos, ConfirmVideo(v)
      PROVE  Fetched'
      BY ONLY <1>0, <1>12, ConfirmVideoShape
         DEF LInv, Serving, Executing, FailedRests, OInv, Seeking, Confirming, Active, Idle,
             NoObserver, Bound, At, Fetched, Working, Observing, Standing
<1>13. ASSUME NEW v \in Videos, Present(v)
      PROVE  Fetched'
      BY <1>13 DEF Present, Observed, Presentable
<1>14. ASSUME NEW v \in Videos, ObservationFails(v)
      PROVE  Fetched'
      BY <1>14 DEF ObservationFails, Observed
<1>15. ASSUME LoadCompletes
      PROVE  Fetched'
      BY <1>15 DEF LoadCompletes
<1>16. ASSUME PrepareCompletes
      PROVE  Fetched'
      BY <1>16 DEF PrepareCompletes
<1>17. ASSUME StagingCompletes
      PROVE  Fetched'
      BY ONLY <1>0, <1>17, StagingShape
         DEF LInv, Serving, Executing, FailedRests, OInv, Seeking, Confirming, Active, Idle,
             NoObserver, Bound, At, Fetched, Working, Observing, Standing
<1>18. ASSUME ConfirmCompletes
      PROVE  Fetched'
      BY <1>18 DEF ConfirmCompletes
<1>19. ASSUME ExtensionsSettle
      PROVE  Fetched'
      BY <1>19 DEF ExtensionsSettle
<1>20. ASSUME EffectsSettle
      PROVE  Fetched'
      BY ONLY <1>0, <1>20, EffectsShape
         DEF LInv, Serving, Executing, FailedRests, OInv, Seeking, Confirming, Active, Idle,
             NoObserver, Bound, At, Fetched, Working, Observing, Standing
<1>21. ASSUME ReleaseCompletes
      PROVE  Fetched'
      BY <1>21 DEF ReleaseCompletes, NoVideo
<1>22. ASSUME NEW v \in Videos, Decode(v)
      PROVE  Fetched'
      BY <1>22 DEF Decode
<1> QED
      BY <1>1, <1>2, <1>3, <1>4, <1>5, <1>6, <1>7, <1>8, <1>9, <1>10, <1>11,
         <1>12, <1>13, <1>14, <1>15, <1>16, <1>17, <1>18, <1>19, <1>20, <1>21, <1>22
         DEF Next, Dispatch, RuntimeStep, BoundedStep, AuthorStep, Compositing, VideoStarts,
             VideoSettles

(* Every step keeps the staged frame as it was staged.                     *)
LEMMA HeldStep ==
    ASSUME LInv, Resting, OInv, [Next]_runtimeVars
    PROVE  Held'
<1> USE CommandShape, EventFrames
   DEF LInv, TypeOK, Serving, Executing, FailedRests, LifecycleAgreement, Resting, OInv,
       Begin, Finish, Answer, FailSession, FailedSession, FreshSession, Idle, Queue, Settled,
       Failed, Discard,
       Bound, Active, Seeking, Confirming, At, Held, Working, Observing, Standing, Fetched,
       VideoType, SessionType
<1>0. LInv /\ Resting /\ OInv
      OBVIOUS
<1>1. CASE UNCHANGED runtimeVars
      BY <1>1 DEF runtimeVars
<1>2. ASSUME NEW c \in Commands, Reject(c)
      PROVE  Held'
      BY <1>2 DEF Reject
<1>3. ASSUME NEW c \in Commands, BeginLoad(c)
      PROVE  Held'
      BY <1>3 DEF BeginLoad, Admits, Bind, NoVideo
<1>4. ASSUME NEW c \in Commands, BeginPrepare(c)
      PROVE  Held'
      BY <1>4 DEF BeginPrepare, Admits
<1>5. ASSUME NEW c \in Commands, BeginSeek(c)
      PROVE  Held'
      BY <1>5 DEF BeginSeek, Admits, Refuse
<1>6. ASSUME NEW c \in Commands, BeginConfirm(c)
      PROVE  Held'
      BY <1>6 DEF BeginConfirm, Admits, Refuse
<1>7. ASSUME NEW c \in Commands, BeginDispose(c)
      PROVE  Held'
      BY <1>7 DEF BeginDispose, Admits
<1>8. ASSUME NEW v \in Videos, StartLoad(v)
      PROVE  Held'
      BY <1>8 DEF StartLoad, NextInput
<1>9. ASSUME NEW v \in Videos, SettleLoad(v)
      PROVE  Held'
      BY ONLY <1>0, <1>9, SettleLoadShape
         DEF LInv, Serving, Executing, FailedRests, OInv, Seeking, Confirming, Active, Idle,
             NoObserver, Bound, At, Held, Working, Observing, Standing, Fetched
<1>10. ASSUME NEW v \in Videos, StartStage(v)
      PROVE  Held'
      BY <1>10 DEF StartStage, NextInput
<1>11. ASSUME NEW v \in Videos, SettleStage(v)
      PROVE  Held'
      BY ONLY <1>0, <1>11, SettleStageShape
         DEF LInv, Serving, Executing, FailedRests, OInv, Seeking, Confirming, Active, Idle,
             NoObserver, Bound, At, Held, Working, Observing, Standing, Fetched
<1>12. ASSUME NEW v \in Videos, ConfirmVideo(v)
      PROVE  Held'
      BY ONLY <1>0, <1>12, ConfirmVideoShape
         DEF LInv, Serving, Executing, FailedRests, OInv, Seeking, Confirming, Active, Idle,
             NoObserver, Bound, At, Held, Working, Observing, Standing, Fetched
<1>13. ASSUME NEW v \in Videos, Present(v)
      PROVE  Held'
      BY <1>13 DEF Present, Observed, Presentable
<1>14. ASSUME NEW v \in Videos, ObservationFails(v)
      PROVE  Held'
      BY <1>14 DEF ObservationFails, Observed
<1>15. ASSUME LoadCompletes
      PROVE  Held'
      BY <1>15 DEF LoadCompletes
<1>16. ASSUME PrepareCompletes
      PROVE  Held'
      BY <1>16 DEF PrepareCompletes
<1>17. ASSUME StagingCompletes
      PROVE  Held'
      BY ONLY <1>0, <1>17, StagingShape
         DEF LInv, Serving, Executing, FailedRests, OInv, Seeking, Confirming, Active, Idle,
             NoObserver, Bound, At, Held, Working, Observing, Standing, Fetched
<1>18. ASSUME ConfirmCompletes
      PROVE  Held'
  <2>1. session'.kind # "staged"
        BY <1>18 DEF ConfirmCompletes
  <2> QED
        BY ONLY <2>1 DEF Held
<1>19. ASSUME ExtensionsSettle
      PROVE  Held'
      BY <1>19 DEF ExtensionsSettle
<1>20. ASSUME EffectsSettle
      PROVE  Held'
  <2>1. CASE session'.kind # "staged"
        BY ONLY <2>1 DEF Held
  <2>2. CASE session'.kind = "staged"
    <3>1. /\ Seeking /\ step = "effects" /\ video' = video /\ decoded' = decoded
          /\ session'.frame = command.frame /\ work' = Idle
          BY ONLY <1>0, <1>20, <2>2, EffectsShape DEF LInv
    <3>2. \A w \in Active(command.frame) : w \in Videos /\ work[w] = "done"
          BY ONLY <1>0, <3>1 DEF OInv, Working, Active, Bound
    <3>3. Active(session.frame)' = Active(command.frame)
          BY ONLY <3>1 DEF Active, Bound
    <3> QED
          BY ONLY <1>0, <3>1, <3>2, <3>3 DEF OInv, Fetched, Held, At, Idle
  <2> QED
        BY ONLY <2>1, <2>2
<1>21. ASSUME ReleaseCompletes
      PROVE  Held'
  <2>1. session'.kind # "staged"
        BY <1>21 DEF ReleaseCompletes
  <2> QED
        BY ONLY <2>1 DEF Held
<1>22. ASSUME NEW v \in Videos, Decode(v)
      PROVE  Held'
      BY <1>22 DEF Decode
<1> QED
      BY <1>1, <1>2, <1>3, <1>4, <1>5, <1>6, <1>7, <1>8, <1>9, <1>10, <1>11,
         <1>12, <1>13, <1>14, <1>15, <1>16, <1>17, <1>18, <1>19, <1>20, <1>21, <1>22
         DEF Next, Dispatch, RuntimeStep, BoundedStep, AuthorStep, Compositing, VideoStarts,
             VideoSettles

(* Every step keeps the visible videos those of the frame.                 *)
LEMMA ShownStep ==
    ASSUME LInv, Resting, OInv, [Next]_runtimeVars
    PROVE  Shown'
<1> USE CommandShape, EventFrames
   DEF LInv, TypeOK, Serving, Executing, FailedRests, LifecycleAgreement, Resting, OInv,
       Begin, Finish, Answer, FailSession, FailedSession, FreshSession, Idle, Queue, Settled,
       Failed, Discard,
       Bound, Active, Seeking, Confirming, At, Shown, Working, VideoType, SessionType
<1>0. LInv /\ Resting /\ OInv
      OBVIOUS
<1>1. CASE UNCHANGED runtimeVars
      BY <1>1 DEF runtimeVars
<1>2. ASSUME NEW c \in Commands, Reject(c)
      PROVE  Shown'
      BY <1>2 DEF Reject
<1>3. ASSUME NEW c \in Commands, BeginLoad(c)
      PROVE  Shown'
      BY <1>3 DEF BeginLoad, Admits, Bind, NoVideo
<1>4. ASSUME NEW c \in Commands, BeginPrepare(c)
      PROVE  Shown'
      BY <1>4 DEF BeginPrepare, Admits
<1>5. ASSUME NEW c \in Commands, BeginSeek(c)
      PROVE  Shown'
      BY <1>5 DEF BeginSeek, Admits, Refuse
<1>6. ASSUME NEW c \in Commands, BeginConfirm(c)
      PROVE  Shown'
      BY <1>6 DEF BeginConfirm, Admits, Refuse
<1>7. ASSUME NEW c \in Commands, BeginDispose(c)
      PROVE  Shown'
      BY <1>7 DEF BeginDispose, Admits
<1>8. ASSUME NEW v \in Videos, StartLoad(v)
      PROVE  Shown'
      BY <1>8 DEF StartLoad, NextInput
<1>9. ASSUME NEW v \in Videos, SettleLoad(v)
      PROVE  Shown'
      BY ONLY <1>0, <1>9, SettleLoadShape
         DEF LInv, Serving, Executing, FailedRests, OInv, Seeking, Confirming, Active, Idle,
             NoObserver, Bound, At, Shown, Working
<1>10. ASSUME NEW v \in Videos, StartStage(v)
      PROVE  Shown'
      BY <1>10 DEF StartStage, NextInput
<1>11. ASSUME NEW v \in Videos, SettleStage(v)
      PROVE  Shown'
      BY ONLY <1>0, <1>11, SettleStageShape
         DEF LInv, Serving, Executing, FailedRests, OInv, Seeking, Confirming, Active, Idle,
             NoObserver, Bound, At, Shown, Working
<1>12. ASSUME NEW v \in Videos, ConfirmVideo(v)
      PROVE  Shown'
      BY ONLY <1>0, <1>12, ConfirmVideoShape
         DEF LInv, Serving, Executing, FailedRests, OInv, Seeking, Confirming, Active, Idle,
             NoObserver, Bound, At, Shown, Working
<1>13. ASSUME NEW v \in Videos, Present(v)
      PROVE  Shown'
      BY <1>13 DEF Present, Observed, Presentable
<1>14. ASSUME NEW v \in Videos, ObservationFails(v)
      PROVE  Shown'
      BY <1>14 DEF ObservationFails, Observed
<1>15. ASSUME LoadCompletes
      PROVE  Shown'
      BY <1>15 DEF LoadCompletes
<1>16. ASSUME PrepareCompletes
      PROVE  Shown'
      BY <1>16 DEF PrepareCompletes
<1>17. ASSUME StagingCompletes
      PROVE  Shown'
  <2>1. session.kind = "ready" /\ command # None
        BY ONLY <1>0, <1>17, StagingShape DEF LInv, Executing, Seeking
  <2>2. CASE UNCHANGED <<session, command, presentation, video, work, reply>>
        BY ONLY <1>0, <1>17, <2>1, <2>2, StagingShape DEF LInv, Shown, Active, Bound
  <2>3. CASE session'.kind = "failed" /\ step' = "idle"
        BY ONLY <2>3 DEF Shown
  <2> QED
        BY ONLY <1>0, <1>17, <2>2, <2>3, StagingShape DEF LInv
<1>18. ASSUME ConfirmCompletes
      PROVE  Shown'
      BY <1>18 DEF ConfirmCompletes
<1>19. ASSUME ExtensionsSettle
      PROVE  Shown'
      BY <1>19 DEF ExtensionsSettle
<1>20. ASSUME EffectsSettle
      PROVE  Shown'
      BY ONLY <1>0, <1>20, EffectsShape
         DEF LInv, Serving, Executing, FailedRests, OInv, Seeking, Confirming, Active, Idle,
             NoObserver, Bound, At, Shown, Working
<1>21. ASSUME ReleaseCompletes
      PROVE  Shown'
      BY <1>21 DEF ReleaseCompletes, NoVideo
<1>22. ASSUME NEW v \in Videos, Decode(v)
      PROVE  Shown'
      BY <1>22 DEF Decode
<1> QED
      BY <1>1, <1>2, <1>3, <1>4, <1>5, <1>6, <1>7, <1>8, <1>9, <1>10, <1>11,
         <1>12, <1>13, <1>14, <1>15, <1>16, <1>17, <1>18, <1>19, <1>20, <1>21, <1>22
         DEF Next, Dispatch, RuntimeStep, BoundedStep, AuthorStep, Compositing, VideoStarts,
             VideoSettles

(* Every step keeps what the controllers believe true of the screen.       *)
LEMMA PresentedStep ==
    ASSUME LInv, Resting, OInv, [Next]_runtimeVars
    PROVE  Presented'
<1> USE CommandShape
   DEF LInv, TypeOK, Serving, Executing, FailedRests, Resting, OInv, Working,
       Begin, Finish, Answer, FailSession, FailedSession, FreshSession, Idle, Queue, Settled,
       Failed, Seeking, Confirming, Presented, Alive, VideoType, SessionType
<1>0. LInv /\ Resting /\ OInv
      OBVIOUS
<1>1. CASE UNCHANGED runtimeVars
      BY <1>1 DEF runtimeVars
<1>2. ASSUME NEW c \in Commands, Reject(c)
      PROVE  Presented'
      BY <1>2 DEF Reject
<1>3. ASSUME NEW c \in Commands, BeginLoad(c)
      PROVE  Presented'
  <2>1. \A v \in Videos : video'[v].pending = None /\ video'[v].presented = None
    <3>1. PICK n : video' = Bind(n)
          BY ONLY <1>3 DEF BeginLoad
    <3> QED
          BY ONLY <3>1 DEF Bind, NoVideo
  <2> QED
        BY ONLY <2>1 DEF Presented
<1>4. ASSUME NEW c \in Commands, BeginPrepare(c)
      PROVE  Presented'
      BY <1>4 DEF BeginPrepare, Admits
<1>5. ASSUME NEW c \in Commands, BeginSeek(c)
      PROVE  Presented'
      BY <1>5 DEF BeginSeek, Admits, Refuse
<1>6. ASSUME NEW c \in Commands, BeginConfirm(c)
      PROVE  Presented'
      BY <1>6 DEF BeginConfirm, Admits, Refuse
<1>7. ASSUME NEW c \in Commands, BeginDispose(c)
      PROVE  Presented'
      BY <1>7 DEF BeginDispose, Admits
<1>8. ASSUME NEW v \in Videos, StartLoad(v)
      PROVE  Presented'
      BY <1>8 DEF StartLoad, NextInput
<1>9. ASSUME NEW v \in Videos, SettleLoad(v)
      PROVE  Presented'
      BY ONLY <1>0, <1>9, SettleLoadShape
         DEF LInv, Serving, Executing, FailedRests, OInv, Working, Seeking, Confirming, Idle,
             Presented, Alive, At
<1>10. ASSUME NEW v \in Videos, StartStage(v)
      PROVE  Presented'
      BY <1>10 DEF StartStage, NextInput
<1>11. ASSUME NEW v \in Videos, SettleStage(v)
      PROVE  Presented'
      BY ONLY <1>0, <1>11, SettleStageShape
         DEF LInv, Serving, Executing, FailedRests, OInv, Working, Seeking, Confirming, Idle,
             Presented, Alive, At
<1>12. ASSUME NEW v \in Videos, ConfirmVideo(v)
      PROVE  Presented'
      BY ONLY <1>0, <1>12, ConfirmVideoShape
         DEF LInv, Serving, Executing, FailedRests, OInv, Working, Seeking, Confirming, Idle,
             Presented, Alive, At
<1>13. ASSUME NEW v \in Videos, Present(v)
      PROVE  Presented'
  <2>1. /\ UNCHANGED <<session, work>> /\ video[v].pending # None /\ video[v].seen = "waiting"
        /\ onscreen' = [onscreen EXCEPT ![v] = decoded[v]]
        /\ video' = [video EXCEPT ![v].seen = IF Presentable(v) THEN "presented" ELSE "waiting"]
        BY <1>13 DEF Present, Observed
  <2>2. /\ video \in [Videos -> VideoType] /\ onscreen \in [Videos -> SourceTimes \cup {None}]
        OBVIOUS
  <2>3. \A w \in Videos : /\ video'[w].pending = video[w].pending
                          /\ video'[w].presented = video[w].presented
                          /\ w # v => video'[w] = video[w] /\ onscreen'[w] = onscreen[w]
        BY ONLY <2>1, <2>2 DEF VideoType
  <2>4. onscreen'[v] = decoded[v] /\ video'[v].seen = IF Presentable(v) THEN "presented" ELSE "waiting"
        BY ONLY <2>1, <2>2 DEF VideoType
  <2>5. video'[v].seen = "presented" => onscreen'[v] = video'[v].pending
        BY ONLY <2>3, <2>4 DEF Presentable
  <2> QED
        BY ONLY <1>0, <2>1, <2>3, <2>5 DEF OInv, Presented, Alive
<1>14. ASSUME NEW v \in Videos, ObservationFails(v)
      PROVE  Presented'
      BY <1>14 DEF ObservationFails
<1>15. ASSUME LoadCompletes
      PROVE  Presented'
      BY <1>15 DEF LoadCompletes
<1>16. ASSUME PrepareCompletes
      PROVE  Presented'
      BY <1>16 DEF PrepareCompletes
<1>17. ASSUME StagingCompletes
      PROVE  Presented'
      BY ONLY <1>0, <1>17, StagingShape
         DEF LInv, Serving, Executing, FailedRests, OInv, Working, Seeking, Confirming, Idle,
             Presented, Alive, At
<1>18. ASSUME ConfirmCompletes
      PROVE  Presented'
      BY <1>18 DEF ConfirmCompletes
<1>19. ASSUME ExtensionsSettle
      PROVE  Presented'
      BY <1>19 DEF ExtensionsSettle
<1>20. ASSUME EffectsSettle
      PROVE  Presented'
  <2>1. \/ session'.kind = "failed"
        \/ session'.kind = "staged" /\ video' = video
        BY ONLY <1>0, <1>20, EffectsShape DEF LInv
  <2>2. session.kind = "ready" /\ \A v \in Videos : work[v] # "failed"
    <3>1. command # None /\ command.type = "seek" /\ step = "effects"
          BY ONLY <1>0, <1>20, EffectsShape DEF LInv, Seeking
    <3> QED
          BY ONLY <1>0, <3>1 DEF LInv, Executing, OInv, Working
  <2>3. onscreen' = onscreen
        BY ONLY <1>0, <1>20, EffectsShape DEF LInv
  <2> QED
        BY ONLY <1>0, <2>1, <2>2, <2>3 DEF OInv, Presented, Alive
<1>21. ASSUME ReleaseCompletes
      PROVE  Presented'
      BY <1>21 DEF ReleaseCompletes, NoVideo
<1>22. ASSUME NEW v \in Videos, Decode(v)
      PROVE  Presented'
      BY <1>22 DEF Decode
<1> QED
      BY <1>1, <1>2, <1>3, <1>4, <1>5, <1>6, <1>7, <1>8, <1>9, <1>10, <1>11,
         <1>12, <1>13, <1>14, <1>15, <1>16, <1>17, <1>18, <1>19, <1>20, <1>21, <1>22
         DEF Next, Dispatch, RuntimeStep, BoundedStep, AuthorStep, Compositing, VideoStarts,
             VideoSettles

(* Every step keeps what is known of a video whose confirmation failed.    *)
LEMMA FailingStep ==
    ASSUME LInv, Resting, OInv, [Next]_runtimeVars
    PROVE  Failing'
<1> USE CommandShape
<1>0. LInv /\ Resting /\ OInv
      OBVIOUS
<1>1. CASE UNCHANGED runtimeVars
      BY ONLY <1>0, <1>1 DEF runtimeVars, OInv, Failing, Confirming, Unconfirmed
<1>2. ASSUME NEW c \in Commands, Reject(c)
      PROVE  Failing'
      BY ONLY <1>0, <1>2 DEF Reject, OInv, Failing, Confirming, Unconfirmed
<1>3. ASSUME NEW c \in Commands, BeginLoad(c)
      PROVE  Failing'
  <2>1. ~Confirming'
        BY <1>3 DEF BeginLoad, Confirming, Begin
  <2> QED
        BY ONLY <2>1 DEF Failing
<1>4. ASSUME NEW c \in Commands, BeginPrepare(c)
      PROVE  Failing'
  <2>1. ~Confirming'
        BY <1>4 DEF BeginPrepare, Confirming, Begin
  <2> QED
        BY ONLY <2>1 DEF Failing
<1>5. ASSUME NEW c \in Commands, BeginSeek(c)
      PROVE  Failing'
  <2>1. ~Confirming'
        BY <1>5 DEF BeginSeek, Confirming, Begin, Refuse
  <2> QED
        BY ONLY <2>1 DEF Failing
<1>6. ASSUME NEW c \in Commands, BeginConfirm(c)
      PROVE  Failing'
  <2>1. CASE staged = c.frame
        BY ONLY <1>6, <2>1 DEF BeginConfirm, Queue, Failing
  <2>2. CASE staged # c.frame
    <3>1. ~Confirming'
          BY ONLY <1>6, <2>2 DEF BeginConfirm, Refuse, Confirming
    <3> QED
          BY ONLY <3>1 DEF Failing
  <2> QED
        BY ONLY <2>1, <2>2
<1>7. ASSUME NEW c \in Commands, BeginDispose(c)
      PROVE  Failing'
  <2>1. ~Confirming'
        BY <1>7 DEF BeginDispose, Confirming, Begin
  <2> QED
        BY ONLY <2>1 DEF Failing
<1>8. ASSUME NEW v \in Videos, StartLoad(v)
      PROVE  Failing'
  <2>1. ~Confirming'
        BY <1>8 DEF StartLoad, Confirming
  <2> QED
        BY ONLY <2>1 DEF Failing
<1>9. ASSUME NEW v \in Videos, SettleLoad(v)
      PROVE  Failing'
  <2>1. ~Confirming'
        BY <1>9 DEF SettleLoad, Confirming
  <2> QED
        BY ONLY <2>1 DEF Failing
<1>10. ASSUME NEW v \in Videos, StartStage(v)
      PROVE  Failing'
  <2>1. ~Confirming'
        BY <1>10 DEF StartStage, Confirming
  <2> QED
        BY ONLY <2>1 DEF Failing
<1>11. ASSUME NEW v \in Videos, SettleStage(v)
      PROVE  Failing'
  <2>1. ~Confirming'
        BY <1>11 DEF SettleStage, Confirming
  <2> QED
        BY ONLY <2>1 DEF Failing
<1>12. ASSUME NEW v \in Videos, ConfirmVideo(v)
      PROVE  Failing'
  <2>1. /\ UNCHANGED <<command, decoded, visible>> /\ Confirming /\ work[v] = "queued"
        /\ \A w \in Videos \ {v} : work'[w] = work[w] /\ video'[w] = video[w]
        BY ONLY <1>0, <1>12, ConfirmVideoShape DEF LInv
  <2>2. /\ command.frame = session.frame /\ session.kind = "staged"
        /\ v \in Active(command.frame)
        BY ONLY <1>0, <2>1 DEF OInv, Working
  <2>3. /\ v \in visible /\ decoded[v] = At(v, command.frame)
        /\ At(v, command.frame) \in {video[v].presented, video[v].pending}
        BY ONLY <1>0, <2>1, <2>2 DEF OInv, Held, Shown
  <2>4. work'[v] = "failed" => /\ video'[v].pending = None
                               /\ video'[v].presented # At(v, command.frame)
        BY ONLY <1>0, <1>12, <2>3, ConfirmVideoShape DEF LInv
  <2>5. \A w \in Videos : work[w] = "failed" => Unconfirmed(w)
        BY ONLY <1>0, <2>1 DEF OInv, Failing
  <2> QED
        BY ONLY <2>1, <2>3, <2>4, <2>5 DEF Failing, Unconfirmed
<1>13. ASSUME NEW v \in Videos, Present(v)
      PROVE  Failing'
      BY ONLY <1>0, <1>13 DEF Present, Observed, OInv, LInv, TypeOK, Failing, Confirming,
                              Unconfirmed, VideoType
<1>14. ASSUME NEW v \in Videos, ObservationFails(v)
      PROVE  Failing'
      BY ONLY <1>0, <1>14 DEF ObservationFails, Observed, OInv, LInv, TypeOK, Failing,
                              Confirming, Unconfirmed, VideoType
<1>15. ASSUME LoadCompletes
      PROVE  Failing'
  <2>1. ~Confirming'
        BY ONLY <1>15 DEF LoadCompletes, Finish, Answer, Confirming
  <2> QED
        BY ONLY <2>1 DEF Failing
<1>16. ASSUME PrepareCompletes
      PROVE  Failing'
  <2>1. ~Confirming'
        BY <1>16 DEF PrepareCompletes, Confirming, Finish, FailSession, Answer
  <2> QED
        BY ONLY <2>1 DEF Failing
<1>17. ASSUME StagingCompletes
      PROVE  Failing'
  <2>1. ~Confirming'
        BY ONLY <1>17 DEF StagingCompletes, FailSession, Finish, Answer, Confirming
  <2> QED
        BY ONLY <2>1 DEF Failing
<1>18. ASSUME ConfirmCompletes
      PROVE  Failing'
  <2>1. ~Confirming'
        BY <1>18 DEF ConfirmCompletes, Confirming, Finish, FailSession, Answer
  <2> QED
        BY ONLY <2>1 DEF Failing
<1>19. ASSUME ExtensionsSettle
      PROVE  Failing'
  <2>1. ~Confirming'
        BY ONLY <1>0, <1>19 DEF ExtensionsSettle, LInv, Serving, Confirming
  <2> QED
        BY ONLY <2>1 DEF Failing
<1>20. ASSUME EffectsSettle
      PROVE  Failing'
  <2>1. ~Confirming'
        BY <1>20 DEF EffectsSettle, Confirming, Finish, FailSession, Answer
  <2> QED
        BY ONLY <2>1 DEF Failing
<1>21. ASSUME ReleaseCompletes
      PROVE  Failing'
  <2>1. ~Confirming'
        BY <1>21 DEF ReleaseCompletes, Confirming, Finish, FailSession, Answer
  <2> QED
        BY ONLY <2>1 DEF Failing
<1>22. ASSUME NEW v \in Videos, Decode(v)
      PROVE  Failing'
  <2>1. ~Confirming'
        BY <1>22 DEF Decode, Confirming
  <2> QED
        BY ONLY <2>1 DEF Failing
<1> QED
      BY <1>1, <1>2, <1>3, <1>4, <1>5, <1>6, <1>7, <1>8, <1>9, <1>10, <1>11,
         <1>12, <1>13, <1>14, <1>15, <1>16, <1>17, <1>18, <1>19, <1>20, <1>21, <1>22
         DEF Next, Dispatch, RuntimeStep, BoundedStep, AuthorStep, Compositing, VideoStarts,
             VideoSettles

(* Every step keeps the frame that was reported ready.                     *)
LEMMA ReadyStep ==
    ASSUME LInv, Resting, OInv, FrameReadyIsExact, [Next]_runtimeVars
    PROVE  FrameReadyIsExact'
<1> USE CommandShape, EventFrames
   DEF LInv, TypeOK, Serving, Executing, FailedRests, LifecycleAgreement, Resting, OInv,
       Begin, Finish, Answer, FailSession, FailedSession, FreshSession, Idle, Queue, Settled,
       Failed, Discard,
       Bound, Active, Seeking, Confirming, At, FrameReadyIsExact, Working, Held, Shown,
       VideoType, SessionType
<1>0. LInv /\ Resting /\ OInv /\ FrameReadyIsExact
      OBVIOUS
<1>1. CASE UNCHANGED runtimeVars
      BY <1>1 DEF runtimeVars
<1>2. ASSUME NEW c \in Commands, Reject(c)
      PROVE  FrameReadyIsExact'
  <2>1. reply'.event = "invalidRequest"
        BY <1>2 DEF Reject, Respond
  <2> QED
        BY ONLY <2>1 DEF FrameReadyIsExact
<1>3. ASSUME NEW c \in Commands, BeginLoad(c)
      PROVE  FrameReadyIsExact'
      BY <1>3 DEF BeginLoad, Admits, Bind, NoVideo
<1>4. ASSUME NEW c \in Commands, BeginPrepare(c)
      PROVE  FrameReadyIsExact'
      BY <1>4 DEF BeginPrepare, Admits
<1>5. ASSUME NEW c \in Commands, BeginSeek(c)
      PROVE  FrameReadyIsExact'
      BY <1>5 DEF BeginSeek, Admits, Refuse
<1>6. ASSUME NEW c \in Commands, BeginConfirm(c)
      PROVE  FrameReadyIsExact'
      BY <1>6 DEF BeginConfirm, Admits, Refuse
<1>7. ASSUME NEW c \in Commands, BeginDispose(c)
      PROVE  FrameReadyIsExact'
      BY <1>7 DEF BeginDispose, Admits
<1>8. ASSUME NEW v \in Videos, StartLoad(v)
      PROVE  FrameReadyIsExact'
      BY <1>8 DEF StartLoad, NextInput
<1>9. ASSUME NEW v \in Videos, SettleLoad(v)
      PROVE  FrameReadyIsExact'
      BY ONLY <1>0, <1>9, SettleLoadShape DEF LInv, FrameReadyIsExact
<1>10. ASSUME NEW v \in Videos, StartStage(v)
      PROVE  FrameReadyIsExact'
      BY <1>10 DEF StartStage, NextInput
<1>11. ASSUME NEW v \in Videos, SettleStage(v)
      PROVE  FrameReadyIsExact'
      BY ONLY <1>0, <1>11, SettleStageShape DEF LInv, FrameReadyIsExact, Seeking
<1>12. ASSUME NEW v \in Videos, ConfirmVideo(v)
      PROVE  FrameReadyIsExact'
      BY ONLY <1>0, <1>12, ConfirmVideoShape DEF LInv, FrameReadyIsExact, Confirming
<1>13. ASSUME NEW v \in Videos, Present(v)
      PROVE  FrameReadyIsExact'
  <2>1. CASE session.kind = "ready" /\ command = None
        BY ONLY <1>0, <1>13, <2>1 DEF OInv, Observing, Seeking, Present, Observed
  <2>2. CASE ~(session.kind = "ready" /\ command = None)
        BY ONLY <1>13, <2>2 DEF Present, FrameReadyIsExact
  <2> QED
        BY ONLY <2>1, <2>2
<1>14. ASSUME NEW v \in Videos, ObservationFails(v)
      PROVE  FrameReadyIsExact'
      BY <1>14 DEF ObservationFails, Observed
<1>15. ASSUME LoadCompletes
      PROVE  FrameReadyIsExact'
      BY <1>15 DEF LoadCompletes
<1>16. ASSUME PrepareCompletes
      PROVE  FrameReadyIsExact'
  <2>1. reply'.event # "frameReady"
        BY <1>16 DEF PrepareCompletes, Respond
  <2> QED
        BY ONLY <2>1 DEF FrameReadyIsExact
<1>17. ASSUME StagingCompletes
      PROVE  FrameReadyIsExact'
      BY <1>17 DEF StagingCompletes
<1>18. ASSUME ConfirmCompletes
      PROVE  FrameReadyIsExact'
  <2>1. CASE session'.kind # "ready"
        BY ONLY <2>1 DEF FrameReadyIsExact
  <2>2. CASE session'.kind = "ready"
    <3>1. /\ ~Failed /\ Settled /\ Confirming /\ UNCHANGED <<video, decoded, onscreen, visible>>
          /\ reply'.frame = command.frame
          BY <1>18, <2>2 DEF ConfirmCompletes, Respond, EventFrame
    <3>2. command.frame = session.frame /\ session.kind = "staged"
          BY ONLY <1>0, <3>1 DEF OInv, Working
    <3>3. \A w \in Active(session.frame) : work[w] = "done"
          BY <3>1, <3>2
    <3>4. Active(reply.frame)' = Active(session.frame)
          BY ONLY <3>1, <3>2 DEF Active, Bound
    <3>5. \A w \in Active(session.frame) : video[w].pending = None /\ At(w, session.frame) # None
          BY ONLY <1>0, <3>1, <3>2, <3>3 DEF OInv, Observing, Confirming, Seeking, Active, Bound, At
    <3>6. \A w \in Active(session.frame) :
            /\ video[w].presented = At(w, session.frame)
            /\ decoded[w] = At(w, session.frame)
            /\ w \in visible
          BY ONLY <1>0, <3>2, <3>3 DEF OInv, Held, Shown
    <3>7. \A w \in Active(session.frame) : onscreen[w] = At(w, session.frame)
          BY ONLY <1>0, <3>2, <3>3, <3>5, <3>6 DEF OInv, Presented, Alive, Active, Bound
    <3> QED
          BY ONLY <3>1, <3>2, <3>4, <3>6, <3>7 DEF At, FrameReadyIsExact
  <2> QED
        BY ONLY <2>1, <2>2
<1>19. ASSUME ExtensionsSettle
      PROVE  FrameReadyIsExact'
      BY <1>19 DEF ExtensionsSettle
<1>20. ASSUME EffectsSettle
      PROVE  FrameReadyIsExact'
      BY ONLY <1>0, <1>20, EffectsShape DEF LInv, FrameReadyIsExact
<1>21. ASSUME ReleaseCompletes
      PROVE  FrameReadyIsExact'
  <2>1. reply'.event # "frameReady"
        BY <1>21 DEF ReleaseCompletes, Respond
  <2> QED
        BY ONLY <2>1 DEF FrameReadyIsExact
<1>22. ASSUME NEW v \in Videos, Decode(v)
      PROVE  FrameReadyIsExact'
      BY <1>22 DEF Decode
<1> QED
      BY <1>1, <1>2, <1>3, <1>4, <1>5, <1>6, <1>7, <1>8, <1>9, <1>10, <1>11,
         <1>12, <1>13, <1>14, <1>15, <1>16, <1>17, <1>18, <1>19, <1>20, <1>21, <1>22
         DEF Next, Dispatch, RuntimeStep, BoundedStep, AuthorStep, Compositing, VideoStarts,
             VideoSettles

(* The invariant with the observers.                                       *)
THEOREM ObserversHold == RuntimeSpec => [](LInv /\ Resting /\ OInv /\ FrameReadyIsExact)
<1>1. RuntimeInit => OInv /\ FrameReadyIsExact
      BY DEF RuntimeInit, OInv, Working, Observing, Standing, Fetched, Held, Shown, Presented,
             Failing, Seeking,
             Confirming, FrameReadyIsExact, FreshSession, NoVideo, Active
<1>2. LInv /\ Resting /\ OInv /\ FrameReadyIsExact /\ [Next]_runtimeVars =>
          (OInv /\ FrameReadyIsExact)'
      BY WorkingStep, ObservingStep, StandingStep, FetchedStep, HeldStep, ShownStep,
         PresentedStep, FailingStep, ReadyStep DEF OInv
<1> QED
      BY <1>1, <1>2, VideosHold, PTL DEF RuntimeSpec

(* A frame is reported ready only when every video shown at it stands at   *)
(* its source frame, has presented it and is visible, whatever failed, was *)
(* skipped or was retried before: PresentationRuntimeAdapter.confirm never *)
(* answers for another frame than the one that was staged.                 *)
THEOREM FrameReadyIsExactHolds == RuntimeSpec => []FrameReadyIsExact
BY ObserversHold, PTL

(* Between commands no media operation is under way, and no observer is    *)
(* registered but for the staged frame, or for a video that a confirmation *)
(* did not come to because another one's failed.                           *)
THEOREM NothingOutlivesItsCommandHolds == RuntimeSpec => []NothingOutlivesItsCommand
<1>1. LInv /\ OInv => NothingOutlivesItsCommand
      BY DEF LInv, Serving, OInv, Working, Observing, Seeking, NothingOutlivesItsCommand
<1> QED
      BY <1>1, ObserversHold, PTL

-----------------------------------------------------------------------------

(* The type of the native side.                                            *)
NativeType ==
    [job : Jobs, phase : Phases, pass : {"layout", "capture"}, unit : Nat, frame : Int,
     failed : BOOLEAN]

(* The frame at work follows a frame of its page within its placement.     *)
Stable == ~Placement /\ previous # None

(* The phases of the loop of render_frames.                                *)
Capturing ==
    {"initialize", "frame", "seek", "commit", "capture", "retry", "confirm", "recapture", "write"}

(* The phases that send a command.                                         *)
Sending == {"load", "prepare", "seek", "confirm", "dispose"}

(* How unit, frame, pass and phase go together.                            *)
NativeShape ==
    /\ native \in NativeType
    /\ native.unit \in DOMAIN Units
    /\ native.frame \in Unit.from .. Unit.to
    /\ native.pass = "layout" => Unit.preflight /\ native.frame = Unit.from
    /\ native.failed => native.phase \in {"dispose", "shutdown", "failed"}
    /\ native.phase \in Capturing => native.pass = "capture"
    /\ native.phase \in Capturing \ {"frame"} => native.frame < Unit.to
    /\ native.phase \in {"navigate", "load", "prepare", "initialize"} => native.frame = Unit.from
    /\ native.phase = "dispose" /\ ~native.failed /\ native.pass = "capture" =>
          native.frame = Unit.to
    /\ (native.phase = "shutdown" /\ ~native.failed) \/ native.phase = "done" =>
          native.unit = Len(Units) /\ native.frame = Unit.to
    /\ Mode = "screenshot" => native.phase \notin {"commit", "retry"}
    /\ Stable => native.phase \notin {"commit", "recapture"}

(* What the jobs are made of. *)
LEMMA JobFacts ==
    ASSUME NEW job \in Jobs
    PROVE  /\ job.mode \in {"beginFrame", "screenshot"}
           /\ job.units \in Seq(UnitType) /\ job.units # <<>>
           /\ Len(job.units) \in Nat /\ Len(job.units) >= 1 /\ DOMAIN job.units = 1 .. Len(job.units)
           /\ \A u \in DOMAIN job.units :
                /\ job.units[u] \in UnitType
                /\ job.units[u].plan.start \in Int /\ job.units[u].plan.end \in Int
                /\ job.units[u].from \in Int /\ job.units[u].to \in Int
                /\ job.units[u].plan.start <= job.units[u].from
                /\ job.units[u].from < job.units[u].to
                /\ job.units[u].to <= job.units[u].plan.end
                /\ job.units[u].plan \in Plans
                /\ job.units[u].plan.media # "layoutOnly"
                /\ job.units[u].boundaries \subseteq Frames
                /\ job.units[u].look \in [Frames -> Nat]
                /\ job.units[u].preflight => PlanOf(job.units[u], "layout") \in Plans
                /\ \A f \in job.units[u].plan.start .. job.units[u].plan.end - 1 : f \in Frames
                /\ \A f \in job.units[u].from + 1 .. job.units[u].to - 1 :
                      Separates(job.units[u], f)
<1>1. /\ job.mode \in {"beginFrame", "screenshot"}
      /\ job.units \in Seq(UnitType) /\ job.units # <<>>
  BY CaptureAssumption
<1>2. Len(job.units) \in Nat /\ Len(job.units) >= 1 /\ DOMAIN job.units = 1 .. Len(job.units)
  BY <1>1
<1>3. ASSUME NEW u \in DOMAIN job.units
      PROVE  /\ job.units[u] \in UnitType
             /\ job.units[u].plan.start <= job.units[u].from
             /\ job.units[u].from < job.units[u].to
             /\ job.units[u].to <= job.units[u].plan.end
             /\ job.units[u].plan.media # "layoutOnly"
             /\ job.units[u].preflight => PlanOf(job.units[u], "layout") \in Plans
             /\ job.units[u].plan.start .. job.units[u].plan.end - 1 \subseteq Frames
             /\ \A f \in job.units[u].from + 1 .. job.units[u].to - 1 :
                      Separates(job.units[u], f)
  <2>1. job.units[u] \in UnitType
    BY <1>1, <1>2
  <2> HIDE DEF UnitType
  <2> QED
    BY <2>1, CaptureAssumption
<1>4. ASSUME NEW u \in DOMAIN job.units
      PROVE  /\ job.units[u].from \in Int /\ job.units[u].to \in Int
             /\ job.units[u].plan \in Plans
             /\ job.units[u].boundaries \subseteq Frames
             /\ job.units[u].look \in [Frames -> Nat]
  BY <1>3 DEF UnitType
<1>5. ASSUME NEW u \in DOMAIN job.units
      PROVE  job.units[u].plan.start \in Int /\ job.units[u].plan.end \in Int
  BY <1>4, ConstantsAssumption DEF PlanType
<1> QED
  BY <1>1, <1>2, <1>3, <1>4, <1>5

(* The unit at work. *)
LEMMA UnitFacts ==
    ASSUME NativeShape
    PROVE  /\ native.job \in Jobs /\ native.unit \in DOMAIN native.job.units
           /\ Unit = native.job.units[native.unit] /\ Units = native.job.units
           /\ Unit.from \in Int /\ Unit.to \in Int /\ Unit.from < Unit.to
           /\ native.frame \in Int
BY JobFacts DEF NativeShape, NativeType, Unit, Units

(* The frames a unit at work asks for are frames of its plan.              *)
LEMMA FrameFacts ==
    ASSUME NativeShape
    PROVE  /\ Unit.plan.start \in Frames
           /\ native.frame < Unit.to => native.frame \in Frames
           /\ PlanOf(Unit, native.pass) \in Plans
<1>1. /\ Unit.plan.start \in Int /\ Unit.plan.end \in Int
      /\ Unit.plan.start <= Unit.from /\ Unit.from < Unit.to /\ Unit.to <= Unit.plan.end
      /\ \A f \in Unit.plan.start .. Unit.plan.end - 1 : f \in Frames
      /\ Unit.plan \in Plans
      /\ Unit.preflight => PlanOf(Unit, "layout") \in Plans
  <2>1. /\ native.job \in Jobs /\ native.unit \in DOMAIN native.job.units
        /\ Unit = native.job.units[native.unit]
    BY UnitFacts
  <2> QED
    BY ONLY <2>1, JobFacts
<1>2. native.frame \in Unit.from .. Unit.to /\ Unit.from \in Int /\ Unit.to \in Int
  BY UnitFacts DEF NativeShape
<1>3. PlanOf(Unit, native.pass) \in Plans
  BY <1>1 DEF NativeShape, NativeType, PlanOf
<1> QED
  BY <1>1, <1>2, <1>3

(* Every request is a command. *)
LEMMA Requests ==
    ASSUME NativeShape, native.phase \in Sending
    PROVE  /\ Request \in Commands /\ Request # None
           /\ Request.type = native.phase
           /\ native.phase = "load" => Request.plan = PlanOf(Unit, native.pass)
           /\ native.phase = "prepare" => Request.frame = Unit.plan.start
           /\ native.phase \in {"seek", "confirm"} => Request.frame = native.frame
<1>1. native.phase \in {"seek", "confirm"} => native.frame \in Frames
  BY FrameFacts DEF NativeShape, Capturing
<1>2. Request \in Commands
  BY <1>1, FrameFacts DEF Request, Commands, LoadCommand, FrameCommand, DisposeCommand, Sending
<1> QED
  BY <1>2, CommandShape DEF Request, LoadCommand, FrameCommand, DisposeCommand, Sending

(* Turns, navigations, and how the runtime moves *)
Turned ==
    \E vs \in SUBSET {v \in Videos : Presentable(v)} :
        /\ video' = [v \in Videos |-> IF v \in vs THEN [video[v] EXCEPT !.seen = "presented"]
                                                  ELSE video[v]]
        /\ onscreen' = [v \in Videos |-> IF v \in vs THEN decoded[v] ELSE onscreen[v]]
        /\ UNCHANGED <<session, command, step, presentation, staged, work, decoded, visible,
                       reply>>

Reloaded ==
    /\ session' = FreshSession /\ command' = None /\ step' = "idle"
    /\ presentation' = "empty" /\ staged' = None
    /\ video' = [v \in Videos |-> NoVideo] /\ work' = Idle
    /\ decoded' = [v \in Videos |-> None] /\ onscreen' = [v \in Videos |-> None]
    /\ visible' = {} /\ reply' = reply

(* To the page, a turn of the compositor only presents frames.             *)
LEMMA TurnShape == Turn => Turned
BY DEF Turn, Turned

(* Whatever the native side does, the page takes one of its own steps,     *)
(* takes a turn or is replaced.                                            *)
LEMMA RuntimeMoves ==
    ASSUME NativeShape, [CaptureNext]_vars
    PROVE  [Next]_runtimeVars \/ Turned \/ Reloaded
<1>1. CASE Navigate
  BY <1>1 DEF Navigate, Reloaded, runtimeVars
<1>2. CASE Send
  <2>1. Dispatch(Request) /\ Request \in Commands
    BY <1>2, Requests DEF Send, Sending
  <2> QED
    BY <2>1 DEF Next
<1>3. CASE Receive
  BY <1>3 DEF Receive
<1>4. CASE GiveUp
  BY <1>4 DEF GiveUp
<1>5. CASE InitializeSurface
  BY <1>5, TurnShape DEF InitializeSurface
<1>6. CASE ChooseFrame
  BY <1>6 DEF ChooseFrame
<1>7. CASE CommitSurface
  BY <1>7, TurnShape DEF CommitSurface
<1>8. CASE Capture
  BY <1>8, TurnShape DEF Capture
<1>9. CASE RetryCapture
  BY <1>9, TurnShape DEF RetryCapture
<1>10. CASE Recapture
  BY <1>10, TurnShape DEF Recapture
<1>11. CASE TakeScreenshot
  BY <1>11 DEF TakeScreenshot
<1>12. CASE Write
  BY <1>12 DEF Write
<1>13. CASE StepFails
  BY <1>13 DEF StepFails
<1>14. CASE Shutdown
  BY <1>14 DEF Shutdown
<1>15. CASE PageStep
  BY <1>15 DEF PageStep, Next, Compositing
<1>16. ASSUME NEW v \in Videos, FreeTurn(v)
       PROVE  [Next]_runtimeVars
  BY <1>16 DEF FreeTurn, Next, Compositing
<1>17. CASE UNCHANGED vars
  BY <1>17 DEF vars
<1> QED
  BY <1>1, <1>2, <1>3, <1>4, <1>5, <1>6, <1>7, <1>8, <1>9, <1>10, <1>11, <1>12, <1>13, <1>14,
     <1>15, <1>16, <1>17 DEF CaptureNext, NativeStep, Stop

(* A page with a plan has bound the videos of that plan.                   *)
BoundTo(plan) == Bound = IF plan.media = "decoded" THEN Videos ELSE {}

(* Which videos are bound, while loading too.                              *)
BoundAsPlanned ==
    /\ session.kind \in {"loaded", "ready", "staged"} => BoundTo(session.plan)
    /\ step \in {"extensions", "videos"} /\ command.type = "load" => BoundTo(command.plan)
    /\ command # None /\ command.type = "load" =>
          \A v \in Videos : work[v] # "idle" => v \in Bound

(* What was shown of the page above, and BoundAsPlanned. *)
RInv ==
    /\ LInv /\ Living /\ Released /\ Resting
    /\ OInv /\ FrameReadyIsExact /\ BoundAsPlanned

(* The invariant of the page holds in the beginning.                       *)
LEMMA RuntimeInitial == RuntimeInit => RInv
<1> SUFFICES ASSUME RuntimeInit PROVE RInv
  OBVIOUS
<1>1. LInv
  BY TypeInit DEF RuntimeInit, LInv, Serving, Executing, FailedRests, LifecycleAgreement,
     FreshSession
<1>2. Living /\ Released /\ Resting /\ BoundAsPlanned
  BY DEF RuntimeInit, Living, Released, Resting, FreshSession, NoVideo, BoundAsPlanned
<1>3. OInv /\ FrameReadyIsExact
  BY DEF RuntimeInit, OInv, Working, Observing, Standing, Fetched, Held, Shown, Presented,
         Failing,
         Seeking, Confirming, FrameReadyIsExact, FreshSession, NoVideo, Active
<1> QED
  BY <1>1, <1>2, <1>3 DEF RInv

(* The controllers of a turn. *)
LEMMA TurnedVideos ==
    ASSUME TypeOK, Turned
    PROVE  /\ TypeOK'
           /\ UNCHANGED <<session, command, step, presentation, staged, work, decoded, visible, reply>>
           /\ \A v \in Videos : /\ video'[v].state = video[v].state
                                /\ video'[v].pending = video[v].pending
                                /\ video'[v].presented = video[v].presented
                                /\ \/ /\ video'[v] = video[v]
                                      /\ onscreen'[v] = onscreen[v]
                                   \/ /\ video[v].pending # None
                                      /\ onscreen'[v] = video[v].pending
           /\ Bound' = Bound /\ Bound \subseteq Videos
<1>1. PICK vs \in SUBSET {v \in Videos : Presentable(v)} :
        /\ video' = [v \in Videos |-> IF v \in vs THEN [video[v] EXCEPT !.seen = "presented"]
                                                  ELSE video[v]]
        /\ onscreen' = [v \in Videos |-> IF v \in vs THEN decoded[v] ELSE onscreen[v]]
        /\ UNCHANGED <<session, command, step, presentation, staged, work, decoded, visible, reply>>
  BY DEF Turned
<1>2. \A v \in Videos : video[v] \in VideoType
  BY DEF TypeOK
<1>3. \A v \in Videos : /\ video'[v] \in VideoType
                         /\ video'[v].state = video[v].state
                         /\ video'[v].pending = video[v].pending
                         /\ video'[v].presented = video[v].presented
  BY <1>1, <1>2 DEF VideoType
<1>4. \A v \in Videos : \/ /\ video'[v] = video[v]
                           /\ onscreen'[v] = onscreen[v]
                        \/ /\ video[v].pending # None
                           /\ onscreen'[v] = video[v].pending
  BY <1>1 DEF Presentable, Observed
<1>5. video' \in [Videos -> VideoType] /\ onscreen' \in [Videos -> SourceTimes \cup {None}]
  BY <1>1, <1>3 DEF TypeOK
<1>6. TypeOK'
  BY <1>1, <1>5 DEF TypeOK
<1>7. Bound' = Bound /\ Bound \subseteq Videos
  BY <1>3 DEF Bound
<1> QED
  BY ONLY <1>1, <1>3, <1>4, <1>6, <1>7

(* A turn keeps the invariant of the page.                                 *)
LEMMA TurnedStep ==
    ASSUME RInv, Turned
    PROVE  RInv'
<1>1. /\ TypeOK'
      /\ UNCHANGED <<session, command, step, presentation, staged, work, decoded, visible, reply>>
      /\ \A v \in Videos : /\ video'[v].state = video[v].state
                           /\ video'[v].pending = video[v].pending
                           /\ video'[v].presented = video[v].presented
                           /\ \/ /\ video'[v] = video[v]
                                 /\ onscreen'[v] = onscreen[v]
                              \/ /\ video[v].pending # None
                                 /\ onscreen'[v] = video[v].pending
      /\ Bound' = Bound /\ Bound \subseteq Videos
  BY TurnedVideos DEF RInv, LInv
<1>2. LInv'
  BY <1>1 DEF RInv, LInv, Serving, Executing, FailedRests, LifecycleAgreement
<1>3. Living' /\ Released' /\ Resting' /\ BoundAsPlanned'
  BY <1>1 DEF RInv, Living, Released, Resting, BoundAsPlanned, BoundTo
<1>4. Working'
  BY <1>1 DEF RInv, OInv, Working, Seeking, Confirming, Active
<1>5. Observing'
  BY ONLY RInv, <1>1 DEF RInv, OInv, Observing, Unconfirmed, Seeking, Confirming, At, Active
<1>6. Standing'
  BY <1>1 DEF RInv, OInv, Standing
<1>7. Fetched'
  BY <1>1 DEF RInv, OInv, Fetched, Seeking, At
<1>8. Held'
  BY ONLY RInv, <1>1 DEF RInv, OInv, Held, At, Active
<1>9. Shown'
  BY <1>1 DEF RInv, OInv, Shown, Active
<1>10. Presented'
  BY ONLY RInv, <1>1 DEF RInv, OInv, Presented, Alive
<1>11. Failing'
  BY ONLY RInv, <1>1 DEF RInv, OInv, Failing, Unconfirmed, Confirming
<1>12. FrameReadyIsExact'
  <2>1. session.kind = "ready" /\ command = None => onscreen' = onscreen
    <3> SUFFICES ASSUME session.kind = "ready", command = None
                 PROVE  onscreen' = onscreen
      OBVIOUS
    <3>1. \A v \in Videos : video[v].pending = None
      BY ONLY RInv, session.kind = "ready", command = None DEF RInv, OInv, Observing, Seeking
    <3>2. \A v \in Videos : onscreen'[v] = onscreen[v]
      BY ONLY <1>1, <3>1
    <3> QED
      BY <1>1, <3>2 DEF RInv, LInv, TypeOK
  <2> QED
    BY ONLY RInv, <1>1, <2>1 DEF RInv, FrameReadyIsExact, Active
<1> QED
  BY <1>2, <1>3, <1>4, <1>5, <1>6, <1>7, <1>8, <1>9, <1>10, <1>11, <1>12 DEF RInv, OInv

(* A page that is replaced starts from a fresh runtime.                    *)
LEMMA ReloadedStep ==
    ASSUME TypeOK, Reloaded
    PROVE  RInv'
<1>1. TypeOK'
  BY ConstantsAssumption
     DEF TypeOK, Reloaded, FreshSession, NoVideo, SessionType, VideoType, Events, Idle
<1>2. LInv'
  BY <1>1 DEF Reloaded, LInv, Serving, Executing, FailedRests, LifecycleAgreement, FreshSession
<1>3. Living' /\ Released' /\ Resting' /\ BoundAsPlanned'
  BY DEF Reloaded, Living, Released, Resting, FreshSession, NoVideo, BoundAsPlanned, Idle
<1>4. OInv' /\ FrameReadyIsExact'
  BY DEF Reloaded, OInv, Working, Observing, Standing, Fetched, Held, Shown, Presented, Failing,
         Seeking, Confirming, FrameReadyIsExact, FreshSession, NoVideo, Active, Idle
<1> QED
  BY <1>2, <1>3, <1>4 DEF RInv

(* Loading binds the videos of its plan, and only those.                   *)
LEMMA BoundStep ==
    ASSUME LInv, Resting, OInv, BoundAsPlanned, [Next]_runtimeVars
    PROVE  BoundAsPlanned'
<1> USE CommandShape DEF LInv, TypeOK, Serving, Executing, FailedRests, BoundAsPlanned, BoundTo,
       Begin, Finish, Answer, FailSession, FailedSession, FreshSession, SessionType
<1>0. LInv /\ Resting /\ OInv /\ BoundAsPlanned
      OBVIOUS
<1>1. CASE UNCHANGED runtimeVars
      BY <1>1 DEF runtimeVars, Bound
<1>2. ASSUME NEW c \in Commands, Reject(c)
      PROVE  BoundAsPlanned'
  <2>1. Bound' = Bound
        BY <1>2 DEF Reject, Bound
  <2> QED
        BY <1>2, <2>1 DEF Reject
<1>3. ASSUME NEW c \in Commands, BeginLoad(c)
      PROVE  BoundAsPlanned'
  <2>1. session.kind = "empty" /\ session' = session /\ command' = c
        BY <1>3 DEF BeginLoad, Admits
  <2>2. \A v \in Videos : work'[v] = "idle"
        BY ONLY <1>0, <1>3 DEF BeginLoad, Begin, LInv, Serving, OInv, Working
  <2>3. CASE step' = "release"
        BY ONLY <2>1, <2>2, <2>3 DEF BoundAsPlanned
  <2>4. CASE step' = "extensions"
    <3>1. video' = Bind(IF c.plan.media = "decoded" THEN Len(VideoOrder) ELSE 0)
          BY <1>3, <2>4 DEF BeginLoad
    <3>2. CASE c.plan.media # "decoded"
      <4>1. \A v \in Videos : video'[v].state = "unbound"
            BY <3>1, <3>2 DEF Bind, NoVideo
      <4> QED
          BY ONLY <2>1, <2>2, <3>2, <4>1 DEF BoundAsPlanned, BoundTo, Bound
    <3>3. CASE c.plan.media = "decoded"
      <4>1. ASSUME NEW v \in Videos
            PROVE  video'[v].state = "empty"
        <5>1. PICK i \in DOMAIN VideoOrder : VideoOrder[i] = v
              BY DEF Videos
        <5>2. i \in 1 .. Len(VideoOrder)
              BY ConstantsAssumption
        <5> QED
              BY <3>1, <3>3, <5>1, <5>2 DEF Bind, NoVideo
      <4> QED
          BY ONLY <2>1, <2>2, <3>3, <4>1 DEF BoundAsPlanned, BoundTo, Bound
    <3> QED
          BY ONLY <3>2, <3>3
  <2> QED
        BY <1>3, <2>3, <2>4 DEF BeginLoad
<1>4. ASSUME NEW c \in Commands, BeginPrepare(c)
      PROVE  BoundAsPlanned'
  <2>1. Bound' = Bound
        BY <1>4 DEF BeginPrepare, Bound
  <2> QED
        BY <1>4, <2>1 DEF BeginPrepare, Admits
<1>5. ASSUME NEW c \in Commands, BeginSeek(c)
      PROVE  BoundAsPlanned'
  <2>1. Bound' = Bound
        BY <1>5 DEF BeginSeek, Bound
  <2> QED
        BY <1>5, <2>1 DEF BeginSeek, Admits, Refuse
<1>6. ASSUME NEW c \in Commands, BeginConfirm(c)
      PROVE  BoundAsPlanned'
  <2>1. Bound' = Bound
        BY <1>6 DEF BeginConfirm, Bound
  <2> QED
        BY <1>6, <2>1 DEF BeginConfirm, Admits, Refuse
<1>7. ASSUME NEW c \in Commands, BeginDispose(c)
      PROVE  BoundAsPlanned'
  <2>1. Bound' = Bound
        BY <1>7 DEF BeginDispose, Bound
  <2> QED
        BY <1>7, <2>1 DEF BeginDispose, Admits
<1>8. ASSUME NEW v \in Videos, StartLoad(v)
      PROVE  BoundAsPlanned'
  <2>1. Bound' = Bound
        BY <1>8 DEF StartLoad, Bound
  <2> QED
        BY <1>8, <2>1 DEF StartLoad, NextInput
<1>9. ASSUME NEW v \in Videos, SettleLoad(v)
      PROVE  BoundAsPlanned'
  <2>1. Bound' = Bound
    <3>1. work[v] = "running" /\ \A w \in Videos \ {v} : video'[w] = video[w]
          BY <1>9 DEF SettleLoad, TypeOK
    <3>2. video'[v].state \in {"loaded", "empty", "disposed"}
          BY <1>9 DEF SettleLoad, TypeOK, VideoType
    <3>3. video[v].state # "unbound"
          BY <1>9, <3>1 DEF SettleLoad, BoundAsPlanned, Bound
    <3> QED
          BY <3>1, <3>2, <3>3 DEF Bound
  <2> QED
        BY <1>9, <2>1, SettleLoadShape DEF Seeking, Confirming
<1>10. ASSUME NEW v \in Videos, StartStage(v)
      PROVE  BoundAsPlanned'
  <2>1. Bound' = Bound
    <3>1. \/ UNCHANGED video
          \/ video' = [video EXCEPT ![v].pending = MediaTime[v][command.frame],
                                     ![v].seen = "waiting"]
          BY <1>10 DEF StartStage
    <3>2. \A w \in Videos : video'[w].state = video[w].state
          BY <3>1 DEF TypeOK, VideoType
    <3> QED
          BY <3>2 DEF Bound
  <2> QED
        BY <1>10, <2>1 DEF StartStage, NextInput
<1>11. ASSUME NEW v \in Videos, SettleStage(v)
      PROVE  BoundAsPlanned'
  <2>1. Bound' = Bound
        BY <1>11, SettleStageShape
  <2> QED
        BY <1>11, <2>1, SettleStageShape DEF Seeking, Confirming
<1>12. ASSUME NEW v \in Videos, ConfirmVideo(v)
      PROVE  BoundAsPlanned'
  <2>1. Bound' = Bound
        BY <1>12, ConfirmVideoShape
  <2> QED
        BY <1>12, <2>1, ConfirmVideoShape DEF Seeking, Confirming
<1>13. ASSUME NEW v \in Videos, Present(v)
      PROVE  BoundAsPlanned'
  <2>1. Bound' = Bound
    <3>1. \A w \in Videos : video'[w].state = video[w].state
          BY <1>13 DEF Present, Observed, Presentable, TypeOK, VideoType
    <3> QED
          BY <3>1 DEF Bound
  <2> QED
        BY <1>13, <2>1 DEF Present, Observed, Presentable
<1>14. ASSUME NEW v \in Videos, ObservationFails(v)
      PROVE  BoundAsPlanned'
  <2>1. Bound' = Bound
    <3>1. \A w \in Videos : video'[w].state = video[w].state
          BY <1>14 DEF ObservationFails, Observed, TypeOK, VideoType
    <3> QED
          BY <3>1 DEF Bound
  <2> QED
        BY <1>14, <2>1 DEF ObservationFails, Observed
<1>15. ASSUME LoadCompletes
      PROVE  BoundAsPlanned'
  <2>1. Bound' = Bound
        BY <1>15 DEF LoadCompletes, Bound
  <2> QED
        BY <1>15, <2>1 DEF LoadCompletes
<1>16. ASSUME PrepareCompletes
      PROVE  BoundAsPlanned'
  <2>1. Bound' = Bound
        BY <1>16 DEF PrepareCompletes, Bound
  <2> QED
        BY <1>16, <2>1 DEF PrepareCompletes
<1>17. ASSUME StagingCompletes
      PROVE  BoundAsPlanned'
  <2>1. Bound' = Bound
    <3>1. UNCHANGED video \/ video' = Discard(Videos)
          BY <1>17 DEF StagingCompletes
    <3>2. \A w \in Videos : video'[w].state = video[w].state
          BY <3>1, Discarded DEF TypeOK
    <3> QED
          BY <3>2 DEF Bound
  <2> QED
        BY <1>17, <2>1, StagingShape DEF Seeking, Confirming
<1>18. ASSUME ConfirmCompletes
      PROVE  BoundAsPlanned'
  <2>1. Bound' = Bound
        BY <1>18 DEF ConfirmCompletes, Bound
  <2> QED
        BY <1>18, <2>1 DEF ConfirmCompletes
<1>19. ASSUME ExtensionsSettle
      PROVE  BoundAsPlanned'
  <2>1. Bound' = Bound
        BY <1>19 DEF ExtensionsSettle, Bound
  <2>2. command' = command /\ session' = session /\ step = "extensions" /\ command.type = "load"
        BY <1>19 DEF ExtensionsSettle
  <2>3. \A v \in Videos : work'[v] # "idle" => v \in Bound
    <3>1. \A v \in Videos : work[v] = "idle"
          BY ONLY <1>0, <2>2 DEF OInv, Working
    <3> QED
          BY <1>19, <3>1 DEF ExtensionsSettle, Queue
  <2> QED
        BY ONLY <1>0, <2>1, <2>2, <2>3 DEF BoundAsPlanned, BoundTo
<1>20. ASSUME EffectsSettle
      PROVE  BoundAsPlanned'
  <2>1. Bound' = Bound
    <3>1. UNCHANGED video \/ video' = Discard(Videos)
          BY <1>20 DEF EffectsSettle
    <3>2. \A w \in Videos : video'[w].state = video[w].state
          BY <3>1, Discarded DEF TypeOK
    <3> QED
          BY <3>2 DEF Bound
  <2> QED
        BY <1>20, <2>1, EffectsShape DEF Seeking, Confirming
<1>21. ASSUME ReleaseCompletes
      PROVE  BoundAsPlanned'
  <2>1. session'.kind \in {"failed", "disposed"} /\ step' = "idle" /\ command' = None
        BY <1>21 DEF ReleaseCompletes
  <2> QED
        BY ONLY <2>1 DEF BoundAsPlanned
<1>22. ASSUME NEW v \in Videos, Decode(v)
      PROVE  BoundAsPlanned'
  <2>1. Bound' = Bound
    <3>1. \A w \in Videos : video'[w].state = video[w].state
          BY <1>22 DEF Decode, TypeOK, VideoType
    <3> QED
          BY <3>1 DEF Bound
  <2> QED
        BY <1>22, <2>1 DEF Decode
<1> QED
      BY <1>1, <1>2, <1>3, <1>4, <1>5, <1>6, <1>7, <1>8, <1>9, <1>10, <1>11,
         <1>12, <1>13, <1>14, <1>15, <1>16, <1>17, <1>18, <1>19, <1>20, <1>21, <1>22
         DEF Next, Dispatch, RuntimeStep, BoundedStep, AuthorStep, Compositing, VideoStarts,
             VideoSettles

(* The invariant of the page survives every step of the composition.       *)
LEMMA RuntimeInvariantStep ==
    ASSUME RInv, NativeShape, [CaptureNext]_vars
    PROVE  RInv'
<1>1. CASE [Next]_runtimeVars
  <2>1. LInv'
    BY <1>1, TypeStep, LifecycleStep DEF RInv, LInv
  <2>2. Living' /\ Released' /\ Resting' /\ BoundAsPlanned'
    BY <1>1, VideosStep, BoundStep DEF RInv
  <2>3. OInv' /\ FrameReadyIsExact'
    BY <1>1, WorkingStep, ObservingStep, StandingStep, FetchedStep, HeldStep, ShownStep,
           PresentedStep, FailingStep, ReadyStep
       DEF RInv, OInv
  <2> QED
    BY <2>1, <2>2, <2>3 DEF RInv
<1>2. CASE Turned
  BY <1>2, TurnedStep
<1>3. CASE Reloaded
  BY <1>3, ReloadedStep DEF RInv, LInv
<1> QED
  BY <1>1, <1>2, <1>3, RuntimeMoves

(* What an error leaves as it was.                                         *)
LEMMA ErrorShape ==
    ASSUME native \in NativeType, Error
    PROVE  /\ native' \in NativeType /\ native'.failed
           /\ native'.job = native.job /\ native'.unit = native.unit
           /\ native'.pass = native.pass /\ native'.frame = native.frame
           /\ native'.phase \in {"dispose", "shutdown"}
           /\ native.phase \notin {"navigate", "dispose"} => native'.phase = "dispose"
<1> DEFINE p == IF native.phase \in {"navigate", "dispose"} THEN "shutdown" ELSE "dispose"
<1>1. p \in Phases /\ p \in {"dispose", "shutdown"}
  BY DEF Phases
<1>2. native' = [native EXCEPT !.failed = TRUE, !.phase = p]
  BY DEF Error, NativeType
<1>3. native.phase \notin {"navigate", "dispose"} => p = "dispose"
  OBVIOUS
<1> HIDE DEF p
<1> QED
  BY <1>1, <1>2, <1>3 DEF NativeType

(* What a change of phase leaves as it was.                                *)
LEMMA GotoShape ==
    ASSUME native \in NativeType, NEW phase \in Phases, Goto(phase)
    PROVE  /\ native' \in NativeType /\ native'.phase = phase
           /\ native'.failed = native.failed
           /\ native'.job = native.job /\ native'.unit = native.unit
           /\ native'.pass = native.pass /\ native'.frame = native.frame
BY DEF Goto, NativeType

(* A stable capture is one that no placement boundary and no page          *)
(* precedes.                                                               *)
LEMMA StableReason == (CaptureReason = "stable") <=> Stable
BY DEF CaptureReason, Stable

(* Where an accepted answer leads. *)
LEMMA Successors ==
    ASSUME NativeShape, native.phase \in Sending, native' = Successor
    PROVE  /\ native' \in NativeType
           /\ native'.failed = native.failed /\ native'.job = native.job
           /\ \/ /\ native'.pass = native.pass /\ native'.unit = native.unit
                 /\ native'.frame = native.frame
                 /\ \/ native.phase = "load" /\ native'.phase = "prepare"
                    \/ /\ native.phase = "prepare" /\ native.pass = "layout"
                       /\ native'.phase = "dispose"
                    \/ /\ native.phase = "prepare" /\ native.pass = "capture"
                       /\ native'.phase = "initialize"
                    \/ /\ native.phase = "seek" /\ native'.phase = "capture"
                       /\ Stable \/ Mode = "screenshot"
                    \/ /\ native.phase = "seek" /\ native'.phase = "commit"
                       /\ ~Stable /\ Mode # "screenshot"
                    \/ native.phase = "confirm" /\ Stable /\ native'.phase = "write"
                    \/ native.phase = "confirm" /\ ~Stable /\ native'.phase = "recapture"
                    \/ native.phase = "dispose" /\ native.failed /\ native'.phase = "shutdown"
                    \/ /\ native.phase = "dispose" /\ ~native.failed /\ native.pass = "capture"
                       /\ native.unit = Len(Units) /\ native'.phase = "shutdown"
              \/ /\ native.phase = "dispose" /\ ~native.failed /\ native.pass = "layout"
                 /\ native'.phase = "navigate" /\ native'.pass = "capture"
                 /\ native'.unit = native.unit /\ native'.frame = native.frame
              \/ /\ native.phase = "dispose" /\ ~native.failed /\ native.pass = "capture"
                 /\ native.unit < Len(Units) /\ native'.unit = native.unit + 1
                 /\ native'.phase = "navigate"
                 /\ native'.pass = FirstPass(Units[native.unit + 1])
                 /\ native'.frame = Units[native.unit + 1].from
<1>1. /\ native \in NativeType /\ native.unit \in 1 .. Len(Units) /\ Len(Units) \in Nat
      /\ Units = native.job.units /\ native.job \in Jobs
  BY UnitFacts, JobFacts DEF NativeShape
<1>2. CASE native.phase = "load"
  BY <1>1, <1>2 DEF Successor, NativeType, Phases
<1>3. CASE native.phase = "prepare"
  BY <1>1, <1>3 DEF Successor, NativeType, Phases
<1>4. CASE native.phase = "seek"
  BY <1>1, <1>4, StableReason DEF Successor, NativeType, Phases
<1>5. CASE native.phase = "confirm"
  BY <1>1, <1>5, StableReason DEF Successor, NativeType, Phases
<1>6. CASE native.phase = "dispose"
  <2>1. CASE native.failed
    BY <1>1, <1>6, <2>1 DEF Successor, NativeType, Phases
  <2>2. CASE ~native.failed /\ native.pass = "layout"
    BY <1>1, <1>6, <2>2 DEF Successor, NativeType, Phases
  <2>3. CASE ~native.failed /\ native.pass # "layout" /\ native.unit = Len(Units)
    BY <1>1, <1>6, <2>3 DEF Successor, NativeType, Phases
  <2>4. CASE ~native.failed /\ native.pass # "layout" /\ native.unit # Len(Units)
    <3>1. /\ native.unit + 1 \in DOMAIN native.job.units /\ native.unit + 1 \in Nat
          /\ native.unit < Len(Units)
      BY <1>1, <2>4, JobFacts
    <3>2. Units[native.unit + 1].from \in Int
      BY <1>1, <3>1, JobFacts
    <3>3. FirstPass(Units[native.unit + 1]) \in {"layout", "capture"}
      BY DEF FirstPass
    <3>4. native' = [native EXCEPT !.phase = "navigate", !.unit = native.unit + 1,
                                   !.pass = FirstPass(Units[native.unit + 1]),
                                   !.frame = Units[native.unit + 1].from]
      BY <1>6, <2>4 DEF Successor
    <3> QED
      BY <1>1, <1>6, <2>4, <3>1, <3>2, <3>3, <3>4 DEF NativeType, Phases
  <2> QED
    BY <1>1, <2>1, <2>2, <2>3, <2>4 DEF NativeType
<1> QED
  BY <1>2, <1>3, <1>4, <1>5, <1>6 DEF Sending

(* What a response is.                                                     *)
Answers == [event : Events, frame : Frames \cup {None}]

(* What the native side awaits, and what the page still owes it.           *)
Waits ==
    /\ awaiting = None => answer = None
    /\ awaiting # None => native.phase \in Sending /\ awaiting = Request
    /\ awaiting # None /\ answer = None => command = awaiting
    /\ ~native.failed /\ command # None => awaiting # None /\ answer = None
    /\ answer \in Answers \cup {None}

(* Frames, units and passes follow each other in order.                    *)
LEMMA NativeShapeStep ==
    ASSUME NativeShape, Waits, [CaptureNext]_vars
    PROVE  NativeShape'
<1>0. NativeShape /\ Waits
  OBVIOUS
<1>1. CASE Navigate
  <2>1. CASE Goto("load") /\ previous' = None
    BY <1>0, <2>1, <1>1, GotoShape DEF Navigate, NativeShape, Unit, Units, Mode, Stable, Placement,
       Capturing, Phases
  <2>2. CASE Error
    BY <1>0, <2>2, <1>1, ErrorShape DEF Navigate, NativeShape, Unit, Units, Mode, Stable,
       Placement, Capturing, Phases
  <2> QED
    BY <1>1, <2>1, <2>2 DEF Navigate
<1>2. CASE Send
  BY <1>0, <1>2 DEF Send, nativeVars, NativeShape, Unit, Units, Mode, Stable, Placement, Capturing
<1>3. CASE Receive
  <2>0. native.phase \in Sending /\ previous' = previous
    BY <1>3, <1>0 DEF Receive, Waits, Sending
  <2>1. CASE Error
    BY <1>0, <2>0, <2>1, ErrorShape DEF NativeShape, Unit, Units, Mode, Stable, Placement,
       Capturing, Sending
  <2>2. CASE native' = Successor
    <3>1. /\ native \in NativeType /\ native.unit \in 1 .. Len(Units) /\ Len(Units) \in Nat
          /\ Units = native.job.units /\ native.job \in Jobs
      BY <1>0, UnitFacts, JobFacts DEF NativeShape
    <3>2. CASE native'.unit = native.unit + 1
      <4>1. /\ ~native.failed /\ ~native'.failed /\ native'.phase = "navigate"
            /\ native'.pass = FirstPass(Units[native.unit + 1])
            /\ native'.frame = Units[native.unit + 1].from
            /\ native'.unit = native.unit + 1 /\ native'.job = native.job
            /\ native.unit < Len(Units) /\ native' \in NativeType
        BY <1>0, <2>0, <2>2, <3>1, <3>2, Successors
      <4>2. Units' = Units /\ Unit' = Units[native.unit + 1]
        BY <4>1 DEF Units, Unit
      <4>3. /\ native.unit + 1 \in DOMAIN native.job.units
        BY <3>1, <4>1
      <4>4. /\ Unit'.from \in Int /\ Unit'.to \in Int /\ Unit'.from < Unit'.to
        BY <3>1, <4>2, <4>3, JobFacts
      <4>5. native'.pass = "layout" => Unit'.preflight
        BY <4>1, <4>2 DEF FirstPass
      <4>6. native'.frame = Unit'.from /\ native'.unit \in DOMAIN Units'
        BY <3>1, <4>1, <4>2, <4>3
      <4> QED
        BY <4>1, <4>4, <4>5, <4>6 DEF NativeShape, Capturing
    <3>3. CASE native'.unit = native.unit
      <4>1. Units' = Units /\ Unit' = Unit /\ Mode' = Mode /\ native'.job = native.job
        BY <1>0, <2>0, <2>2, <3>3, Successors DEF Units, Unit, Mode
      <4>2. native'.frame = native.frame
        BY <1>0, <2>0, <2>2, <3>1, <3>3, Successors
      <4>3. Stable' <=> Stable
        BY <2>0, <4>1, <4>2 DEF Stable, Placement
      <4>4. Unit.from < Unit.to /\ Unit.from \in Int /\ Unit.to \in Int
        BY <1>0, UnitFacts
      <4> QED
        BY ONLY <1>0, <2>0, <2>2, <3>1, <3>3, <4>1, <4>2, <4>3, <4>4, Successors
           DEF NativeShape, Capturing, Sending
    <3> QED
      BY <1>0, <2>0, <2>2, <3>2, <3>3, Successors
  <2> QED
    BY <1>3, <2>1, <2>2 DEF Receive
<1>4. CASE GiveUp
  <2>1. native.phase \in Sending /\ Error /\ previous' = previous
    BY <1>4, <1>0 DEF GiveUp, Waits, Sending
  <2> QED
    BY <1>0, <2>1, ErrorShape DEF NativeShape, Unit, Units, Mode, Stable, Placement, Capturing,
       Sending
<1>5. CASE InitializeSurface
  BY <1>0, <1>5, GotoShape DEF InitializeSurface, NativeShape, Unit, Units, Mode, Stable,
     Placement, Capturing, Phases
<1>6. CASE ChooseFrame
  <2>1. CASE native.frame = Unit.to
    BY <1>0, <1>6, <2>1, GotoShape DEF ChooseFrame, NativeShape, Unit, Units, Mode, Stable,
       Placement, Capturing, Phases
  <2>2. CASE native.frame # Unit.to
    <3>1. native.frame < Unit.to
      BY <1>0, <2>2, UnitFacts DEF NativeShape
    <3>2. PICK p \in {"write", "seek"} : Goto(p)
      BY <1>6, <2>2 DEF ChooseFrame
    <3> QED
      BY <1>0, <1>6, <3>1, <3>2, GotoShape
         DEF ChooseFrame, NativeShape, Unit, Units, Mode, Stable, Placement, Capturing, Phases
  <2> QED
    BY <2>1, <2>2
<1>7. CASE CommitSurface
  BY <1>0, <1>7, GotoShape DEF CommitSurface, NativeShape, Unit, Units, Mode, Stable, Placement,
     Capturing, Phases
<1>8. CASE Capture
  <2>1. PICK p \in {"confirm", "retry"} : Goto(p)
    BY <1>8 DEF Capture
  <2> QED
    BY <1>0, <1>8, <2>1, GotoShape DEF Capture, NativeShape, Unit, Units, Mode, Stable, Placement,
       Capturing, Phases
<1>9. CASE RetryCapture
  <2>1. CASE Goto("confirm")
    BY <1>0, <1>9, <2>1, GotoShape DEF RetryCapture, NativeShape, Unit, Units, Mode, Stable,
       Placement, Capturing, Phases
  <2>2. CASE Error
    BY <1>0, <1>9, <2>2, ErrorShape DEF RetryCapture, NativeShape, Unit, Units, Mode, Stable,
       Placement, Capturing, Phases
  <2> QED
    BY <1>9, <2>1, <2>2 DEF RetryCapture
<1>10. CASE Recapture
  <2>1. CASE Goto("write")
    BY <1>0, <1>10, <2>1, GotoShape DEF Recapture, NativeShape, Unit, Units, Mode, Stable,
       Placement, Capturing, Phases
  <2>2. CASE Error
    BY <1>0, <1>10, <2>2, ErrorShape DEF Recapture, NativeShape, Unit, Units, Mode, Stable,
       Placement, Capturing, Phases
  <2> QED
    BY <1>10, <2>1, <2>2 DEF Recapture
<1>11. CASE TakeScreenshot
  <2>1. PICK p \in {"confirm", "write"} : Goto(p)
    BY <1>11 DEF TakeScreenshot
  <2> QED
    BY <1>0, <1>11, <2>1, GotoShape DEF TakeScreenshot, NativeShape, Unit, Units, Mode, Stable,
       Placement, Capturing, Phases
<1>12. CASE Write
  <2>1. /\ native.frame \in Int /\ Unit.from \in Int /\ Unit.to \in Int /\ native.frame < Unit.to
        /\ native.phase = "write"
    BY <1>0, <1>12, UnitFacts DEF Write, NativeShape, Capturing
  <2>2. /\ native' \in NativeType /\ native'.phase = "frame" /\ native'.frame = native.frame + 1
        /\ native'.job = native.job /\ native'.unit = native.unit /\ native'.pass = native.pass
        /\ native'.failed = native.failed
    <3>1. native \in NativeType /\ native.frame + 1 \in Int
      BY <1>0, <2>1 DEF NativeShape
    <3>2. native' = [native EXCEPT !.phase = "frame", !.frame = native.frame + 1]
      BY <1>12 DEF Write
    <3> QED
      BY ONLY <3>1, <3>2 DEF NativeType, Phases
  <2>3. Unit' = Unit /\ Units' = Units /\ Mode' = Mode
    BY <2>2 DEF Unit, Units, Mode
  <2> QED
    BY ONLY <1>0, <2>1, <2>2, <2>3 DEF NativeShape, Capturing
<1>13. CASE StepFails
  BY <1>0, <1>13, ErrorShape DEF StepFails, NativeShape, Unit, Units, Mode, Stable, Placement,
     Capturing, Phases
<1>14. CASE Shutdown
  <2>1. CASE ~native.failed /\ Goto("done")
    BY <1>0, <1>14, <2>1, GotoShape DEF Shutdown, NativeShape, Unit, Units, Mode, Stable,
       Placement, Capturing, Phases
  <2>2. CASE Goto("failed")
    BY <1>0, <1>14, <2>2, GotoShape DEF Shutdown, NativeShape, Unit, Units, Mode, Stable,
       Placement, Capturing, Phases
  <2> QED
    BY <1>14, <2>1, <2>2 DEF Shutdown
<1>15. CASE PageStep
  BY <1>0, <1>15 DEF PageStep, nativeVars, NativeShape, Unit, Units, Mode, Stable, Placement,
     Capturing
<1>16. ASSUME NEW v \in Videos, FreeTurn(v)
       PROVE  NativeShape'
  BY <1>0, <1>16 DEF FreeTurn, nativeVars, NativeShape, Unit, Units, Mode, Stable, Placement,
     Capturing
<1>17. CASE UNCHANGED vars
  BY <1>0, <1>17 DEF vars, nativeVars, NativeShape, Unit, Units, Mode, Stable, Placement, Capturing
<1> QED
  BY <1>1, <1>2, <1>3, <1>4, <1>5, <1>6, <1>7, <1>8, <1>9, <1>10,
     <1>11, <1>12, <1>13, <1>14, <1>15, <1>16, <1>17
     DEF CaptureNext, NativeStep, Stop

(* How a command is taken, seen from outside the adapter. *)
Began(c) ==
    /\ command = None /\ command' = c /\ reply' = reply
    /\ Admits(c)
    /\ IF c.type = "dispose" THEN session'.kind = "disposed" /\ staged' = None
                             ELSE session' = session /\ staged' = staged

Refused(c) ==
    /\ command' = command /\ staged' = staged
    /\ reply'.event \in {"invalidRequest", "seekFailed", "confirmFailed"}
    /\ session' = session \/ (command = None /\ session'.kind = "failed")

DisposedBefore(c) ==
    /\ c.type = "dispose" /\ command = None /\ command' = None /\ staged' = staged
    /\ session'.kind = "disposed"
    /\ reply' = [event |-> "disposed", frame |-> None]

(* A command that is sent begins, is refused, or finds the page disposed   *)
(* already.                                                                *)
LEMMA DispatchShape ==
    ASSUME TypeOK, NEW c \in Commands, Dispatch(c)
    PROVE  Began(c) \/ Refused(c) \/ DisposedBefore(c)
<1> USE CommandShape
<1>1. CASE Reject(c)
  <2>1. reply' = [event |-> "invalidRequest", frame |-> EventFrame(c)]
    BY <1>1 DEF Reject, Respond
  <2>2. UNCHANGED <<session, command, staged>>
    BY <1>1 DEF Reject
  <2> QED
    BY ONLY <2>1, <2>2 DEF Refused
<1>2. CASE BeginLoad(c)
  BY <1>2 DEF BeginLoad, Begin, Began
<1>3. CASE BeginPrepare(c)
  BY <1>3 DEF BeginPrepare, Begin, Began
<1>4. CASE BeginSeek(c)
  BY <1>4 DEF BeginSeek, Begin, Began, Refused, Refuse, Respond,
              FailedSession, FreshSession
<1>5. CASE BeginConfirm(c)
  BY <1>5 DEF BeginConfirm, Begin, Began, Refused, Refuse, Respond,
              FailedSession, FreshSession
<1>6. CASE BeginDispose(c)
  <2>1. session'.kind = "disposed"
    BY <1>6 DEF BeginDispose, FreshSession
  <2>2. CASE presentation = "disposed"
    BY <1>6, <2>1, <2>2 DEF BeginDispose, Respond, EventFrame, DisposedBefore
  <2>3. CASE presentation # "disposed"
    BY <1>6, <2>1, <2>3 DEF BeginDispose, Began
  <2> QED
    BY <2>2, <2>3
<1> QED
  BY <1>1, <1>2, <1>3, <1>4, <1>5, <1>6 DEF Dispatch

(* Taking a command puts nothing on the screen. *)
LEMMA DispatchShowsNothing ==
    ASSUME NEW c \in Commands, Dispatch(c)
    PROVE  onscreen' = onscreen
BY DEF Dispatch, Reject, BeginLoad, BeginPrepare, BeginSeek, BeginConfirm, BeginDispose

(* How a step of the page ends a command. *)
Works == UNCHANGED <<session, command, staged, reply>>

Ends(event, type) ==
    /\ command.type = type /\ command' = None
    /\ reply' = [event |-> event, frame |-> EventFrame(command)]

Concludes ==
    \/ /\ Ends("loaded", "load") /\ session'.kind = "loaded"
       /\ session'.plan = command.plan /\ staged' = staged
    \/ /\ Ends("prepared", "prepare") /\ session'.kind = "ready"
       /\ session'.plan = session.plan /\ staged' = staged
    \/ /\ Ends("frameStaged", "seek") /\ session'.kind = "staged"
       /\ session'.plan = session.plan /\ session'.frame = command.frame
       /\ staged' = command.frame
    \/ /\ Ends("frameReady", "confirm") /\ session'.kind = "ready"
       /\ session'.plan = session.plan /\ staged' = None
    \/ /\ Ends("disposed", "dispose") \/ Ends("internal", "dispose")
       /\ session' = session /\ staged' = staged
    \/ /\ \/ Ends("loadFailed", "load") \/ Ends("prepareFailed", "prepare")
          \/ Ends("seekFailed", "seek") \/ Ends("confirmFailed", "confirm")
       /\ session'.kind = "failed" /\ staged' \in {staged, None}

(* A step of the runtime works on its command or ends it.                  *)
LEMMA RuntimeStepShape ==
    ASSUME TypeOK, Serving, RuntimeStep
    PROVE  command # None /\ onscreen' = onscreen /\ (Works \/ Concludes)
<1> USE DEF TypeOK, Serving, SessionType
<1>1. ASSUME NEW v \in Videos, VideoStarts(v) \/ VideoSettles(v) \/ ConfirmVideo(v)
      PROVE  command # None /\ onscreen' = onscreen /\ Works
  BY <1>1 DEF VideoStarts, VideoSettles, StartLoad, StartStage, SettleLoad, Decode, SettleStage,
              ConfirmVideo, Works
<1>2. CASE LoadCompletes
  BY <1>2 DEF LoadCompletes, Works, Concludes, Ends, Finish, Answer, Respond
<1>3. CASE PrepareCompletes
  BY <1>3 DEF PrepareCompletes, Works, Concludes, Ends, Finish, Answer, FailSession,
              FailedSession, FreshSession, Respond
<1>4. CASE StagingCompletes
  BY <1>4 DEF StagingCompletes, Works, Concludes, Ends, Finish, Answer, FailSession,
              FailedSession, FreshSession, Respond
<1>5. CASE ConfirmCompletes
  BY <1>5 DEF ConfirmCompletes, Works, Concludes, Ends, Finish, Answer, FailSession,
              FailedSession, FreshSession, Respond
<1>6. CASE ExtensionsSettle
  BY <1>6 DEF ExtensionsSettle, Works
<1>7. CASE EffectsSettle
  BY <1>7 DEF EffectsSettle, Works, Concludes, Ends, Finish, Answer, FailSession,
              FailedSession, FreshSession, Respond
<1>8. CASE ReleaseCompletes
  BY <1>8 DEF ReleaseCompletes, Works, Concludes, Ends, Finish, Answer, FailSession,
              FailedSession, FreshSession, Respond
<1> QED
  BY <1>1, <1>2, <1>3, <1>4, <1>5, <1>6, <1>7, <1>8 DEF RuntimeStep, BoundedStep, AuthorStep

(* What a step of the page answers. *)
LEMMA PageStepShape ==
    ASSUME LInv, PageStep
    PROVE  /\ UNCHANGED <<native, awaiting, lastCapture, shot, previous, clock, written, screen,
                          copied, onscreen>>
           /\ \/ Works /\ answer' = answer /\ UNCHANGED <<shown, age>>
              \/ /\ command # None /\ Concludes
                 /\ answer' = IF awaiting = command THEN reply' ELSE answer
                 /\ IF reply'.event = "frameStaged"
                    THEN /\ shown' = staged'
                         /\ age' = IF shown = None \/ Segment(shown) # Segment(staged')
                                   THEN 0 ELSE age
                    ELSE UNCHANGED <<shown, age>>
<1>0. onscreen' = onscreen
  BY RuntimeStepShape DEF PageStep, LInv, ObservationFails
<1>1. CASE RuntimeStep
  <2>1. CASE Works
    BY <1>0, <2>1 DEF Works, PageStep
  <2>2. CASE Concludes
    <3>1. command # None /\ command' = None
      BY <1>1, <2>2, RuntimeStepShape DEF LInv, Concludes, Ends
    <3>2. CASE reply'.event = "frameStaged"
      <4>1. staged' = command.frame /\ command.type = "seek"
        BY <2>2, <3>2 DEF Concludes, Ends
      <4>2. staged' # None /\ staged' # staged
        BY <3>1, <4>1, CommandShape, ConstantsAssumption DEF LInv, Executing, TypeOK
      <4> QED
        <5>1. /\ shown' = staged'
              /\ age' = IF shown = None \/ Segment(shown) # Segment(staged') THEN 0 ELSE age
          BY ONLY PageStep, <4>2 DEF PageStep
        <5>2. answer' = IF awaiting = command THEN reply' ELSE answer
          BY ONLY PageStep, <3>1 DEF PageStep
        <5>3. UNCHANGED <<native, awaiting, lastCapture, shot, previous, clock, written, screen,
                          copied, onscreen>>
          BY ONLY <1>0, PageStep DEF PageStep
        <5> QED
          BY ONLY <2>2, <3>1, <3>2, <5>1, <5>2, <5>3
    <3>3. CASE reply'.event # "frameStaged"
      <4>1. staged' \in {staged, None}
        BY <2>2, <3>3 DEF Concludes, Ends
      <4> QED
        BY <1>0, <2>2, <3>1, <3>3, <4>1 DEF PageStep
    <3> QED
      BY <3>2, <3>3
  <2> QED
    BY <1>1, <2>1, <2>2, RuntimeStepShape DEF LInv
<1>2. ASSUME NEW v \in Videos, ObservationFails(v)
      PROVE  Works
  BY <1>2 DEF ObservationFails, Observed, Works
<1> QED
  BY <1>0, <1>1, <1>2 DEF PageStep, Works

(* The native side and the page agree on what is awaited, abandoned        *)
(* commands included.                                                      *)
LEMMA WaitsStep ==
    ASSUME RInv, NativeShape, Waits, [CaptureNext]_vars
    PROVE  Waits'
<1>0. RInv /\ NativeShape /\ Waits
  OBVIOUS
<1>00. RInv'
  BY RuntimeInvariantStep
<1>1. CASE Navigate
  <2>1. /\ native.phase \notin Sending /\ awaiting' = awaiting /\ answer' = answer
        /\ command' \in {command, None}
    BY <1>1 DEF Navigate, Sending, runtimeVars
  <2>2. native'.failed \/ native'.failed = native.failed
    BY <1>0, <1>1, ErrorShape, GotoShape DEF Navigate, NativeShape, Phases
  <2> QED
    BY ONLY <1>0, <2>1, <2>2 DEF Waits
<1>2. CASE Send
  <2>1. /\ native.phase \in Sending /\ native' = native /\ awaiting = None
        /\ awaiting' = Request /\ Dispatch(Request)
        /\ answer' = IF command = None /\ command' # None THEN None ELSE reply'
    BY <1>2 DEF Send, Sending
  <2>2. Request \in Commands /\ Request # None /\ Request' = Request
    BY <1>0, <2>1, Requests DEF Request, Unit, Units
  <2>3. Began(Request) \/ Refused(Request) \/ DisposedBefore(Request)
    BY <1>0, <2>1, <2>2, DispatchShape DEF RInv, LInv
  <2>4. reply' \in Answers /\ reply' # None
    BY <1>00, NoAnswerAssumption DEF RInv, LInv, TypeOK, Answers
  <2>5. CASE Began(Request)
    <3>1. command' = Request /\ answer' = None
      BY ONLY <2>1, <2>2, <2>5 DEF Began
    <3> QED
      BY ONLY <1>0, <2>1, <2>2, <3>1 DEF Waits
  <2>6. CASE Refused(Request) \/ DisposedBefore(Request)
    <3>1. command' = command /\ answer' = reply'
      BY ONLY <2>1, <2>2, <2>6 DEF Refused, DisposedBefore
    <3> QED
      BY ONLY <1>0, <2>1, <2>2, <2>4, <3>1 DEF Waits
  <2> QED
    BY <2>3, <2>5, <2>6
<1>3. CASE Receive
  <2>1. /\ awaiting # None /\ answer # None /\ awaiting' = None /\ answer' = None
        /\ command' = command
    BY <1>3 DEF Receive, runtimeVars
  <2>2. native'.failed \/ native'.failed = native.failed
    <3>1. native.phase \in Sending
      BY <1>0, <2>1 DEF Waits
    <3> QED
      BY <1>0, <1>3, <3>1, ErrorShape, Successors DEF Receive, NativeShape
  <2> QED
    BY ONLY <1>0, <2>1, <2>2 DEF Waits
<1>4. CASE GiveUp
  <2>1. awaiting' = None /\ answer' = None
    BY <1>4 DEF GiveUp
  <2>2. native'.failed
    BY <1>0, <1>4, ErrorShape DEF GiveUp, NativeShape
  <2> QED
    BY ONLY <1>0, <2>1, <2>2 DEF Waits
<1>5. CASE InitializeSurface
  <2>1. /\ native.phase \notin Sending /\ awaiting' = awaiting /\ answer' = answer
        /\ command' = command
    BY <1>5, TurnShape DEF InitializeSurface, Turned, Sending, runtimeVars, browserVars
  <2>2. native'.failed \/ native'.failed = native.failed
    BY <1>0, <1>5, ErrorShape, GotoShape DEF InitializeSurface, NativeShape, Phases
  <2> QED
    BY ONLY <1>0, <2>1, <2>2 DEF Waits
<1>6. CASE ChooseFrame
  <2>1. /\ native.phase \notin Sending /\ awaiting' = awaiting /\ answer' = answer
        /\ command' = command
    BY <1>6, TurnShape DEF ChooseFrame, Turned, Sending, runtimeVars, browserVars
  <2>2. native'.failed \/ native'.failed = native.failed
    BY <1>0, <1>6, GotoShape DEF ChooseFrame, NativeShape, Phases
  <2> QED
    BY ONLY <1>0, <2>1, <2>2 DEF Waits
<1>7. CASE CommitSurface
  <2>1. /\ native.phase \notin Sending /\ awaiting' = awaiting /\ answer' = answer
        /\ command' = command
    BY <1>7, TurnShape DEF CommitSurface, Turned, Sending, runtimeVars, browserVars
  <2>2. native'.failed \/ native'.failed = native.failed
    BY <1>0, <1>7, ErrorShape, GotoShape DEF CommitSurface, NativeShape, Phases
  <2> QED
    BY ONLY <1>0, <2>1, <2>2 DEF Waits
<1>8. CASE Capture
  <2>1. /\ native.phase \notin Sending /\ awaiting' = awaiting /\ answer' = answer
        /\ command' = command
    BY <1>8, TurnShape DEF Capture, Turned, Sending, runtimeVars, browserVars
  <2>2. native'.failed \/ native'.failed = native.failed
    BY <1>0, <1>8, ErrorShape, GotoShape DEF Capture, NativeShape, Phases
  <2> QED
    BY ONLY <1>0, <2>1, <2>2 DEF Waits
<1>9. CASE RetryCapture
  <2>1. /\ native.phase \notin Sending /\ awaiting' = awaiting /\ answer' = answer
        /\ command' = command
    BY <1>9, TurnShape DEF RetryCapture, Turned, Sending, runtimeVars, browserVars
  <2>2. native'.failed \/ native'.failed = native.failed
    BY <1>0, <1>9, ErrorShape, GotoShape DEF RetryCapture, NativeShape, Phases
  <2> QED
    BY ONLY <1>0, <2>1, <2>2 DEF Waits
<1>10. CASE Recapture
  <2>1. /\ native.phase \notin Sending /\ awaiting' = awaiting /\ answer' = answer
        /\ command' = command
    BY <1>10, TurnShape DEF Recapture, Turned, Sending, runtimeVars, browserVars
  <2>2. native'.failed \/ native'.failed = native.failed
    BY <1>0, <1>10, ErrorShape, GotoShape DEF Recapture, NativeShape, Phases
  <2> QED
    BY ONLY <1>0, <2>1, <2>2 DEF Waits
<1>11. CASE TakeScreenshot
  <2>1. /\ native.phase \notin Sending /\ awaiting' = awaiting /\ answer' = answer
        /\ command' = command
    BY <1>11, TurnShape DEF TakeScreenshot, Turned, Sending, runtimeVars, browserVars
  <2>2. native'.failed \/ native'.failed = native.failed
    BY <1>0, <1>11, ErrorShape, GotoShape DEF TakeScreenshot, NativeShape, Phases
  <2> QED
    BY ONLY <1>0, <2>1, <2>2 DEF Waits
<1>12. CASE Write
  <2>1. /\ native.phase \notin Sending /\ awaiting' = awaiting /\ answer' = answer
        /\ command' = command
    BY <1>12, TurnShape DEF Write, Turned, Sending, runtimeVars, browserVars
  <2>2. native'.failed \/ native'.failed = native.failed
    BY <1>0, <1>12 DEF Write, NativeShape, NativeType
  <2> QED
    BY ONLY <1>0, <2>1, <2>2 DEF Waits
<1>13. CASE StepFails
  <2>1. awaiting' = None /\ answer' = None /\ awaiting = None
    BY <1>0, <1>13 DEF StepFails, Waits
  <2>2. native'.failed
    BY <1>0, <1>13, ErrorShape DEF StepFails, NativeShape
  <2> QED
    BY ONLY <1>0, <2>1, <2>2 DEF Waits
<1>14. CASE Shutdown
  <2>1. /\ native.phase \notin Sending /\ awaiting' = awaiting /\ answer' = answer
        /\ command' = command
    BY <1>14, TurnShape DEF Shutdown, Turned, Sending, runtimeVars, browserVars
  <2>2. native'.failed \/ native'.failed = native.failed
    BY <1>0, <1>14, ErrorShape, GotoShape DEF Shutdown, NativeShape, Phases
  <2> QED
    BY ONLY <1>0, <2>1, <2>2 DEF Waits
<1>15. CASE PageStep
  <2>1. native' = native /\ awaiting' = awaiting
    BY <1>0, <1>15, PageStepShape DEF RInv
  <2>2. Request' = Request
    BY <2>1 DEF Request, Unit, Units
  <2>3. CASE Works /\ answer' = answer
    BY ONLY <1>0, <2>1, <2>2, <2>3 DEF Waits, Works
  <2>4. CASE /\ command # None /\ command' = None
             /\ answer' = IF awaiting = command THEN reply' ELSE answer
    <3>1. reply' \in Answers /\ reply' # None
      BY <1>00, NoAnswerAssumption DEF RInv, LInv, TypeOK, Answers
    <3> QED
      BY ONLY <1>0, <2>1, <2>2, <2>4, <3>1 DEF Waits
  <2> QED
    BY <1>0, <1>15, <2>3, <2>4, PageStepShape DEF RInv, Concludes, Ends
<1>16. ASSUME NEW v \in Videos, FreeTurn(v)
       PROVE  Waits'
  <2>1. native' = native /\ awaiting' = awaiting /\ answer' = answer /\ command' = command
    BY <1>16 DEF FreeTurn, Present, nativeVars
  <2>2. Request' = Request
    BY <2>1 DEF Request, Unit, Units
  <2> QED
    BY ONLY <1>0, <2>1, <2>2 DEF Waits
<1>17. CASE UNCHANGED vars
  <2>1. native' = native /\ awaiting' = awaiting /\ answer' = answer /\ command' = command
    BY <1>17 DEF vars, nativeVars, runtimeVars
  <2>2. Request' = Request
    BY <2>1 DEF Request, Unit, Units
  <2> QED
    BY ONLY <1>0, <2>1, <2>2 DEF Waits
<1> QED
  BY <1>1, <1>2, <1>3, <1>4, <1>5, <1>6, <1>7, <1>8, <1>9, <1>10,
     <1>11, <1>12, <1>13, <1>14, <1>15, <1>16, <1>17
     DEF CaptureNext, NativeStep, Stop

(* The answer that is in names this event. *)
Answered(event) == answer # None /\ answer.event = event

(* Where the page stands in each phase.                                    *)
PageAt ==
    /\ native.phase = "navigate" => command = None /\ session.kind \in {"empty", "disposed"}
    /\ native.phase = "load" =>
         /\ answer = None => session.kind = "empty"
         /\ Answered("loaded") =>
              session.kind = "loaded" /\ session.plan = PlanOf(Unit, native.pass)
    /\ native.phase = "prepare" =>
         /\ answer = None => session.kind = "loaded" /\ session.plan = PlanOf(Unit, native.pass)
         /\ Answered("prepared") =>
              session.kind = "ready" /\ session.plan = PlanOf(Unit, native.pass)
    /\ native.phase \in {"initialize", "frame", "recapture", "write"} =>
         session.kind = "ready" /\ session.plan = Unit.plan
    /\ native.phase = "seek" =>
         /\ answer = None => session.kind = "ready" /\ session.plan = Unit.plan
         /\ Answered("frameStaged") =>
              /\ session.kind = "staged" /\ session.plan = Unit.plan
              /\ session.frame = native.frame
    /\ native.phase \in {"commit", "capture", "retry"} =>
         session.kind = "staged" /\ session.plan = Unit.plan /\ session.frame = native.frame
    /\ native.phase = "confirm" =>
         /\ answer = None => /\ session.kind = "staged" /\ session.plan = Unit.plan
                             /\ session.frame = native.frame
         /\ Answered("frameReady") => session.kind = "ready" /\ session.plan = Unit.plan
    /\ native.phase = "dispose" =>
         (Answered("disposed") => session.kind = "disposed" /\ command = None)

(* The capture pass loads the plan of the unit.                            *)
LEMMA CapturePlan == PlanOf(Unit, "capture") = Unit.plan
BY DEF PlanOf

(* Page and native side stand at the same plan and frame.                  *)
LEMMA PageAtStep ==
    ASSUME RInv, NativeShape, Waits, PageAt, [CaptureNext]_vars
    PROVE  PageAt'
<1>0. RInv /\ NativeShape /\ Waits /\ PageAt
  OBVIOUS
<1>00. RInv'
  BY RuntimeInvariantStep
<1>1. CASE Navigate
  <2>1. answer' = None
    BY ONLY <1>0, <1>1 DEF Navigate, Waits, Sending
  <2>2. CASE Error
    <3>1. native'.phase \in {"dispose", "shutdown"}
      BY <1>0, <2>2, ErrorShape DEF NativeShape
    <3> QED
      BY ONLY <2>1, <3>1 DEF PageAt, Answered
  <2>3. CASE Goto("load") /\ session' = FreshSession
    <3>1. native'.phase = "load"
      BY <1>0, <2>3, GotoShape DEF NativeShape, Phases
    <3> QED
      BY ONLY <2>1, <2>3, <3>1 DEF PageAt, Answered, FreshSession
  <2> QED
    BY <1>1, <2>2, <2>3 DEF Navigate
<1>2. CASE Send
  <2>1. /\ native.phase \in Sending /\ native' = native /\ awaiting = None
        /\ Dispatch(Request)
        /\ answer' = IF command = None /\ command' # None THEN None ELSE reply'
    BY <1>2 DEF Send, Sending
  <2>2. Request \in Commands /\ Request.type = native.phase /\ Request # None
    BY <1>0, <2>1, Requests
  <2>3. Began(Request) \/ Refused(Request) \/ DisposedBefore(Request)
    BY <1>0, <2>1, <2>2, DispatchShape DEF RInv, LInv
  <2>4. answer = None
    BY ONLY <1>0, <2>1 DEF Waits
  <2>5. Unit' = Unit
    BY ONLY <2>1 DEF Unit, Units
  <2>6. CASE Began(Request)
    <3>1. answer' = None
      BY ONLY <2>1, <2>2, <2>6 DEF Began
    <3>2. native.phase # "dispose" => session' = session
      BY ONLY <2>2, <2>6 DEF Began
    <3> QED
      BY ONLY <1>0, <2>1, <2>4, <2>5, <3>1, <3>2 DEF PageAt, Answered, Sending
  <2>7. CASE Refused(Request)
    <3>1. answer' # None /\ answer'.event \in {"invalidRequest", "seekFailed", "confirmFailed"}
      <4>1. answer' = reply'
        BY ONLY <2>1, <2>7 DEF Refused
      <4>2. reply' # None
        BY <1>00, NoAnswerAssumption DEF RInv, LInv, TypeOK
      <4> QED
        BY ONLY <4>1, <4>2, <2>7 DEF Refused
    <3> QED
      BY ONLY <2>1, <3>1 DEF PageAt, Answered, Sending
  <2>8. CASE DisposedBefore(Request)
    <3>1. native.phase = "dispose" /\ session'.kind = "disposed" /\ command' = None
      BY ONLY <2>2, <2>8 DEF DisposedBefore
    <3> QED
      BY ONLY <2>1, <3>1 DEF PageAt
  <2> QED
    BY <2>3, <2>6, <2>7, <2>8
<1>3. CASE Receive
  <2>1. /\ awaiting # None /\ answer # None /\ answer' = None
        /\ command' = command /\ session' = session /\ native.phase \in Sending
    BY ONLY <1>0, <1>3 DEF Receive, runtimeVars, Waits
  <2>2. CASE Error
    <3>1. native'.phase \in {"dispose", "shutdown"}
      BY <1>0, <2>2, ErrorShape DEF NativeShape
    <3> QED
      BY ONLY <2>1, <3>1 DEF PageAt, Answered
  <2>3. CASE answer.event = Accepted /\ native' = Successor
    <3>1. native'.job = native.job
      BY <1>0, <2>1, <2>3, Successors
    <3>2. CASE native'.unit # native.unit \/ native'.phase = "navigate"
      <4>1. native'.phase = "navigate" /\ native.phase = "dispose"
        BY <1>0, <2>1, <2>3, <3>2, Successors DEF Sending
      <4>2. Answered("disposed")
        BY ONLY <2>1, <2>3, <4>1 DEF Answered, Accepted
      <4> QED
        BY ONLY <1>0, <2>1, <4>1, <4>2 DEF PageAt
    <3>3. CASE native'.unit = native.unit /\ native'.phase # "navigate"
      <4>1. Unit' = Unit
        BY ONLY <3>1, <3>3 DEF Unit, Units
      <4>2. native'.pass = native.pass /\ native'.frame = native.frame
        BY <1>0, <2>1, <2>3, <3>3, Successors
      <4>3. CASE native.phase = "load"
        <5>1. Answered("loaded") /\ native'.phase = "prepare"
          BY <1>0, <2>1, <2>3, <4>3, Successors DEF Answered, Accepted
        <5> QED
          BY ONLY <1>0, <2>1, <4>1, <4>2, <4>3, <5>1 DEF PageAt, Answered
      <4>4. CASE native.phase = "prepare"
        <5>1. /\ Answered("prepared")
              /\ \/ native'.phase = "initialize" /\ native.pass = "capture"
                 \/ native'.phase = "dispose"
          BY <1>0, <2>1, <2>3, <4>4, Successors DEF Answered, Accepted
        <5> QED
          BY ONLY <1>0, <2>1, <4>1, <4>2, <4>4, <5>1, CapturePlan DEF PageAt, Answered
      <4>5. CASE native.phase = "seek"
        <5>1. Answered("frameStaged") /\ native'.phase \in {"capture", "commit"}
          BY <1>0, <2>1, <2>3, <4>5, Successors DEF Answered, Accepted
        <5> QED
          BY ONLY <1>0, <2>1, <4>1, <4>2, <4>5, <5>1 DEF PageAt, Answered
      <4>6. CASE native.phase = "confirm"
        <5>1. Answered("frameReady") /\ native'.phase \in {"write", "recapture"}
          BY <1>0, <2>1, <2>3, <4>6, Successors DEF Answered, Accepted
        <5> QED
          BY ONLY <1>0, <2>1, <4>1, <4>2, <4>6, <5>1 DEF PageAt, Answered
      <4>7. CASE native.phase = "dispose"
        <5>1. native'.phase = "shutdown"
          BY <1>0, <2>1, <2>3, <3>3, <4>7, Successors
        <5> QED
          BY ONLY <5>1 DEF PageAt
      <4> QED
        BY ONLY <2>1, <4>3, <4>4, <4>5, <4>6, <4>7 DEF Sending
    <3> QED
      BY <3>2, <3>3
  <2> QED
    BY <1>3, <2>2, <2>3 DEF Receive
<1>4. CASE GiveUp
  <2>1. /\ answer' = None /\ native'.phase \in {"dispose", "shutdown"}
    BY <1>0, <1>4, ErrorShape DEF GiveUp, NativeShape, Waits
  <2> QED
    BY ONLY <2>1 DEF PageAt, Answered
<1>5. CASE InitializeSurface
  <2>1. /\ native.phase \notin Sending /\ answer' = answer
        /\ command' = command /\ session' = session
    BY <1>5, TurnShape DEF InitializeSurface, Turned, Sending, runtimeVars, browserVars
  <2>2. /\ native'.job = native.job /\ native'.unit = native.unit
        /\ native'.pass = native.pass /\ native'.frame = native.frame
        /\ native'.phase \in {"frame"}
    BY <1>0, <1>5, GotoShape DEF InitializeSurface, NativeShape, Phases
  <2>3. Unit' = Unit /\ native'.pass = native.pass /\ native'.frame = native.frame
    BY ONLY <2>2 DEF Unit, Units
  <2>4. answer = None
    BY ONLY <1>0, <2>1 DEF Waits
  <2> QED
    BY ONLY <1>0, <1>5, <2>1, <2>2, <2>3, <2>4
       DEF PageAt, Answered, InitializeSurface, Answers, Waits
<1>6. CASE ChooseFrame
  <2>1. /\ native.phase \notin Sending /\ answer' = answer
        /\ command' = command /\ session' = session
    BY <1>6, TurnShape DEF ChooseFrame, Turned, Sending, runtimeVars, browserVars
  <2>2. /\ native'.job = native.job /\ native'.unit = native.unit
        /\ native'.pass = native.pass /\ native'.frame = native.frame
        /\ native'.phase \in {"write", "seek", "dispose"}
    BY <1>0, <1>6, GotoShape DEF ChooseFrame, NativeShape, Phases
  <2>3. Unit' = Unit /\ native'.pass = native.pass /\ native'.frame = native.frame
    BY ONLY <2>2 DEF Unit, Units
  <2>4. answer = None
    BY ONLY <1>0, <2>1 DEF Waits
  <2> QED
    BY ONLY <1>0, <1>6, <2>1, <2>2, <2>3, <2>4 DEF PageAt, Answered, ChooseFrame, Answers, Waits
<1>7. CASE CommitSurface
  <2>1. /\ native.phase \notin Sending /\ answer' = answer
        /\ command' = command /\ session' = session
    BY <1>7, TurnShape DEF CommitSurface, Turned, Sending, runtimeVars, browserVars
  <2>2. /\ native'.job = native.job /\ native'.unit = native.unit
        /\ native'.pass = native.pass /\ native'.frame = native.frame
        /\ native'.phase \in {"capture"}
    BY <1>0, <1>7, GotoShape DEF CommitSurface, NativeShape, Phases
  <2>3. Unit' = Unit /\ native'.pass = native.pass /\ native'.frame = native.frame
    BY ONLY <2>2 DEF Unit, Units
  <2>4. answer = None
    BY ONLY <1>0, <2>1 DEF Waits
  <2> QED
    BY ONLY <1>0, <1>7, <2>1, <2>2, <2>3, <2>4 DEF PageAt, Answered, CommitSurface, Answers,
                                                   Waits
<1>8. CASE Capture
  <2>1. /\ native.phase \notin Sending /\ answer' = answer
        /\ command' = command /\ session' = session
    BY <1>8, TurnShape DEF Capture, Turned, Sending, runtimeVars, browserVars
  <2>2. /\ native'.job = native.job /\ native'.unit = native.unit
        /\ native'.pass = native.pass /\ native'.frame = native.frame
        /\ native'.phase \in {"confirm", "retry"}
    BY <1>0, <1>8, GotoShape DEF Capture, NativeShape, Phases
  <2>3. Unit' = Unit /\ native'.pass = native.pass /\ native'.frame = native.frame
    BY ONLY <2>2 DEF Unit, Units
  <2>4. answer = None
    BY ONLY <1>0, <2>1 DEF Waits
  <2> QED
    BY ONLY <1>0, <1>8, <2>1, <2>2, <2>3, <2>4 DEF PageAt, Answered, Capture, Answers, Waits
<1>9. CASE RetryCapture
  <2>1. /\ native.phase \notin Sending /\ answer' = answer
        /\ command' = command /\ session' = session
    BY <1>9, TurnShape DEF RetryCapture, Turned, Sending, runtimeVars, browserVars
  <2>2. /\ native'.job = native.job /\ native'.unit = native.unit
        /\ native'.pass = native.pass /\ native'.frame = native.frame
        /\ native'.phase \in {"confirm", "dispose"}
    BY <1>0, <1>9, GotoShape, ErrorShape DEF RetryCapture, NativeShape, Phases
  <2>3. Unit' = Unit /\ native'.pass = native.pass /\ native'.frame = native.frame
    BY ONLY <2>2 DEF Unit, Units
  <2>4. answer = None
    BY ONLY <1>0, <2>1 DEF Waits
  <2> QED
    BY ONLY <1>0, <1>9, <2>1, <2>2, <2>3, <2>4 DEF PageAt, Answered, RetryCapture, Answers,
                                                   Waits
<1>10. CASE Recapture
  <2>1. /\ native.phase \notin Sending /\ answer' = answer
        /\ command' = command /\ session' = session
    BY <1>10, TurnShape DEF Recapture, Turned, Sending, runtimeVars, browserVars
  <2>2. /\ native'.job = native.job /\ native'.unit = native.unit
        /\ native'.pass = native.pass /\ native'.frame = native.frame
        /\ native'.phase \in {"write", "dispose"}
    BY <1>0, <1>10, GotoShape, ErrorShape DEF Recapture, NativeShape, Phases
  <2>3. Unit' = Unit /\ native'.pass = native.pass /\ native'.frame = native.frame
    BY ONLY <2>2 DEF Unit, Units
  <2>4. answer = None
    BY ONLY <1>0, <2>1 DEF Waits
  <2> QED
    BY ONLY <1>0, <1>10, <2>1, <2>2, <2>3, <2>4 DEF PageAt, Answered, Recapture, Answers, Waits
<1>11. CASE TakeScreenshot
  <2>0. CASE native.phase = "capture"
    <3>1. /\ native.phase \notin Sending /\ answer' = answer
          /\ command' = command /\ session' = session
      BY <1>11, <2>0, TurnShape DEF TakeScreenshot, Turned, Sending, runtimeVars, browserVars
    <3>2. /\ native'.job = native.job /\ native'.unit = native.unit
          /\ native'.pass = native.pass /\ native'.frame = native.frame
          /\ native'.phase \in {"confirm"}
      BY <1>0, <1>11, <2>0, GotoShape DEF TakeScreenshot, NativeShape, Phases
    <3>3. Unit' = Unit /\ native'.pass = native.pass /\ native'.frame = native.frame
      BY ONLY <3>2 DEF Unit, Units
    <3>4. answer = None
      BY ONLY <1>0, <3>1 DEF Waits
    <3> QED
      BY ONLY <1>0, <1>11, <2>0, <3>1, <3>2, <3>3, <3>4
         DEF PageAt, Answered, TakeScreenshot, Answers, Waits
  <2>1. CASE native.phase = "recapture"
    <3>1. /\ native.phase \notin Sending /\ answer' = answer
          /\ command' = command /\ session' = session
      BY <1>11, <2>1, TurnShape DEF TakeScreenshot, Turned, Sending, runtimeVars, browserVars
    <3>2. /\ native'.job = native.job /\ native'.unit = native.unit
          /\ native'.pass = native.pass /\ native'.frame = native.frame
          /\ native'.phase \in {"write"}
      BY <1>0, <1>11, <2>1, GotoShape DEF TakeScreenshot, NativeShape, Phases
    <3>3. Unit' = Unit /\ native'.pass = native.pass /\ native'.frame = native.frame
      BY ONLY <3>2 DEF Unit, Units
    <3>4. answer = None
      BY ONLY <1>0, <3>1 DEF Waits
    <3> QED
      BY ONLY <1>0, <1>11, <2>1, <3>1, <3>2, <3>3, <3>4
         DEF PageAt, Answered, TakeScreenshot, Answers, Waits
  <2> QED
    BY <1>11, <2>0, <2>1 DEF TakeScreenshot
<1>12. CASE Write
  <2>1. /\ session' = session /\ native.phase = "write" /\ native'.phase = "frame"
        /\ native'.job = native.job /\ native'.unit = native.unit
    BY <1>0, <1>12 DEF Write, NativeShape, NativeType, runtimeVars
  <2>2. Unit' = Unit
    BY ONLY <2>1 DEF Unit, Units
  <2> QED
    BY ONLY <1>0, <2>1, <2>2 DEF PageAt
<1>13. CASE StepFails
  <2>1. /\ answer' = None /\ native'.phase \in {"dispose", "shutdown"}
    BY <1>0, <1>13, ErrorShape DEF StepFails, NativeShape, Waits
  <2> QED
    BY ONLY <2>1 DEF PageAt, Answered
<1>14. CASE Shutdown
  <2>1. native'.phase \in {"done", "failed"}
    BY <1>0, <1>14, GotoShape DEF Shutdown, NativeShape, Phases
  <2> QED
    BY ONLY <2>1 DEF PageAt
<1>15. CASE PageStep
  <2>1. native' = native
    BY <1>0, <1>15, PageStepShape DEF RInv
  <2>2. Unit' = Unit
    BY <2>1 DEF Unit, Units
  <2>3. CASE Works /\ answer' = answer
    BY ONLY <1>0, <2>1, <2>2, <2>3 DEF PageAt, Answered, Works
  <2>4. CASE /\ command # None /\ Concludes
             /\ answer' = IF awaiting = command THEN reply' ELSE answer
    <3>1. CASE native.failed
      <4>1. native.phase \in {"dispose", "shutdown", "failed"}
        BY ONLY <1>0, <3>1 DEF NativeShape
      <4>2. CASE awaiting = command
        <5>1. Answered("disposed")' => session'.kind = "disposed" /\ command' = None
          <6>1. reply'.event = "disposed" =>
                   command.type = "dispose" /\ session' = session /\ command' = None
            BY ONLY <2>4 DEF Concludes, Ends
          <6>2. command.type = "dispose" => session.kind = "disposed"
            BY ONLY <1>0, <2>4 DEF RInv, LInv, Executing
          <6> QED
            BY ONLY <2>4, <4>2, <6>1, <6>2 DEF Answered
        <5> QED
          BY ONLY <2>1, <4>1, <5>1 DEF PageAt
      <4>3. CASE awaiting # command
        <5>1. answer' = answer
          BY ONLY <2>4, <4>3
        <5> QED
          BY ONLY <1>0, <2>1, <2>4, <4>1, <5>1 DEF PageAt, Answered
      <4> QED
        BY <4>2, <4>3
    <3>2. CASE ~native.failed
      <4>1. /\ awaiting # None /\ answer = None /\ command = Request /\ answer' = reply'
            /\ native.phase \in Sending
        BY ONLY <1>0, <2>4, <3>2 DEF Waits
      <4>2. /\ command.type = native.phase
            /\ native.phase = "load" => command.plan = PlanOf(Unit, native.pass)
            /\ native.phase \in {"seek", "confirm"} => command.frame = native.frame
        BY <1>0, <4>1, Requests
      <4>3. /\ reply' # None /\ answer' # None
        BY <1>00, <4>1, NoAnswerAssumption DEF RInv, LInv, TypeOK
      <4>4. CASE native.phase = "load"
        BY ONLY <2>1, <2>2, <2>4, <4>1, <4>2, <4>3, <4>4 DEF PageAt, Answered, Concludes, Ends
      <4>5. CASE native.phase = "prepare"
        <5>1. session.plan = PlanOf(Unit, native.pass)
          BY ONLY <1>0, <4>1, <4>5 DEF PageAt
        <5> QED
          BY ONLY <2>1, <2>2, <2>4, <4>1, <4>2, <4>3, <4>5, <5>1
             DEF PageAt, Answered, Concludes, Ends
      <4>6. CASE native.phase \in {"seek", "confirm"}
        <5>1. session.plan = Unit.plan
          BY ONLY <1>0, <4>1, <4>6 DEF PageAt
        <5> QED
          BY ONLY <2>1, <2>2, <2>4, <4>1, <4>2, <4>3, <4>6, <5>1
             DEF PageAt, Answered, Concludes, Ends
      <4>7. CASE native.phase = "dispose"
        <5>1. session.kind = "disposed"
          BY ONLY <1>0, <2>4, <4>2, <4>7 DEF RInv, LInv, Executing
        <5> QED
          BY ONLY <2>1, <2>4, <4>1, <4>2, <4>3, <4>7, <5>1 DEF PageAt, Answered, Concludes, Ends
      <4> QED
        BY ONLY <4>1, <4>4, <4>5, <4>6, <4>7 DEF Sending
    <3> QED
      BY <3>1, <3>2
  <2> QED
    BY <1>0, <1>15, <2>3, <2>4, PageStepShape DEF RInv
<1>16. ASSUME NEW v \in Videos, FreeTurn(v)
       PROVE  PageAt'
  <2>1. native' = native /\ answer' = answer /\ command' = command /\ session' = session
    BY <1>16 DEF FreeTurn, Present, nativeVars
  <2> QED
    BY ONLY <1>0, <2>1 DEF PageAt, Answered, Unit, Units
<1>17. CASE UNCHANGED vars
  <2>1. native' = native /\ answer' = answer /\ command' = command /\ session' = session
    BY <1>17 DEF vars, nativeVars, runtimeVars
  <2> QED
    BY ONLY <1>0, <2>1 DEF PageAt, Answered, Unit, Units
<1> QED
  BY <1>1, <1>2, <1>3, <1>4, <1>5, <1>6, <1>7, <1>8, <1>9, <1>10,
     <1>11, <1>12, <1>13, <1>14, <1>15, <1>16, <1>17
     DEF CaptureNext, NativeStep, Stop

(* The previous frame of a unit is one of its own. *)
Begins ==
    /\ native.phase \in {"load", "prepare", "initialize"} => previous = None
    /\ native.phase \in Capturing /\ previous # None => native.frame > Unit.from

(* The type of the clock.                                                  *)
ClockType ==
    [initialized : BOOLEAN, next : Int, active : [frame : Int, time : Int] \cup {None},
     turn : Int \X Int]

(* The transaction of the frame at work is the last one begun. *)
InTransaction == clock.active = [frame |-> native.frame, time |-> clock.next - Step]

Ticks ==
    /\ clock \in ClockType
    /\ clock.turn[1] < clock.turn[2]
    /\ Mode = "screenshot" => ~clock.initialized
    /\ Mode = "beginFrame" /\ native.phase \in Capturing \ {"initialize"} => clock.initialized
    /\ ~clock.initialized => clock.turn[2] = 0 /\ clock.next = BaseTime
    /\ clock.initialized => clock.turn[2] <= clock.next - Step \div 2
    /\ clock.initialized /\ (\/ native.phase \in {"navigate", "load", "prepare", "initialize", "write"}
                             \/ native.phase = "dispose" /\ ~native.failed
                             \/ native.phase = "frame" /\ native.frame # Unit.from)
          => clock.turn[2] < clock.next - Step \div 2
    /\ Mode = "beginFrame" /\ native.phase = "capture" /\ ~Stable =>
          InTransaction /\ clock.turn[2] < clock.next - Step
    /\ Mode = "beginFrame" /\ native.phase = "retry" =>
          InTransaction /\ clock.turn[2] <= clock.next - Step
    /\ Mode = "beginFrame" /\ native.phase \in {"confirm", "recapture"} =>
          InTransaction /\ clock.turn[2] <= clock.next - Step + Offset

(* The durations of the clock, of which only the order matters.            *)
LEMMA Durations ==
    /\ Step = 1000 /\ Step \div 2 = 500 /\ Offset = 1
    /\ BaseTime \in Int /\ 0 < SurfaceTime /\ SurfaceTime < BaseTime - 500
BY SMT DEF Step, Offset, BaseTime, SurfaceTime

(* What beginning a transaction does to the clock.                         *)
LEMMA BeginShape ==
    ASSUME clock \in ClockType, native.frame \in Int, NEW offset \in Int, BeginTransaction(offset)
    PROVE  /\ clock' \in ClockType /\ clock'.initialized = clock.initialized
           /\ clock'.next = clock.next + Step
           /\ clock'.active = [frame |-> native.frame, time |-> clock.next]
           /\ clock'.turn[1] = clock.turn[2] /\ clock'.turn[2] = clock.next + offset
<1> DEFINE active == [frame |-> native.frame, time |-> clock.next]
           next   == clock.next + Step
           turn   == <<clock.turn[2], clock.next + offset>>
<1>1. /\ active \in [frame : Int, time : Int] /\ next \in Int /\ turn \in Int \X Int
      /\ turn[1] = clock.turn[2] /\ turn[2] = clock.next + offset
  BY Durations DEF ClockType
<1>2. clock' = [clock EXCEPT !.active = active, !.next = next, !.turn = turn]
  BY DEF BeginTransaction
<1> HIDE DEF active, next, turn
<1>3. /\ clock' \in ClockType /\ clock'.initialized = clock.initialized
      /\ clock'.next = next /\ clock'.active = active /\ clock'.turn = turn
  BY <1>1, <1>2 DEF ClockType
<1> QED
  BY <1>1, <1>3 DEF active, next

(* What a turn within a transaction does to the clock.                     *)
LEMMA TickShape ==
    ASSUME clock \in ClockType, InTransaction, NEW offset \in Int, Tick(offset)
    PROVE  /\ clock' \in ClockType /\ clock'.initialized = clock.initialized
           /\ clock'.next = clock.next /\ clock'.active = clock.active
           /\ clock'.turn[1] = clock.turn[2] /\ clock'.turn[2] = clock.next - Step + offset
<1>1. clock.active.time = clock.next - Step /\ clock.next \in Int
  BY DEF ClockType, InTransaction
<1>2. clock' = [clock EXCEPT !.turn = <<clock.turn[2], clock.next - Step + offset>>]
  BY <1>1 DEF Tick
<1>3. clock.next - Step + offset \in Int
  BY <1>1, Durations
<1> QED
  BY ONLY <1>2, <1>3, clock \in ClockType DEF ClockType

(* Only the frame before it in its own unit is reused.                     *)
LEMMA BeginsStep ==
    ASSUME NativeShape, Waits, Begins, [CaptureNext]_vars
    PROVE  Begins'
<1>0. NativeShape /\ Waits /\ Begins
  OBVIOUS
<1>1. CASE Navigate
  <2>1. native'.phase \in {"load", "shutdown"} /\ previous' = None
    <3>1. (Goto("load") \/ Error) /\ native.phase = "navigate" /\ previous' = None
      BY ONLY <1>1 DEF Navigate
    <3>2. Error => native'.phase \in {"dispose", "shutdown"} /\ native'.phase # "dispose"
      BY ONLY <1>0, <3>1 DEF NativeShape, NativeType, Error
    <3> QED
      BY <1>0, <3>1, <3>2, GotoShape DEF NativeShape, Phases
  <2> QED
    BY ONLY <2>1 DEF Begins, Capturing
<1>2. CASE Send
  <2>1. native' = native /\ previous' = previous
    BY <1>2 DEF Send, nativeVars
  <2> QED
    BY ONLY <1>0, <2>1 DEF Begins, Capturing, Unit, Units
<1>3. CASE Receive
  <2>1. previous' = previous /\ native.phase \in Sending
    BY <1>0, <1>3 DEF Receive, Waits
  <2>2. CASE Error
    <3>1. native'.phase \in {"dispose", "shutdown"}
      BY <1>0, <2>2, ErrorShape DEF NativeShape
    <3> QED
      BY ONLY <2>1, <3>1 DEF Begins, Capturing
  <2>3. CASE native' = Successor
    <3>1. native'.job = native.job
      BY <1>0, <2>1, <2>3, Successors
    <3>2. CASE native'.unit # native.unit \/ native'.phase \in {"navigate", "shutdown", "dispose"}
      <4>1. native'.phase \in {"navigate", "shutdown", "dispose"}
        BY <1>0, <2>1, <2>3, <3>2, Successors
      <4> QED
        BY ONLY <4>1 DEF Begins, Capturing
    <3>3. CASE native'.unit = native.unit /\ native'.phase \notin {"navigate", "shutdown", "dispose"}
      <4>1. Unit' = Unit
        BY ONLY <3>1, <3>3 DEF Unit, Units
      <4>2. /\ native'.frame = native.frame
            /\ \/ native.phase \in {"load", "prepare"} /\ native'.phase \in {"prepare", "initialize"}
               \/ native.phase \in {"seek", "confirm"}
                  /\ native'.phase \in {"capture", "commit", "write", "recapture"}
        BY <1>0, <2>1, <2>3, <3>3, Successors DEF Sending
      <4> QED
        BY ONLY <1>0, <2>1, <4>1, <4>2 DEF Begins, Capturing
    <3> QED
      BY <3>2, <3>3
  <2> QED
    BY <1>3, <2>2, <2>3 DEF Receive
<1>4. CASE GiveUp
  <2>1. native'.phase \in {"dispose", "shutdown"}
    BY <1>0, <1>4, ErrorShape DEF GiveUp, NativeShape
  <2> QED
    BY ONLY <2>1 DEF Begins, Capturing
<1>5. CASE InitializeSurface
  <2>1. /\ previous' = previous /\ native.phase \in {"initialize"}
    BY <1>0, <1>5 DEF InitializeSurface, Sending, Waits
  <2>2. /\ native'.job = native.job /\ native'.unit = native.unit /\ native'.frame = native.frame
        /\ native'.phase \in {"frame"}
    BY <1>0, <1>5, GotoShape DEF InitializeSurface, NativeShape, Phases
  <2>3. Unit' = Unit
    BY ONLY <2>2 DEF Unit, Units
  <2> QED
    BY ONLY <1>0, <1>5, <2>1, <2>2, <2>3 DEF Begins, Capturing, InitializeSurface
<1>6. CASE ChooseFrame
  <2>1. /\ previous' = previous /\ native.phase \in {"frame"}
    BY <1>0, <1>6 DEF ChooseFrame, Sending, Waits
  <2>2. /\ native'.job = native.job /\ native'.unit = native.unit /\ native'.frame = native.frame
        /\ native'.phase \in {"write", "seek", "dispose"}
    BY <1>0, <1>6, GotoShape DEF ChooseFrame, NativeShape, Phases
  <2>3. Unit' = Unit
    BY ONLY <2>2 DEF Unit, Units
  <2> QED
    BY ONLY <1>0, <1>6, <2>1, <2>2, <2>3 DEF Begins, Capturing, ChooseFrame
<1>7. CASE CommitSurface
  <2>1. /\ previous' = previous /\ native.phase \in {"commit"}
    BY <1>0, <1>7 DEF CommitSurface, Sending, Waits
  <2>2. /\ native'.job = native.job /\ native'.unit = native.unit /\ native'.frame = native.frame
        /\ native'.phase \in {"capture"}
    BY <1>0, <1>7, GotoShape DEF CommitSurface, NativeShape, Phases
  <2>3. Unit' = Unit
    BY ONLY <2>2 DEF Unit, Units
  <2> QED
    BY ONLY <1>0, <1>7, <2>1, <2>2, <2>3 DEF Begins, Capturing, CommitSurface
<1>8. CASE Capture
  <2>1. /\ previous' = previous /\ native.phase \in {"capture"}
    BY <1>0, <1>8 DEF Capture, Sending, Waits
  <2>2. /\ native'.job = native.job /\ native'.unit = native.unit /\ native'.frame = native.frame
        /\ native'.phase \in {"confirm", "retry"}
    BY <1>0, <1>8, GotoShape DEF Capture, NativeShape, Phases
  <2>3. Unit' = Unit
    BY ONLY <2>2 DEF Unit, Units
  <2> QED
    BY ONLY <1>0, <1>8, <2>1, <2>2, <2>3 DEF Begins, Capturing, Capture
<1>9. CASE RetryCapture
  <2>1. /\ previous' = previous /\ native.phase \in {"retry"}
    BY <1>0, <1>9 DEF RetryCapture, Sending, Waits
  <2>2. /\ native'.job = native.job /\ native'.unit = native.unit /\ native'.frame = native.frame
        /\ native'.phase \in {"confirm", "dispose"}
    BY <1>0, <1>9, GotoShape, ErrorShape DEF RetryCapture, NativeShape, Phases
  <2>3. Unit' = Unit
    BY ONLY <2>2 DEF Unit, Units
  <2> QED
    BY ONLY <1>0, <1>9, <2>1, <2>2, <2>3 DEF Begins, Capturing, RetryCapture
<1>10. CASE Recapture
  <2>1. /\ previous' = previous /\ native.phase \in {"recapture"}
    BY <1>0, <1>10 DEF Recapture, Sending, Waits
  <2>2. /\ native'.job = native.job /\ native'.unit = native.unit /\ native'.frame = native.frame
        /\ native'.phase \in {"write", "dispose"}
    BY <1>0, <1>10, GotoShape, ErrorShape DEF Recapture, NativeShape, Phases
  <2>3. Unit' = Unit
    BY ONLY <2>2 DEF Unit, Units
  <2> QED
    BY ONLY <1>0, <1>10, <2>1, <2>2, <2>3 DEF Begins, Capturing, Recapture
<1>11. CASE TakeScreenshot
  <2>1. /\ previous' = previous /\ native.phase \in {"capture", "recapture"}
    BY <1>0, <1>11 DEF TakeScreenshot, Sending, Waits
  <2>2. /\ native'.job = native.job /\ native'.unit = native.unit /\ native'.frame = native.frame
        /\ native'.phase \in {"confirm", "write"}
    BY <1>0, <1>11, GotoShape DEF TakeScreenshot, NativeShape, Phases
  <2>3. Unit' = Unit
    BY ONLY <2>2 DEF Unit, Units
  <2> QED
    BY ONLY <1>0, <1>11, <2>1, <2>2, <2>3 DEF Begins, Capturing, TakeScreenshot
<1>12. CASE Write
  <2>1. /\ native.phase = "write" /\ native.frame \in Int /\ Unit.from \in Int
        /\ native.frame >= Unit.from
    BY <1>0, <1>12, UnitFacts DEF Write, NativeShape
  <2>2. /\ native'.job = native.job /\ native'.unit = native.unit /\ native'.frame = native.frame + 1
        /\ native'.phase = "frame"
    BY <1>0, <1>12 DEF Write, NativeShape, NativeType
  <2>3. Unit' = Unit
    BY ONLY <2>2 DEF Unit, Units
  <2> QED
    BY ONLY <1>0, <2>1, <2>2, <2>3 DEF Begins, Capturing
<1>13. CASE StepFails
  <2>1. native'.phase \in {"dispose", "shutdown"}
    BY <1>0, <1>13, ErrorShape DEF StepFails, NativeShape
  <2> QED
    BY ONLY <2>1 DEF Begins, Capturing
<1>14. CASE Shutdown
  <2>1. native'.phase \in {"done", "failed"}
    BY <1>0, <1>14, GotoShape DEF Shutdown, NativeShape, Phases
  <2> QED
    BY ONLY <2>1 DEF Begins, Capturing
<1>15. CASE PageStep
  <2>1. native' = native /\ previous' = previous
    BY <1>15 DEF PageStep, nativeVars
  <2> QED
    BY ONLY <1>0, <2>1 DEF Begins, Capturing, Unit, Units
<1>16. ASSUME NEW v \in Videos, FreeTurn(v)
       PROVE  Begins'
  <2>1. native' = native /\ previous' = previous
    BY <1>16 DEF FreeTurn, nativeVars
  <2> QED
    BY ONLY <1>0, <2>1 DEF Begins, Capturing, Unit, Units
<1>17. CASE UNCHANGED vars
  <2>1. native' = native /\ previous' = previous
    BY <1>17 DEF vars, nativeVars
  <2> QED
    BY ONLY <1>0, <2>1 DEF Begins, Capturing, Unit, Units
<1> QED
  BY <1>1, <1>2, <1>3, <1>4, <1>5, <1>6, <1>7, <1>8, <1>9, <1>10,
     <1>11, <1>12, <1>13, <1>14, <1>15, <1>16, <1>17
     DEF CaptureNext, NativeStep, Stop

(* Every turn is later than the one before it, across transactions and     *)
(* navigations.                                                            *)
LEMMA TicksStep ==
    ASSUME NativeShape, Waits, Begins, Ticks, [CaptureNext]_vars
    PROVE  Ticks'
<1>0. NativeShape /\ Waits /\ Begins /\ Ticks
  OBVIOUS
<1>1. CASE Navigate
  <2>1. clock' = clock /\ native.phase = "navigate"
    BY <1>1 DEF Navigate
  <2>2. CASE Error
    <3>1. /\ native'.phase \in {"dispose", "shutdown"} /\ native'.failed /\ native'.job = native.job
      BY <1>0, <2>2, ErrorShape DEF NativeShape
    <3>2. Mode' = Mode
      BY ONLY <3>1 DEF Mode
    <3> QED
      BY ONLY <1>0, <2>1, <3>1, <3>2 DEF Ticks, Capturing
  <2>3. CASE Goto("load")
    <3>1. native'.phase = "load" /\ native'.job = native.job
      BY <1>0, <2>3, GotoShape DEF NativeShape, Phases
    <3>2. Mode' = Mode
      BY ONLY <3>1 DEF Mode
    <3> QED
      BY ONLY <1>0, <2>1, <3>1, <3>2 DEF Ticks, Capturing
  <2> QED
    BY <1>1, <2>2, <2>3 DEF Navigate
<1>2. CASE Send
  <2>1. native' = native /\ previous' = previous /\ clock' = clock
    BY <1>2 DEF Send, nativeVars
  <2>3. Unit' = Unit /\ Mode' = Mode
    BY ONLY <2>1 DEF Unit, Units, Mode
  <2>4. Stable' <=> Stable
    BY ONLY <2>1, <2>3 DEF Stable, Placement
  <2> QED
    BY ONLY <1>0, <2>1, <2>3, <2>4 DEF Ticks, InTransaction
<1>3. CASE Receive
  <2>1. previous' = previous /\ clock' = clock /\ native.phase \in Sending
    BY ONLY <1>0, <1>3 DEF Receive, Waits
  <2>2. CASE Error
    <3>1. /\ native'.phase \in {"dispose", "shutdown"} /\ native'.failed /\ native'.job = native.job
      BY <1>0, <2>2, ErrorShape DEF NativeShape
    <3>2. Mode' = Mode
      BY ONLY <3>1 DEF Mode
    <3> QED
      BY ONLY <1>0, <2>1, <3>1, <3>2 DEF Ticks, Capturing
  <2>3. CASE native' = Successor
    <3>1. native'.job = native.job
      BY <1>0, <2>1, <2>3, Successors
    <3>2. Mode' = Mode
      BY ONLY <3>1 DEF Mode
    <3>3. CASE native.phase \in {"load", "prepare", "dispose"}
      <4>1. /\ native'.phase \in {"prepare", "initialize", "navigate", "shutdown", "dispose"}
            /\ native'.failed = native.failed
            /\ native.phase = "dispose" /\ native'.phase = "navigate" => ~native.failed
            /\ native'.phase \in {"prepare", "initialize", "dispose"} => native.phase \in {"load", "prepare"}
        BY <1>0, <2>1, <2>3, <3>3, Successors
      <4> QED
        BY ONLY <1>0, <2>1, <3>2, <3>3, <4>1 DEF Ticks, Capturing
    <3>4. CASE native.phase \in {"seek", "confirm"}
      <4>1. /\ native'.unit = native.unit /\ native'.frame = native.frame
            /\ native'.failed = native.failed
            /\ native'.phase = "write" => native.phase = "confirm"
            /\ native'.phase = "recapture" => native.phase = "confirm"
            /\ native'.phase = "capture" => Stable \/ Mode = "screenshot"
            /\ native'.phase \in {"capture", "commit", "write", "recapture"}
        BY <1>0, <2>1, <2>3, <3>4, Successors
      <4>2. Unit' = Unit
        BY ONLY <3>1, <4>1 DEF Unit, Units
      <4>3. Stable' <=> Stable
        BY ONLY <2>1, <4>1, <4>2 DEF Stable, Placement
      <4>4. clock.next \in Int /\ clock.turn[2] \in Int
        BY ONLY <1>0 DEF Ticks, ClockType
      <4>5. CASE native.phase = "confirm"
        <5>1. native'.phase \in {"write", "recapture"}
          BY <1>0, <2>1, <2>3, <4>5, Successors
        <5>2. Mode \in {"beginFrame", "screenshot"}
          BY <1>0, JobFacts DEF Mode, NativeShape, NativeType
        <5>3. Mode = "beginFrame" => InTransaction /\ clock.turn[2] < clock.next - Step \div 2
          BY ONLY <1>0, <4>4, <4>5, Durations DEF Ticks
        <5>4. InTransaction' <=> InTransaction
          BY ONLY <2>1, <4>1 DEF InTransaction
        <5> QED
          BY ONLY <5>2, <5>3, <5>4, <1>0, <2>1, <3>2, <4>1, <4>2, <4>3, <4>4, <4>5, <5>1,
             Durations DEF Ticks, InTransaction, Capturing
      <4>6. CASE native.phase = "seek"
        BY ONLY <1>0, <2>1, <3>2, <4>1, <4>2, <4>3, <4>6 DEF Ticks, Capturing
      <4> QED
        BY <3>4, <4>5, <4>6
    <3> QED
      BY ONLY <2>1, <3>3, <3>4 DEF Sending
  <2> QED
    BY <1>3, <2>2, <2>3 DEF Receive
<1>4. CASE GiveUp
  <2>1. /\ native'.phase \in {"dispose", "shutdown"} /\ native'.failed /\ native'.job = native.job
        /\ clock' = clock
    BY <1>0, <1>4, ErrorShape DEF GiveUp, NativeShape
  <2>2. Mode' = Mode
    BY ONLY <2>1 DEF Mode
  <2> QED
    BY ONLY <1>0, <2>1, <2>2 DEF Ticks, Capturing
<1>5. CASE InitializeSurface
  <2>1. /\ previous' = previous /\ native.phase \in {"initialize"}
    BY ONLY <1>0, <1>5 DEF InitializeSurface, Sending, Waits
  <2>2. /\ native'.job = native.job /\ native'.unit = native.unit /\ native'.frame = native.frame
        /\ native'.phase \in {"frame"} /\ native'.failed = native.failed
    BY <1>0, <1>5, GotoShape DEF InitializeSurface, NativeShape, Phases
  <2>3. Unit' = Unit /\ Mode' = Mode
    BY ONLY <2>2 DEF Unit, Units, Mode
  <2>4. Stable' <=> Stable
    BY ONLY <2>1, <2>2, <2>3 DEF Stable, Placement
  <2>5. CASE Mode # "beginFrame"
    <3>1. clock' = clock
      BY ONLY <1>5, <2>5 DEF InitializeSurface
    <3>2. Mode = "screenshot"
      BY <1>0, <2>5, JobFacts DEF Mode, NativeShape, NativeType
    <3> QED
      BY ONLY <1>0, <2>1, <2>2, <2>3, <2>4, <3>1, <3>2 DEF Ticks, Capturing
  <2>6. CASE Mode = "beginFrame"
    <3> DEFINE time == IF clock.initialized THEN clock.next - Step \div 2 ELSE SurfaceTime
               turn == <<clock.turn[2], time>>
    <3>1. clock' = [clock EXCEPT !.initialized = TRUE, !.turn = turn]
      BY ONLY <1>5, <2>6 DEF InitializeSurface, InitializeClock
    <3>2. /\ clock \in ClockType /\ time \in Int /\ clock.turn[2] < time /\ clock.turn[2] \in Int
          /\ clock.next \in Int /\ time <= clock.next - Step \div 2
      <4>1. clock \in ClockType /\ clock.next \in Int /\ clock.turn[2] \in Int
        BY ONLY <1>0 DEF Ticks, ClockType
      <4>2. CASE clock.initialized
        <5>1. clock.turn[2] < clock.next - Step \div 2
          BY ONLY <1>0, <4>2, <2>1 DEF Ticks
        <5> QED
          BY ONLY <4>1, <4>2, <5>1, Durations
      <4>3. CASE ~clock.initialized
        <5>1. clock.turn[2] = 0 /\ clock.next = BaseTime
          BY ONLY <1>0, <4>3 DEF Ticks
        <5>2. SurfaceTime \in Int
          BY SMT DEF SurfaceTime
        <5> QED
          BY ONLY <4>1, <4>3, <5>1, <5>2, Durations
      <4> QED
        BY <4>2, <4>3
    <3> HIDE DEF time
    <3>3. turn \in Int \X Int /\ turn[1] = clock.turn[2] /\ turn[2] = time
      BY ONLY <3>2
    <3> HIDE DEF turn
    <3>4. /\ clock' \in ClockType /\ clock'.initialized /\ clock'.turn = turn
          /\ clock'.next = clock.next
      BY ONLY <3>1, <3>2, <3>3 DEF ClockType
    <3> QED
      BY ONLY <1>0, <2>1, <2>2, <2>3, <2>6, <3>2, <3>3, <3>4 DEF Ticks, Capturing, NativeShape
  <2> QED
    BY <2>5, <2>6
<1>6. CASE ChooseFrame
  <2>1. /\ previous' = previous /\ native.phase \in {"frame"}
        /\ clock' = clock
    BY ONLY <1>0, <1>6 DEF ChooseFrame, Sending, Waits
  <2>2. /\ native'.job = native.job /\ native'.unit = native.unit /\ native'.frame = native.frame
        /\ native'.phase \in {"write", "seek", "dispose"} /\ native'.failed = native.failed
    BY <1>0, <1>6, GotoShape DEF ChooseFrame, NativeShape, Phases
  <2>3. Unit' = Unit /\ Mode' = Mode
    BY ONLY <2>2 DEF Unit, Units, Mode
  <2>4. Stable' <=> Stable
    BY ONLY <2>1, <2>2, <2>3 DEF Stable, Placement
  <2>5. native'.phase = "dispose" => native.frame = Unit.to
    <3>1. Goto(IF native.frame = Unit.to THEN "dispose" ELSE IF Reuses THEN "write" ELSE "seek")
      BY ONLY <1>6 DEF ChooseFrame
    <3> QED
      BY <1>0, <3>1, GotoShape DEF NativeShape, Phases
  <2>6. native'.phase = "write" => previous # None
    <3>1. Goto(IF native.frame = Unit.to THEN "dispose" ELSE IF Reuses THEN "write" ELSE "seek")
      BY ONLY <1>6 DEF ChooseFrame
    <3> QED
      BY <1>0, <3>1, GotoShape DEF NativeShape, Phases, Reuses
  <2>7. native'.phase \in {"dispose", "write"} => native.frame # Unit.from
    <3>1. Unit.from < Unit.to /\ Unit.from \in Int /\ Unit.to \in Int /\ native.frame \in Int
      BY <1>0, UnitFacts
    <3>2. previous # None => native.frame > Unit.from
      BY ONLY <1>0, <2>1 DEF Begins, Capturing
    <3> QED
      BY ONLY <2>5, <2>6, <3>1, <3>2
  <2> QED
    BY ONLY <1>0, <2>1, <2>2, <2>3, <2>4, <2>7 DEF Ticks, InTransaction, Capturing
<1>7. CASE CommitSurface
  <2>1. /\ previous' = previous /\ native.phase \in {"commit"}
    BY ONLY <1>0, <1>7 DEF CommitSurface, Sending, Waits
  <2>2. /\ native'.job = native.job /\ native'.unit = native.unit /\ native'.frame = native.frame
        /\ native'.phase \in {"capture"} /\ native'.failed = native.failed
    BY <1>0, <1>7, GotoShape DEF CommitSurface, NativeShape, Phases
  <2>3. Unit' = Unit /\ Mode' = Mode
    BY ONLY <2>2 DEF Unit, Units, Mode
  <2>4. Stable' <=> Stable
    BY ONLY <2>1, <2>2, <2>3 DEF Stable, Placement
  <2>5. clock \in ClockType /\ native.frame \in Int /\ clock.next \in Int /\ clock.turn[2] \in Int
    BY ONLY <1>0 DEF Ticks, ClockType, NativeShape, NativeType
  <2>6. Mode = "beginFrame"
    BY <1>0, <2>1, <1>7, JobFacts DEF CommitSurface, Mode, NativeShape, NativeType
  <2>7. -Offset \in Int /\ clock.turn[2] < clock.next - Offset
    BY ONLY <1>0, <2>1, <2>5, <2>6, Durations DEF Ticks, Capturing
  <2>8. /\ clock' \in ClockType /\ clock'.initialized = clock.initialized
        /\ clock'.next = clock.next + Step
        /\ clock'.active = [frame |-> native.frame, time |-> clock.next]
        /\ clock'.turn[1] = clock.turn[2] /\ clock'.turn[2] = clock.next + (-Offset)
    BY <1>7, <2>5, <2>7, BeginShape DEF CommitSurface
  <2>9. InTransaction'
    BY ONLY <2>2, <2>5, <2>8, Durations DEF InTransaction
  <2> QED
    BY ONLY <1>0, <2>1, <2>2, <2>3, <2>5, <2>6, <2>7, <2>8, <2>9, Durations DEF Ticks, Capturing
<1>8. CASE Capture
  <2>1. /\ previous' = previous /\ native.phase \in {"capture"}
    BY ONLY <1>0, <1>8 DEF Capture, Sending, Waits
  <2>2. /\ native'.job = native.job /\ native'.unit = native.unit /\ native'.frame = native.frame
        /\ native'.phase \in {"confirm", "retry"} /\ native'.failed = native.failed
    BY <1>0, <1>8, GotoShape DEF Capture, NativeShape, Phases
  <2>3. Unit' = Unit /\ Mode' = Mode
    BY ONLY <2>2 DEF Unit, Units, Mode
  <2>4. Stable' <=> Stable
    BY ONLY <2>1, <2>2, <2>3 DEF Stable, Placement
  <2>5. clock \in ClockType /\ native.frame \in Int /\ clock.next \in Int /\ clock.turn[2] \in Int
    BY ONLY <1>0 DEF Ticks, ClockType, NativeShape, NativeType
  <2>6. Mode = "beginFrame"
    BY <1>0, <2>1, <1>8, JobFacts DEF Capture, Mode, NativeShape, NativeType
  <2>7. CASE Stable
    <3>1. BeginTransaction(0)
      BY <1>8, <2>7, StableReason DEF Capture
    <3>2. /\ clock' \in ClockType /\ clock'.initialized = clock.initialized
          /\ clock'.next = clock.next + Step
          /\ clock'.active = [frame |-> native.frame, time |-> clock.next]
          /\ clock'.turn[1] = clock.turn[2] /\ clock'.turn[2] = clock.next + 0
      BY <3>1, <2>5, BeginShape
    <3>3. InTransaction'
      BY ONLY <2>2, <2>5, <3>2, Durations DEF InTransaction
    <3> QED
      BY ONLY <1>0, <2>1, <2>2, <2>3, <2>5, <2>6, <3>2, <3>3, Durations DEF Ticks, Capturing
  <2>8. CASE ~Stable
    <3>1. InTransaction /\ clock.turn[2] < clock.next - Step
      BY ONLY <1>0, <2>1, <2>6, <2>8 DEF Ticks
    <3>2. Tick(0)
      BY <1>8, <2>8, StableReason DEF Capture
    <3>3. /\ clock' \in ClockType /\ clock'.initialized = clock.initialized
          /\ clock'.next = clock.next /\ clock'.active = clock.active
          /\ clock'.turn[1] = clock.turn[2] /\ clock'.turn[2] = clock.next - Step + 0
      BY <2>5, <3>1, <3>2, TickShape
    <3>4. InTransaction'
      BY ONLY <2>2, <3>1, <3>3 DEF InTransaction
    <3> QED
      BY ONLY <1>0, <2>1, <2>2, <2>3, <2>5, <2>6, <3>1, <3>3, <3>4, Durations DEF Ticks, Capturing
  <2> QED
    BY <2>7, <2>8
<1>9. CASE RetryCapture
  <2>1. /\ previous' = previous /\ native.phase \in {"retry"}
    BY ONLY <1>0, <1>9 DEF RetryCapture, Sending, Waits
  <2>2. /\ native'.job = native.job /\ native'.unit = native.unit /\ native'.frame = native.frame
        /\ native'.phase \in {"confirm", "dispose"} /\ native'.failed \in BOOLEAN
    <3>1. native \in NativeType /\ native.phase \notin {"navigate", "dispose"}
      BY ONLY <1>0, <2>1 DEF NativeShape
    <3>2. CASE Goto("confirm")
      BY <3>1, <3>2, GotoShape DEF Phases, NativeType
    <3>3. CASE Error
      BY <3>1, <3>3, ErrorShape
    <3> QED
      BY ONLY <1>9, <3>2, <3>3 DEF RetryCapture
  <2>3. Unit' = Unit /\ Mode' = Mode
    BY ONLY <2>2 DEF Unit, Units, Mode
  <2>4. Stable' <=> Stable
    BY ONLY <2>1, <2>2, <2>3 DEF Stable, Placement
  <2>5. clock \in ClockType /\ native.frame \in Int /\ clock.next \in Int /\ clock.turn[2] \in Int
    BY ONLY <1>0 DEF Ticks, ClockType, NativeShape, NativeType
  <2>6. Mode = "beginFrame"
    BY <1>0, <2>1, <1>9, JobFacts DEF RetryCapture, Mode, NativeShape, NativeType
  <2>7. InTransaction /\ clock.turn[2] < clock.next - Step + Offset
    BY ONLY <1>0, <2>1, <2>5, <2>6, Durations DEF Ticks
  <2>8. /\ clock' \in ClockType /\ clock'.initialized = clock.initialized
        /\ clock'.next = clock.next /\ clock'.active = clock.active
        /\ clock'.turn[1] = clock.turn[2] /\ clock'.turn[2] = clock.next - Step + Offset
    <3>1. Offset \in Int /\ Tick(Offset)
      BY <1>9, Durations DEF RetryCapture
    <3> QED
      BY <2>5, <2>7, <3>1, TickShape
  <2>9. InTransaction'
    BY ONLY <2>2, <2>7, <2>8 DEF InTransaction
  <2> QED
    BY ONLY <1>0, <2>1, <2>2, <2>3, <2>5, <2>6, <2>7, <2>8, <2>9, Durations DEF Ticks, Capturing
<1>10. CASE Recapture
  <2>1. /\ previous' = previous /\ native.phase \in {"recapture"}
    BY ONLY <1>0, <1>10 DEF Recapture, Sending, Waits
  <2>2. /\ native'.job = native.job /\ native'.unit = native.unit /\ native'.frame = native.frame
        /\ native'.phase \in {"write", "dispose"} /\ native'.failed \in BOOLEAN
    <3>1. native \in NativeType /\ native.phase \notin {"navigate", "dispose"}
      BY ONLY <1>0, <2>1 DEF NativeShape
    <3>2. CASE Goto("write")
      BY <3>1, <3>2, GotoShape DEF Phases, NativeType
    <3>3. CASE Error
      BY <3>1, <3>3, ErrorShape
    <3> QED
      BY ONLY <1>10, <3>2, <3>3 DEF Recapture
  <2>3. Unit' = Unit /\ Mode' = Mode
    BY ONLY <2>2 DEF Unit, Units, Mode
  <2>4. Stable' <=> Stable
    BY ONLY <2>1, <2>2, <2>3 DEF Stable, Placement
  <2>5. clock \in ClockType /\ native.frame \in Int /\ clock.next \in Int /\ clock.turn[2] \in Int
    BY ONLY <1>0 DEF Ticks, ClockType, NativeShape, NativeType
  <2>6. Mode = "beginFrame"
    BY <1>0, <2>1, <1>10, JobFacts DEF Recapture, Mode, NativeShape, NativeType
  <2>7. InTransaction /\ clock.turn[2] < clock.next - Step + 2 * Offset
    BY ONLY <1>0, <2>1, <2>5, <2>6, Durations DEF Ticks
  <2>8. /\ clock' \in ClockType /\ clock'.initialized = clock.initialized
        /\ clock'.next = clock.next /\ clock'.active = clock.active
        /\ clock'.turn[1] = clock.turn[2] /\ clock'.turn[2] = clock.next - Step + 2 * Offset
    <3>1. 2 * Offset \in Int /\ Tick(2 * Offset)
      BY <1>10, Durations DEF Recapture
    <3> QED
      BY <2>5, <2>7, <3>1, TickShape
  <2>9. InTransaction'
    BY ONLY <2>2, <2>7, <2>8 DEF InTransaction
  <2> QED
    BY ONLY <1>0, <2>1, <2>2, <2>3, <2>5, <2>6, <2>7, <2>8, <2>9, Durations DEF Ticks, Capturing
<1>11. CASE TakeScreenshot
  <2>1. /\ previous' = previous /\ native.phase \in {"capture", "recapture"}
        /\ clock' = clock /\ Mode = "screenshot"
    BY ONLY <1>0, <1>11 DEF TakeScreenshot, Sending, Waits
  <2>2. /\ native'.job = native.job /\ native'.unit = native.unit /\ native'.frame = native.frame
        /\ native'.phase \in {"confirm", "write"} /\ native'.failed = native.failed
    BY <1>0, <1>11, GotoShape DEF TakeScreenshot, NativeShape, Phases
  <2>3. Unit' = Unit /\ Mode' = Mode
    BY ONLY <2>2 DEF Unit, Units, Mode
  <2>4. Stable' <=> Stable
    BY ONLY <2>1, <2>2, <2>3 DEF Stable, Placement
  <2> QED
    BY ONLY <1>0, <2>1, <2>2, <2>3 DEF Ticks, Capturing
<1>12. CASE Write
  <2>1. /\ clock' = clock /\ native.phase = "write" /\ native'.phase = "frame"
        /\ native'.failed = native.failed /\ native'.job = native.job
    BY <1>0, <1>12 DEF Write, NativeShape, NativeType
  <2>2. Mode' = Mode
    BY ONLY <2>1 DEF Mode
  <2> QED
    BY ONLY <1>0, <2>1, <2>2 DEF Ticks, Capturing
<1>13. CASE StepFails
  <2>1. /\ native'.phase \in {"dispose", "shutdown"} /\ native'.failed /\ native'.job = native.job
        /\ clock' = clock
    BY <1>0, <1>13, ErrorShape DEF StepFails, NativeShape
  <2>2. Mode' = Mode
    BY ONLY <2>1 DEF Mode
  <2> QED
    BY ONLY <1>0, <2>1, <2>2 DEF Ticks, Capturing
<1>14. CASE Shutdown
  <2>1. clock' = clock /\ native'.phase \in {"done", "failed"} /\ native'.job = native.job
    BY <1>0, <1>14, GotoShape DEF Shutdown, NativeShape, Phases
  <2>2. Mode' = Mode
    BY ONLY <2>1 DEF Mode
  <2> QED
    BY ONLY <1>0, <2>1, <2>2 DEF Ticks, Capturing
<1>15. CASE PageStep
  <2>1. native' = native /\ previous' = previous /\ clock' = clock
    BY <1>15 DEF PageStep, nativeVars
  <2>3. Unit' = Unit /\ Mode' = Mode
    BY ONLY <2>1 DEF Unit, Units, Mode
  <2>4. Stable' <=> Stable
    BY ONLY <2>1, <2>3 DEF Stable, Placement
  <2> QED
    BY ONLY <1>0, <2>1, <2>3, <2>4 DEF Ticks, InTransaction
<1>16. ASSUME NEW v \in Videos, FreeTurn(v)
       PROVE  Ticks'
  <2>1. native' = native /\ previous' = previous /\ clock' = clock
    BY <1>16 DEF FreeTurn, nativeVars
  <2>3. Unit' = Unit /\ Mode' = Mode
    BY ONLY <2>1 DEF Unit, Units, Mode
  <2>4. Stable' <=> Stable
    BY ONLY <2>1, <2>3 DEF Stable, Placement
  <2> QED
    BY ONLY <1>0, <2>1, <2>3, <2>4 DEF Ticks, InTransaction
<1>17. CASE UNCHANGED vars
  <2>1. native' = native /\ previous' = previous /\ clock' = clock
    BY <1>17 DEF vars, nativeVars
  <2>3. Unit' = Unit /\ Mode' = Mode
    BY ONLY <2>1 DEF Unit, Units, Mode
  <2>4. Stable' <=> Stable
    BY ONLY <2>1, <2>3 DEF Stable, Placement
  <2> QED
    BY ONLY <1>0, <2>1, <2>3, <2>4 DEF Ticks, InTransaction
<1> QED
  BY <1>1, <1>2, <1>3, <1>4, <1>5, <1>6, <1>7, <1>8, <1>9, <1>10,
     <1>11, <1>12, <1>13, <1>14, <1>15, <1>16, <1>17
     DEF CaptureNext, NativeStep, Stop

(* Pictures are pictures, and the last capture is the compositor's own.    *)
ScreenType ==
    /\ lastCapture \in {None, copied}
    /\ shot \in PictureType \cup {None}
    /\ previous \in PictureType \cup {None}
    /\ screen \in PictureType
    /\ copied \in PictureType \cup {None}
    /\ shown \in Frames \cup {None}
    /\ age \in 0 .. 2

(* What the page shows once the compositor has caught up with it. *)
Dom == IF shown = None THEN 0 ELSE Unit.look[shown]
Current == [dom |-> Dom, media |-> [v \in Videos |-> IF v \in visible THEN onscreen[v] ELSE None]]

(* The appearance of the page is one of its unit.                          *)
LEMMA DomType ==
    ASSUME NativeShape, shown \in Frames \cup {None}
    PROVE  Dom \in Nat
BY UnitFacts, JobFacts DEF Dom

(* A turn makes a picture.                                                 *)
LEMMA TurnType ==
    ASSUME NativeShape, ScreenType, TypeOK, Turn
    PROVE  /\ screen' \in PictureType
           /\ shown' = shown /\ visible' = visible
           /\ age' \in 1 .. 2 /\ (age # 0 => age' = 2)
<1>1. PICK vs \in SUBSET {v \in Videos : Presentable(v)} :
        /\ screen' \in Composed(vs)
        /\ age' = IF age < 2 THEN age + 1 ELSE 2
        /\ UNCHANGED <<shown, visible>>
  BY DEF Turn
<1>2. screen' \in PictureType
  <2>1. screen' \in [dom : IF age = 0 THEN {screen.dom, Dom} ELSE {Dom},
                     media : [Videos -> SourceTimes \cup {None}]]
    BY <1>1 DEF Composed, Dom
  <2>2. Dom \in Nat /\ screen.dom \in Nat
    BY DomType DEF ScreenType, PictureType
  <2> QED
    BY ONLY <2>1, <2>2 DEF PictureType
<1>3. age' \in 1 .. 2 /\ (age # 0 => age' = 2)
  BY <1>1 DEF ScreenType
<1> QED
  BY ONLY <1>1, <1>2, <1>3

(* A turn when the layers have settled shows what the page shows. *)
LEMMA TurnSettled ==
    ASSUME NativeShape, Unit' = Unit, Turn, age = 2
    PROVE  screen' = Current'
<1>1. PICK vs \in SUBSET {v \in Videos : Presentable(v)} :
        /\ onscreen' = [v \in Videos |-> IF v \in vs THEN decoded[v] ELSE onscreen[v]]
        /\ screen' \in Composed(vs)
        /\ UNCHANGED <<shown, visible>>
  BY DEF Turn
<1>2. /\ screen' \in [dom : {Dom}, media : [Videos -> SourceTimes \cup {None}]]
      /\ \A v \in Videos : screen'.media[v] = IF v \notin visible THEN None
                              ELSE IF v \in vs THEN decoded[v] ELSE onscreen[v]
  BY <1>1 DEF Composed, Dom
<1>3. \A v \in Videos : screen'.media[v] = IF v \in visible' THEN onscreen'[v] ELSE None
  BY <1>1, <1>2
<1>4. screen'.media = [v \in Videos |-> IF v \in visible' THEN onscreen'[v] ELSE None]
  BY ONLY <1>2, <1>3
<1>5. Dom' = Dom
  BY <1>1 DEF Dom
<1>6. screen' = [dom |-> screen'.dom, media |-> screen'.media] /\ screen'.dom = Dom
  BY ONLY <1>2
<1> QED
  BY ONLY <1>4, <1>5, <1>6 DEF Current

(* Pictures stay pictures.                                                 *)
LEMMA ScreenTypeStep ==
    ASSUME RInv, NativeShape, ScreenType, [CaptureNext]_vars
    PROVE  ScreenType'
<1>0. RInv /\ NativeShape /\ ScreenType
  OBVIOUS
<1>00. RInv'
  BY RuntimeInvariantStep
<1>1. CASE Navigate
  <2>1. /\ lastCapture' = None /\ previous' = None /\ UNCHANGED <<copied, shot, screen>>
        /\ \/ shown' = None /\ age' = 0
           \/ UNCHANGED <<shown, age>>
    BY <1>1 DEF Navigate
  <2> QED
    BY ONLY <1>0, <2>1 DEF ScreenType
<1>2. CASE Send
  <2>1. UNCHANGED <<lastCapture, copied, shot, previous, screen, shown, age>>
    BY <1>2 DEF Send, browserVars, nativeVars
  <2> QED
    BY ONLY <1>0, <2>1 DEF ScreenType
<1>3. CASE Receive
  <2>1. UNCHANGED <<lastCapture, copied, shot, previous, screen, shown, age>>
    BY <1>3 DEF Receive, browserVars, nativeVars
  <2> QED
    BY ONLY <1>0, <2>1 DEF ScreenType
<1>4. CASE GiveUp
  <2>1. UNCHANGED <<lastCapture, copied, shot, previous, screen, shown, age>>
    BY <1>4 DEF GiveUp, browserVars, nativeVars
  <2> QED
    BY ONLY <1>0, <2>1 DEF ScreenType
<1>5. CASE InitializeSurface
  <2>1. Turn \/ UNCHANGED <<screen, shown, age>>
    BY <1>5 DEF InitializeSurface
  <2>2. UNCHANGED <<lastCapture, copied, shot, previous>>
    BY <1>5 DEF InitializeSurface
  <2> QED
    BY <1>0, <2>1, <2>2, TurnType DEF RInv, LInv, ScreenType
<1>6. CASE ChooseFrame
  <2>1. shot' \in {shot, previous} /\ UNCHANGED <<lastCapture, copied, previous, screen, shown, age>>
    BY <1>6 DEF ChooseFrame, browserVars
  <2> QED
    BY ONLY <1>0, <2>1 DEF ScreenType
<1>7. CASE CommitSurface
  <2>1. Turn /\ UNCHANGED <<lastCapture, copied, shot, previous>>
    BY <1>7 DEF CommitSurface
  <2> QED
    BY <1>0, <2>1, TurnType DEF RInv, LInv, ScreenType
<1>8. CASE Capture
  <2>1. /\ Turn /\ previous' = previous
        /\ \/ copied' = screen' /\ lastCapture' = screen' /\ shot' = screen'
           \/ UNCHANGED <<copied, lastCapture>> /\ shot' \in {shot, lastCapture}
    BY <1>8 DEF Capture, Returned, Omitted
  <2> QED
    BY <1>0, <2>1, TurnType DEF RInv, LInv, ScreenType
<1>9. CASE RetryCapture
  <2>1. /\ Turn /\ previous' = previous
        /\ \/ copied' = screen' /\ lastCapture' = screen' /\ shot' = screen'
           \/ UNCHANGED <<copied, lastCapture>> /\ shot' \in {shot, lastCapture}
    BY <1>9 DEF RetryCapture, Returned, Omitted
  <2> QED
    BY <1>0, <2>1, TurnType DEF RInv, LInv, ScreenType
<1>10. CASE Recapture
  <2>1. /\ Turn /\ previous' = previous
        /\ \/ copied' = screen' /\ lastCapture' = screen' /\ shot' = screen'
           \/ UNCHANGED <<copied, lastCapture>> /\ shot' \in {shot, lastCapture}
    BY <1>10 DEF Recapture, Returned, Omitted
  <2> QED
    BY <1>0, <2>1, TurnType DEF RInv, LInv, ScreenType
<1>11. CASE TakeScreenshot
  <2>1. /\ copied' = screen' /\ lastCapture' = screen' /\ shot' = screen'
        /\ UNCHANGED <<previous, shown, age>>
        /\ screen' = Current
    BY <1>11 DEF TakeScreenshot, Returned, Current, Dom
  <2>2. Current \in PictureType
    BY <1>0, DomType DEF Current, PictureType, ScreenType, RInv, LInv, TypeOK
  <2> QED
    BY ONLY <1>0, <2>1, <2>2 DEF ScreenType
<1>12. CASE Write
  <2>1. previous' = shot /\ UNCHANGED <<lastCapture, copied, shot, screen, shown, age>>
    BY <1>12 DEF Write, browserVars
  <2> QED
    BY ONLY <1>0, <2>1 DEF ScreenType
<1>13. CASE StepFails
  <2>1. UNCHANGED <<lastCapture, copied, shot, previous, screen, shown, age>>
    BY <1>13 DEF StepFails, browserVars, nativeVars
  <2> QED
    BY ONLY <1>0, <2>1 DEF ScreenType
<1>14. CASE Shutdown
  <2>1. UNCHANGED <<lastCapture, copied, shot, previous, screen, shown, age>>
    BY <1>14 DEF Shutdown, browserVars, nativeVars
  <2> QED
    BY ONLY <1>0, <2>1 DEF ScreenType
<1>15. CASE PageStep
  <2>1. UNCHANGED <<lastCapture, copied, shot, previous, screen>>
    BY <1>15 DEF PageStep
  <2>2. shown' \in Frames \cup {None}
    BY <1>0, <1>00, <1>15 DEF PageStep, ScreenType, RInv, LInv, TypeOK
  <2>3. age' \in {0, age}
    BY <1>15 DEF PageStep
  <2> QED
    BY ONLY <1>0, <2>1, <2>2, <2>3 DEF ScreenType
<1>16. ASSUME NEW v \in Videos, FreeTurn(v)
       PROVE  ScreenType'
  <2>1. UNCHANGED <<lastCapture, copied, shot, previous, screen, shown, age>>
    BY <1>16 DEF FreeTurn, nativeVars
  <2> QED
    BY ONLY <1>0, <2>1 DEF ScreenType
<1>17. CASE UNCHANGED vars
  <2>1. UNCHANGED <<lastCapture, copied, shot, previous, screen, shown, age>>
    BY <1>17 DEF vars, browserVars, nativeVars
  <2> QED
    BY ONLY <1>0, <2>1 DEF ScreenType
<1> QED
  BY <1>1, <1>2, <1>3, <1>4, <1>5, <1>6, <1>7, <1>8, <1>9, <1>10,
     <1>11, <1>12, <1>13, <1>14, <1>15, <1>16, <1>17
     DEF CaptureNext, NativeStep, Stop

(* The layers a frame of a unit shows. *)
Layers(unit, f) == IF unit.plan.media = "decoded" THEN {v \in Videos : MediaTime[v][f] # None} ELSE {}

(* The page shows this frame or one before it in the same placement. *)
Near(f) == shown # None /\ shown <= f /\ \A b \in Unit.boundaries : b <= shown \/ f < b

(* Which frame the page shows. *)
Showing ==
    /\ \/ native.phase \in {"commit", "capture", "retry", "confirm", "recapture"}
       \/ native.phase = "seek" /\ Answered("frameStaged")
       => shown = native.frame
    /\ native.phase = "recapture" \/ (native.phase = "confirm" /\ Answered("frameReady")) =>
          visible = Layers(Unit, native.frame)
    /\ native.phase = "frame" /\ previous # None => Near(native.frame - 1)
    /\ native.phase = "seek" /\ answer = None /\ previous # None => Near(native.frame - 1)
    /\ native.phase = "write" => Near(native.frame)

(* How far the compositor has caught up with the layers. *)
Settles == Mode = "beginFrame" =>
    /\ native.phase = "capture" => age # 0
    /\ native.phase \in {"retry", "confirm", "recapture", "write"} => age = 2
    /\ native.phase = "frame" /\ previous # None => age = 2
    /\ native.phase \in {"seek", "capture"} /\ Stable => age = 2

(* The placement of a frame that is staged is that of the frame before it  *)
(* unless a boundary lies at it.                                           *)
LEMMA SegmentKept ==
    ASSUME NativeShape, shown \in Frames \cup {None}, Near(native.frame - 1), ~Placement
    PROVE  Segment(shown) = Segment(native.frame)
<1>1. /\ Unit.boundaries \subseteq Int /\ native.frame \in Int /\ shown \in Int
      /\ native.frame \notin Unit.boundaries
  BY UnitFacts, JobFacts, ConstantsAssumption DEF Near, Placement
<1>2. {b \in Unit.boundaries : b <= shown} = {b \in Unit.boundaries : b <= native.frame}
  BY <1>1 DEF Near
<1> QED
  BY <1>2 DEF Segment

(* The active videos of a page that is alive are its plan's layers. *)
LEMMA ActiveLayers ==
    ASSUME RInv, session.kind \in {"loaded", "ready", "staged"}, session.plan = Unit.plan, NEW f
    PROVE  Active(f) = Layers(Unit, f)
BY DEF RInv, BoundAsPlanned, BoundTo, Active, Layers, Bound

(* The layers of a staged frame are visible.                               *)
LEMMA StagedVisible ==
    ASSUME RInv, session.kind = "staged", session.plan = Unit.plan, session.frame = native.frame
    PROVE  visible = Layers(Unit, native.frame)
BY ActiveLayers DEF RInv, OInv, Shown

(* Confirmation leaves the layers as they are.                             *)
LEMMA ConfirmingVisible ==
    ASSUME LInv, RuntimeStep, command.type = "confirm"
    PROVE  visible' = visible
<1> USE DEF LInv, Serving
<1>1. ASSUME NEW v \in Videos, VideoStarts(v) \/ VideoSettles(v) \/ ConfirmVideo(v)
      PROVE  visible' = visible
  BY <1>1 DEF VideoStarts, VideoSettles, StartLoad, StartStage, SettleLoad, Decode, SettleStage,
              ConfirmVideo
<1>2. LoadCompletes \/ PrepareCompletes \/ ConfirmCompletes \/ ExtensionsSettle \/ EffectsSettle
        => visible' = visible
  BY DEF LoadCompletes, PrepareCompletes, ConfirmCompletes, ExtensionsSettle, EffectsSettle
<1>3. ~StagingCompletes /\ ~ReleaseCompletes
  BY DEF StagingCompletes, ReleaseCompletes
<1> QED
  BY <1>1, <1>2, <1>3 DEF RuntimeStep, BoundedStep, AuthorStep

(* A step of the page while the native side has not failed. *)
LEMMA AwaitedPageStep ==
    ASSUME RInv, NativeShape, Waits, PageStep, [CaptureNext]_vars, ~native.failed
    PROVE  /\ UNCHANGED <<native, awaiting, lastCapture, shot, previous, clock, written, screen,
                          copied, onscreen>>
           /\ native.phase \notin {"load", "prepare", "seek", "dispose"} => visible' = visible
           /\ \/ Works /\ answer' = answer /\ UNCHANGED <<shown, age>>
              \/ /\ answer = None /\ answer' = reply' /\ answer' # None /\ Concludes
                 /\ native.phase \in Sending /\ command = Request /\ command.type = native.phase
                 /\ native.phase \in {"seek", "confirm"} => command.frame = native.frame
                 /\ IF reply'.event = "frameStaged"
                    THEN /\ native.phase = "seek" /\ shown' = native.frame
                         /\ age' = IF shown = None \/ Segment(shown) # Segment(native.frame)
                                   THEN 0 ELSE age
                    ELSE UNCHANGED <<shown, age>>
<1>1. command # None =>
        /\ awaiting # None /\ answer = None /\ native.phase \in Sending
        /\ command = Request /\ awaiting = command
  BY DEF Waits
<1>2. command # None =>
        /\ command.type = native.phase
        /\ native.phase \in {"seek", "confirm"} => command.frame = native.frame
  BY <1>1, Requests
<1>3. native.phase \notin {"load", "prepare", "seek", "dispose"} => visible' = visible
  <2>1. CASE RuntimeStep
    <3>1. command # None
      BY <2>1, RuntimeStepShape DEF RInv, LInv
    <3> QED
      BY <1>1, <1>2, <2>1, <3>1, ConfirmingVisible DEF RInv, Sending
  <2>2. ASSUME NEW v \in Videos, ObservationFails(v) PROVE visible' = visible
    BY <2>2 DEF ObservationFails, Observed
  <2> QED
    BY <2>1, <2>2 DEF PageStep
<1>4. RInv'
  BY RuntimeInvariantStep
<1>5. reply' # None
  BY <1>4, NoAnswerAssumption DEF RInv, LInv, TypeOK
<1>6. CASE Works /\ answer' = answer /\ UNCHANGED <<shown, age>>
  BY <1>3, <1>6, PageStepShape DEF RInv
<1>7. CASE /\ command # None /\ Concludes
           /\ answer' = IF awaiting = command THEN reply' ELSE answer
           /\ IF reply'.event = "frameStaged"
              THEN /\ shown' = staged'
                   /\ age' = IF shown = None \/ Segment(shown) # Segment(staged') THEN 0 ELSE age
              ELSE UNCHANGED <<shown, age>>
  <2>1. reply'.event = "frameStaged" => staged' = command.frame /\ command.type = "seek"
    BY <1>7 DEF Concludes, Ends
  <2>2. reply'.event = "frameStaged" => staged' = native.frame /\ native.phase = "seek"
    BY <1>2, <1>7, <2>1
  <2> HIDE DEF Concludes
  <2>3. UNCHANGED <<native, awaiting, lastCapture, shot, previous, clock, written, screen,
                    copied, onscreen>>
    BY PageStepShape DEF RInv
  <2> QED
    BY ONLY <1>1, <1>2, <1>3, <1>5, <1>7, <2>2, <2>3
<1> QED
  BY ONLY <1>6, <1>7, RInv, PageStep, PageStepShape DEF RInv

(* A page that shows the frame at work is near it.                         *)
LEMMA NearItself ==
    ASSUME NativeShape, shown \in Frames \cup {None}, shown = native.frame,
           native.phase \in Capturing \ {"frame"}
    PROVE  Near(native.frame)
<1>1. shown \in Int /\ Unit.boundaries \subseteq Int /\ native.frame \in Int
  BY UnitFacts, JobFacts, ConstantsAssumption
<1>2. shown # None
  BY FrameFacts, ConstantsAssumption DEF NativeShape
<1> QED
  BY <1>1, <1>2 DEF Near

(* The page shows the frame at work, or the one its reused picture stands  *)
(* for.                                                                    *)
LEMMA ShowingStep ==
    ASSUME RInv, NativeShape, Waits, PageAt, Begins, ScreenType, Showing, [CaptureNext]_vars
    PROVE  Showing'
<1>0. RInv /\ NativeShape /\ Waits /\ PageAt /\ Begins /\ ScreenType /\ Showing
  OBVIOUS
<1>1. CASE Navigate
  <2>1. native'.phase \in {"load", "shutdown"}
    <3>1. (Goto("load") \/ Error) /\ native.phase = "navigate"
      BY ONLY <1>1 DEF Navigate
    <3>2. Error => native'.phase \in {"dispose", "shutdown"} /\ native'.phase # "dispose"
      BY ONLY <1>0, <3>1 DEF NativeShape, NativeType, Error
    <3> QED
      BY <1>0, <3>1, <3>2, GotoShape DEF NativeShape, Phases
  <2> QED
    BY ONLY <2>1 DEF Showing
<1>2. CASE Send
  <2>1. /\ native.phase \in Sending /\ native' = native /\ awaiting = None /\ shown' = shown
        /\ previous' = previous /\ Dispatch(Request)
        /\ answer' = IF command = None /\ command' # None THEN None ELSE reply'
    BY <1>2 DEF Send, Sending, browserVars
  <2>2. Request \in Commands /\ Request.type = native.phase /\ Request # None
    BY <1>0, <2>1, Requests
  <2>3. Began(Request) \/ Refused(Request) \/ DisposedBefore(Request)
    BY <1>0, <2>1, <2>2, DispatchShape DEF RInv, LInv
  <2>4. answer = None
    BY ONLY <1>0, <2>1 DEF Waits
  <2>5. Unit' = Unit
    BY ONLY <2>1 DEF Unit, Units
  <2>6. answer' = None \/ answer'.event \in {"invalidRequest", "seekFailed", "confirmFailed", "disposed"}
    BY ONLY <2>1, <2>2, <2>3 DEF Began, Refused, DisposedBefore
  <2> QED
    BY ONLY <1>0, <2>1, <2>4, <2>5, <2>6 DEF Showing, Answered, Near, Sending
<1>3. CASE Receive
  <2>1. /\ awaiting # None /\ answer # None /\ answer' = None /\ shown' = shown
        /\ visible' = visible /\ previous' = previous /\ native.phase \in Sending
    BY ONLY <1>0, <1>3 DEF Receive, runtimeVars, browserVars, Waits
  <2>2. CASE Error
    <3>1. native'.phase \in {"dispose", "shutdown"}
      BY <1>0, <2>2, ErrorShape DEF NativeShape
    <3> QED
      BY ONLY <3>1 DEF Showing
  <2>3. CASE answer.event = Accepted /\ native' = Successor
    <3>1. native'.job = native.job
      BY <1>0, <2>1, <2>3, Successors
    <3>2. CASE native.phase \notin {"seek", "confirm"}
      <4>1. native'.phase \in {"prepare", "initialize", "dispose", "navigate", "shutdown"}
        BY <1>0, <2>1, <2>3, <3>2, Successors
      <4> QED
        BY ONLY <4>1 DEF Showing
    <3>3. CASE native.phase \in {"seek", "confirm"}
      <4>1. native'.unit = native.unit /\ native'.frame = native.frame
        BY <1>0, <2>1, <2>3, <3>3, Successors
      <4>2. Unit' = Unit
        BY ONLY <3>1, <4>1 DEF Unit, Units
      <4>3. CASE native.phase = "seek"
        <5>1. Answered("frameStaged") /\ native'.phase \in {"capture", "commit"}
          BY <1>0, <2>1, <2>3, <4>3, Successors DEF Answered, Accepted
        <5> QED
          BY ONLY <1>0, <2>1, <4>1, <4>2, <4>3, <5>1 DEF Showing, Answered
      <4>4. CASE native.phase = "confirm"
        <5>1. Answered("frameReady") /\ native'.phase \in {"write", "recapture"}
          BY <1>0, <2>1, <2>3, <4>4, Successors DEF Answered, Accepted
        <5>2. shown = native.frame => Near(native.frame)
          BY <1>0, <4>4, NearItself DEF ScreenType, Capturing
        <5> QED
          BY ONLY <1>0, <2>1, <4>1, <4>2, <4>4, <5>1, <5>2 DEF Showing, Answered, Near
      <4> QED
        BY <3>3, <4>3, <4>4
    <3> QED
      BY <3>2, <3>3
  <2> QED
    BY <1>3, <2>2, <2>3 DEF Receive
<1>4. CASE GiveUp
  <2>1. native'.phase \in {"dispose", "shutdown"}
    BY <1>0, <1>4, ErrorShape DEF GiveUp, NativeShape
  <2> QED
    BY ONLY <2>1 DEF Showing
<1>5. CASE InitializeSurface
  <2>1. /\ previous' = previous /\ native.phase \in {"initialize"}
        /\ answer' = answer /\ shown' = shown
    BY ONLY <1>0, <1>5, TurnShape DEF InitializeSurface, Sending, Waits, Turn, Turned, browserVars,
       runtimeVars
  <2>2. /\ native'.job = native.job /\ native'.unit = native.unit /\ native'.frame = native.frame
        /\ native'.phase \in {"frame"}
    BY <1>0, <1>5, GotoShape DEF InitializeSurface, NativeShape, Phases
  <2>3. Unit' = Unit /\ Mode' = Mode
    BY ONLY <2>2 DEF Unit, Units, Mode
  <2>4. answer = None
    BY ONLY <1>0, <2>1 DEF Waits, Sending
  <2>5. previous = None
    BY ONLY <1>0, <2>1 DEF Begins
  <2> QED
    BY ONLY <2>1, <2>2, <2>5 DEF Showing
<1>6. CASE ChooseFrame
  <2>1. /\ previous' = previous /\ native.phase \in {"frame"}
        /\ answer' = answer /\ shown' = shown
    BY ONLY <1>0, <1>6, TurnShape DEF ChooseFrame, Sending, Waits, Turn, Turned, browserVars,
       runtimeVars
  <2>2. /\ native'.job = native.job /\ native'.unit = native.unit /\ native'.frame = native.frame
        /\ native'.phase \in {"write", "seek", "dispose"}
    BY <1>0, <1>6, GotoShape DEF ChooseFrame, NativeShape, Phases
  <2>3. Unit' = Unit /\ Mode' = Mode
    BY ONLY <2>2 DEF Unit, Units, Mode
  <2>4. answer = None
    BY ONLY <1>0, <2>1 DEF Waits, Sending
  <2>5. native'.phase = "write" => previous # None /\ ~Placement
    <3>1. Goto(IF native.frame = Unit.to THEN "dispose" ELSE IF Reuses THEN "write" ELSE "seek")
      BY ONLY <1>6 DEF ChooseFrame
    <3> QED
      BY <1>0, <3>1, GotoShape DEF NativeShape, Phases, Reuses
  <2>6. native'.phase = "write" => Near(native.frame)
    <3>1. /\ native.frame \in Int /\ Unit.boundaries \subseteq Int
          /\ shown \in Frames \cup {None} /\ Frames \subseteq Int
      BY <1>0, UnitFacts, JobFacts, ConstantsAssumption DEF ScreenType
    <3>2. SUFFICES ASSUME native'.phase = "write"
                   PROVE  Near(native.frame)
      OBVIOUS
    <3>3. Near(native.frame - 1)
      BY ONLY <1>0, <2>1, <2>5, <3>2 DEF Showing
    <3>4. shown \in Int /\ native.frame \notin Unit.boundaries
      BY ONLY <2>5, <3>1, <3>2, <3>3 DEF Near, Placement
    <3> QED
      BY ONLY <3>1, <3>3, <3>4 DEF Near
  <2> QED
    BY ONLY <1>0, <2>1, <2>2, <2>3, <2>4, <2>6 DEF Showing, Answered, Near
<1>7. CASE CommitSurface
  <2>1. /\ previous' = previous /\ native.phase \in {"commit"}
        /\ answer' = answer /\ shown' = shown
    BY ONLY <1>0, <1>7, TurnShape DEF CommitSurface, Sending, Waits, Turn, Turned, browserVars,
       runtimeVars
  <2>2. /\ native'.job = native.job /\ native'.unit = native.unit /\ native'.frame = native.frame
        /\ native'.phase \in {"capture"}
    BY <1>0, <1>7, GotoShape DEF CommitSurface, NativeShape, Phases
  <2>3. Unit' = Unit /\ Mode' = Mode
    BY ONLY <2>2 DEF Unit, Units, Mode
  <2>4. answer = None
    BY ONLY <1>0, <2>1 DEF Waits, Sending
  <2> QED
    BY ONLY <1>0, <2>1, <2>2, <2>3, <2>4 DEF Showing, Answered, Near
<1>8. CASE Capture
  <2>1. /\ previous' = previous /\ native.phase \in {"capture"}
        /\ answer' = answer /\ shown' = shown
    BY ONLY <1>0, <1>8, TurnShape DEF Capture, Sending, Waits, Turn, Turned, browserVars,
       runtimeVars
  <2>2. /\ native'.job = native.job /\ native'.unit = native.unit /\ native'.frame = native.frame
        /\ native'.phase \in {"confirm", "retry"}
    BY <1>0, <1>8, GotoShape DEF Capture, NativeShape, Phases
  <2>3. Unit' = Unit /\ Mode' = Mode
    BY ONLY <2>2 DEF Unit, Units, Mode
  <2>4. answer = None
    BY ONLY <1>0, <2>1 DEF Waits, Sending
  <2> QED
    BY ONLY <1>0, <2>1, <2>2, <2>3, <2>4 DEF Showing, Answered, Near
<1>9. CASE RetryCapture
  <2>1. /\ previous' = previous /\ native.phase \in {"retry"}
        /\ answer' = answer /\ shown' = shown
    BY ONLY <1>0, <1>9, TurnShape DEF RetryCapture, Sending, Waits, Turn, Turned, browserVars,
       runtimeVars
  <2>2. /\ native'.job = native.job /\ native'.unit = native.unit /\ native'.frame = native.frame
        /\ native'.phase \in {"confirm", "dispose"}
    <3>1. native \in NativeType /\ native.phase \notin {"navigate", "dispose"}
      BY ONLY <1>0, <2>1 DEF NativeShape
    <3>2. CASE Goto("confirm")
      BY <3>1, <3>2, GotoShape DEF Phases, NativeType
    <3>3. CASE Error
      BY <3>1, <3>3, ErrorShape
    <3> QED
      BY ONLY <1>9, <3>2, <3>3 DEF RetryCapture
  <2>3. Unit' = Unit /\ Mode' = Mode
    BY ONLY <2>2 DEF Unit, Units, Mode
  <2>4. answer = None
    BY ONLY <1>0, <2>1 DEF Waits, Sending
  <2> QED
    BY ONLY <1>0, <2>1, <2>2, <2>3, <2>4 DEF Showing, Answered, Near
<1>10. CASE Recapture
  <2>1. /\ previous' = previous /\ native.phase \in {"recapture"}
        /\ answer' = answer /\ shown' = shown
    BY ONLY <1>0, <1>10, TurnShape DEF Recapture, Sending, Waits, Turn, Turned, browserVars,
       runtimeVars
  <2>2. /\ native'.job = native.job /\ native'.unit = native.unit /\ native'.frame = native.frame
        /\ native'.phase \in {"write", "dispose"}
    <3>1. native \in NativeType /\ native.phase \notin {"navigate", "dispose"}
      BY ONLY <1>0, <2>1 DEF NativeShape
    <3>2. CASE Goto("write")
      BY <3>1, <3>2, GotoShape DEF Phases, NativeType
    <3>3. CASE Error
      BY <3>1, <3>3, ErrorShape
    <3> QED
      BY ONLY <1>10, <3>2, <3>3 DEF Recapture
  <2>3. Unit' = Unit /\ Mode' = Mode
    BY ONLY <2>2 DEF Unit, Units, Mode
  <2>4. answer = None
    BY ONLY <1>0, <2>1 DEF Waits, Sending
  <2>5. shown = native.frame => Near(native.frame)
    BY <1>0, <2>1, NearItself DEF ScreenType, Capturing
  <2> QED
    BY ONLY <1>0, <2>1, <2>2, <2>3, <2>4, <2>5 DEF Showing, Answered, Near
<1>11. CASE TakeScreenshot
  <2>0. CASE native.phase = "capture"
    <3>1. /\ previous' = previous /\ native.phase \in {"capture"}
          /\ answer' = answer /\ shown' = shown
      BY ONLY <1>0, <1>11, <2>0, TurnShape
         DEF TakeScreenshot, Sending, Waits, Turn, Turned, browserVars, runtimeVars
    <3>2. /\ native'.job = native.job /\ native'.unit = native.unit /\ native'.frame = native.frame
          /\ native'.phase \in {"confirm"}
      BY <1>0, <1>11, <2>0, GotoShape DEF TakeScreenshot, NativeShape, Phases
    <3>3. Unit' = Unit /\ Mode' = Mode
      BY ONLY <3>2 DEF Unit, Units, Mode
    <3>4. answer = None
      BY ONLY <1>0, <3>1 DEF Waits, Sending
    <3> QED
      BY ONLY <1>0, <3>1, <3>2, <3>3, <3>4 DEF Showing, Answered, Near
  <2>10. CASE native.phase = "recapture"
    <3>1. /\ previous' = previous /\ native.phase \in {"recapture"}
          /\ answer' = answer /\ shown' = shown
      BY ONLY <1>0, <1>11, <2>10, TurnShape
         DEF TakeScreenshot, Sending, Waits, Turn, Turned, browserVars, runtimeVars
    <3>2. /\ native'.job = native.job /\ native'.unit = native.unit /\ native'.frame = native.frame
          /\ native'.phase \in {"write"}
      BY <1>0, <1>11, <2>10, GotoShape DEF TakeScreenshot, NativeShape, Phases
    <3>3. Unit' = Unit /\ Mode' = Mode
      BY ONLY <3>2 DEF Unit, Units, Mode
    <3>4. answer = None
      BY ONLY <1>0, <3>1 DEF Waits, Sending
    <3>5. shown = native.frame => Near(native.frame)
      BY <1>0, <3>1, NearItself DEF ScreenType, Capturing
    <3> QED
      BY ONLY <1>0, <3>1, <3>2, <3>3, <3>4, <3>5 DEF Showing, Answered, Near
  <2> QED
    BY <1>11, <2>0, <2>10 DEF TakeScreenshot
<1>12. CASE Write
  <2>1. /\ native.phase = "write" /\ native.frame \in Int /\ answer' = answer /\ shown' = shown
    BY <1>0, <1>12, UnitFacts DEF Write, browserVars
  <2>2. /\ native'.job = native.job /\ native'.unit = native.unit
        /\ native'.frame - 1 = native.frame /\ native'.phase = "frame"
    <3>1. native \in NativeType
      BY ONLY <1>0 DEF NativeShape
    <3>2. native' = [native EXCEPT !.phase = "frame", !.frame = native.frame + 1]
      BY <1>12 DEF Write
    <3>3. native'.frame = native.frame + 1
      BY <3>1, <3>2 DEF NativeType
    <3> QED
      BY ONLY <2>1, <3>1, <3>2, <3>3 DEF NativeType
  <2>3. Unit' = Unit
    BY ONLY <2>2 DEF Unit, Units
  <2> QED
    BY ONLY <1>0, <2>1, <2>2, <2>3 DEF Showing, Near
<1>13. CASE StepFails
  <2>1. native'.phase \in {"dispose", "shutdown"}
    BY <1>0, <1>13, ErrorShape DEF StepFails, NativeShape
  <2> QED
    BY ONLY <2>1 DEF Showing
<1>14. CASE Shutdown
  <2>1. native'.phase \in {"done", "failed"}
    BY <1>0, <1>14, GotoShape DEF Shutdown, NativeShape, Phases
  <2> QED
    BY ONLY <2>1 DEF Showing
<1>15. CASE PageStep
  <2>1. native' = native
    BY <1>15 DEF PageStep
  <2>2. Unit' = Unit
    BY <2>1 DEF Unit, Units
  <2>3. CASE native.failed
    <3>1. native.phase \in {"dispose", "shutdown", "failed"}
      BY ONLY <1>0, <2>3 DEF NativeShape
    <3> QED
      BY ONLY <2>1, <3>1 DEF Showing
  <2>4. CASE ~native.failed
    <3>1. /\ previous' = previous
          /\ native.phase \notin {"load", "prepare", "seek", "dispose"} => visible' = visible
      BY <1>0, <1>15, <2>4, AwaitedPageStep
    <3>2. CASE Works /\ answer' = answer /\ UNCHANGED <<shown, age>>
      BY ONLY <1>0, <2>1, <2>2, <3>1, <3>2 DEF Showing, Answered, Near
    <3>3. CASE /\ answer = None /\ answer' = reply' /\ answer' # None
               /\ native.phase \in Sending
               /\ IF reply'.event = "frameStaged"
                  THEN native.phase = "seek" /\ shown' = native.frame
                  ELSE shown' = shown
      <4>1. native.phase = "confirm" => visible = Layers(Unit, native.frame)
        BY <1>0, <3>3, StagedVisible DEF PageAt
      <4> QED
        BY ONLY <1>0, <2>1, <2>2, <3>1, <3>3, <4>1 DEF Showing, Answered, Sending
    <3> QED
      BY <1>0, <1>15, <2>4, <3>2, <3>3, AwaitedPageStep
  <2> QED
    BY <2>3, <2>4
<1>16. ASSUME NEW v \in Videos, FreeTurn(v)
       PROVE  Showing'
  <2>1. /\ native' = native /\ previous' = previous /\ answer' = answer /\ shown' = shown
        /\ visible' = visible
    BY <1>16 DEF FreeTurn, Present, nativeVars, browserVars, runtimeVars
  <2> QED
    BY ONLY <1>0, <2>1 DEF Showing, Answered, Near, Unit, Units
<1>17. CASE UNCHANGED vars
  <2>1. /\ native' = native /\ previous' = previous /\ answer' = answer /\ shown' = shown
        /\ visible' = visible
    BY <1>17 DEF vars, Present, nativeVars, browserVars, runtimeVars
  <2> QED
    BY ONLY <1>0, <2>1 DEF Showing, Answered, Near, Unit, Units
<1> QED
  BY <1>1, <1>2, <1>3, <1>4, <1>5, <1>6, <1>7, <1>8, <1>9, <1>10,
     <1>11, <1>12, <1>13, <1>14, <1>15, <1>16, <1>17
     DEF CaptureNext, NativeStep, Stop

(* A picture is accepted only after the turns its layers need.             *)
LEMMA SettlesStep ==
    ASSUME RInv, NativeShape, Waits, Begins, ScreenType, Showing, Settles, [CaptureNext]_vars
    PROVE  Settles'
<1>0. RInv /\ NativeShape /\ Waits /\ Begins /\ ScreenType /\ Showing /\ Settles
  OBVIOUS
<1>1. CASE Navigate
  <2>1. native'.phase \in {"load", "shutdown"}
    <3>1. (Goto("load") \/ Error) /\ native.phase = "navigate"
      BY ONLY <1>1 DEF Navigate
    <3>2. Error => native'.phase \in {"dispose", "shutdown"} /\ native'.phase # "dispose"
      BY ONLY <1>0, <3>1 DEF NativeShape, NativeType, Error
    <3> QED
      BY <1>0, <3>1, <3>2, GotoShape DEF NativeShape, Phases
  <2> QED
    BY ONLY <2>1 DEF Settles
<1>2. CASE Send
  <2>1. /\ native' = native /\ previous' = previous /\ age' = age
    BY <1>2 DEF Send, Present, nativeVars, browserVars, runtimeVars
  <2> QED
    BY ONLY <1>0, <2>1 DEF Settles, Stable, Placement, Unit, Units, Mode
<1>3. CASE Receive
  <2>1. /\ answer # None /\ age' = age /\ native.phase \in Sending /\ previous' = previous
    BY ONLY <1>0, <1>3 DEF Receive, runtimeVars, browserVars, Waits
  <2>2. CASE Error
    <3>1. native'.phase \in {"dispose", "shutdown"}
      BY <1>0, <2>2, ErrorShape DEF NativeShape
    <3> QED
      BY ONLY <3>1 DEF Settles
  <2>3. CASE answer.event = Accepted /\ native' = Successor
    <3>1. native'.job = native.job
      BY <1>0, <2>1, <2>3, Successors
    <3>2. CASE native.phase \notin {"seek", "confirm"}
      <4>1. native'.phase \in {"prepare", "initialize", "dispose", "navigate", "shutdown"}
        BY <1>0, <2>1, <2>3, <3>2, Successors
      <4> QED
        BY ONLY <4>1 DEF Settles
    <3>3. CASE native.phase \in {"seek", "confirm"}
      <4>1. native'.unit = native.unit /\ native'.frame = native.frame
        BY <1>0, <2>1, <2>3, <3>3, Successors
      <4>2. Unit' = Unit /\ Mode' = Mode
        BY ONLY <3>1, <4>1 DEF Unit, Units, Mode
      <4>3. CASE native.phase = "seek"
        <5>1. /\ native'.phase \in {"capture", "commit"}
              /\ native'.phase = "capture" => Stable \/ Mode = "screenshot"
          BY <1>0, <2>1, <2>3, <4>3, Successors
        <5>2. Stable' <=> Stable
          BY ONLY <2>1, <4>1, <4>2 DEF Stable, Placement
        <5> QED
          BY ONLY <1>0, <2>1, <4>1, <4>2, <4>3, <5>1, <5>2 DEF Settles
      <4>4. CASE native.phase = "confirm"
        <5>1. native'.phase \in {"write", "recapture"}
          BY <1>0, <2>1, <2>3, <4>4, Successors
        <5> QED
          BY ONLY <1>0, <2>1, <4>1, <4>2, <4>4, <5>1 DEF Settles
      <4> QED
        BY <3>3, <4>3, <4>4
    <3> QED
      BY <3>2, <3>3
  <2> QED
    BY <1>3, <2>2, <2>3 DEF Receive
<1>4. CASE GiveUp
  <2>1. native'.phase \in {"dispose", "shutdown"}
    BY <1>0, <1>4, ErrorShape DEF GiveUp, NativeShape
  <2> QED
    BY ONLY <2>1 DEF Settles
<1>5. CASE InitializeSurface
  <2>1. /\ previous' = previous /\ native.phase \in {"initialize"}
        /\ answer' = answer /\ shown' = shown
    BY ONLY <1>0, <1>5, TurnShape DEF InitializeSurface, Sending, Waits, Turn, Turned, browserVars,
       runtimeVars
  <2>2. /\ native'.job = native.job /\ native'.unit = native.unit /\ native'.frame = native.frame
        /\ native'.phase \in {"frame"}
    BY <1>0, <1>5, GotoShape DEF InitializeSurface, NativeShape, Phases
  <2>3. Unit' = Unit /\ Mode' = Mode
    BY ONLY <2>2 DEF Unit, Units, Mode
  <2>4. answer = None
    BY ONLY <1>0, <2>1 DEF Waits, Sending
  <2>5. previous = None
    BY ONLY <1>0, <2>1 DEF Begins
  <2> QED
    BY ONLY <2>1, <2>2, <2>5 DEF Settles
<1>6. CASE ChooseFrame
  <2>1. /\ previous' = previous /\ native.phase \in {"frame"}
        /\ answer' = answer /\ shown' = shown
    BY ONLY <1>0, <1>6, TurnShape DEF ChooseFrame, Sending, Waits, Turn, Turned, browserVars,
       runtimeVars
  <2>2. /\ native'.job = native.job /\ native'.unit = native.unit /\ native'.frame = native.frame
        /\ native'.phase \in {"write", "seek", "dispose"}
    BY <1>0, <1>6, GotoShape DEF ChooseFrame, NativeShape, Phases
  <2>3. Unit' = Unit /\ Mode' = Mode
    BY ONLY <2>2 DEF Unit, Units, Mode
  <2>4. answer = None
    BY ONLY <1>0, <2>1 DEF Waits, Sending
  <2>5. native'.phase = "write" => previous # None
    <3>1. Goto(IF native.frame = Unit.to THEN "dispose" ELSE IF Reuses THEN "write" ELSE "seek")
      BY ONLY <1>6 DEF ChooseFrame
    <3> QED
      BY <1>0, <3>1, GotoShape DEF NativeShape, Phases, Reuses
  <2>6. age' = age
    BY ONLY <1>6 DEF ChooseFrame, browserVars
  <2>7. Stable' <=> Stable
    BY ONLY <2>1, <2>2, <2>3 DEF Stable, Placement
  <2>8. Stable => previous # None
    BY DEF Stable
  <2> QED
    BY ONLY <1>0, <2>1, <2>2, <2>3, <2>5, <2>6, <2>7, <2>8 DEF Settles
<1>7. CASE CommitSurface
  <2>1. /\ previous' = previous /\ native.phase \in {"commit"}
        /\ answer' = answer /\ shown' = shown
    BY ONLY <1>0, <1>7, TurnShape DEF CommitSurface, Sending, Waits, Turn, Turned, browserVars,
       runtimeVars
  <2>2. /\ native'.job = native.job /\ native'.unit = native.unit /\ native'.frame = native.frame
        /\ native'.phase \in {"capture"}
    BY <1>0, <1>7, GotoShape DEF CommitSurface, NativeShape, Phases
  <2>3. Unit' = Unit /\ Mode' = Mode
    BY ONLY <2>2 DEF Unit, Units, Mode
  <2>4. answer = None
    BY ONLY <1>0, <2>1 DEF Waits, Sending
  <2>5. Stable' <=> Stable
    BY ONLY <2>1, <2>2, <2>3 DEF Stable, Placement
  <2>6. age' \in 1 .. 2 /\ (age # 0 => age' = 2)
    BY <1>0, <1>7, TurnType DEF CommitSurface, RInv, LInv
  <2>7. ~Stable
    BY ONLY <1>0, <2>1 DEF NativeShape
  <2> QED
    BY ONLY <2>1, <2>2, <2>3, <2>5, <2>6, <2>7 DEF Settles
<1>8. CASE Capture
  <2>1. /\ previous' = previous /\ native.phase \in {"capture"}
        /\ answer' = answer /\ shown' = shown
    BY ONLY <1>0, <1>8, TurnShape DEF Capture, Sending, Waits, Turn, Turned, browserVars,
       runtimeVars
  <2>2. /\ native'.job = native.job /\ native'.unit = native.unit /\ native'.frame = native.frame
        /\ native'.phase \in {"confirm", "retry"}
    BY <1>0, <1>8, GotoShape DEF Capture, NativeShape, Phases
  <2>3. Unit' = Unit /\ Mode' = Mode
    BY ONLY <2>2 DEF Unit, Units, Mode
  <2>4. answer = None
    BY ONLY <1>0, <2>1 DEF Waits, Sending
  <2>5. Stable' <=> Stable
    BY ONLY <2>1, <2>2, <2>3 DEF Stable, Placement
  <2>6. age' \in 1 .. 2 /\ (age # 0 => age' = 2)
    BY <1>0, <1>8, TurnType DEF Capture, RInv, LInv
  <2> QED
    BY ONLY <1>0, <2>1, <2>2, <2>3, <2>5, <2>6, <1>8 DEF Settles, Capture
<1>9. CASE RetryCapture
  <2>1. /\ previous' = previous /\ native.phase \in {"retry"}
        /\ answer' = answer /\ shown' = shown
    BY ONLY <1>0, <1>9, TurnShape DEF RetryCapture, Sending, Waits, Turn, Turned, browserVars,
       runtimeVars
  <2>2. /\ native'.job = native.job /\ native'.unit = native.unit /\ native'.frame = native.frame
        /\ native'.phase \in {"confirm", "dispose"}
    <3>1. native \in NativeType /\ native.phase \notin {"navigate", "dispose"}
      BY ONLY <1>0, <2>1 DEF NativeShape
    <3>2. CASE Goto("confirm")
      BY <3>1, <3>2, GotoShape DEF Phases, NativeType
    <3>3. CASE Error
      BY <3>1, <3>3, ErrorShape
    <3> QED
      BY ONLY <1>9, <3>2, <3>3 DEF RetryCapture
  <2>3. Unit' = Unit /\ Mode' = Mode
    BY ONLY <2>2 DEF Unit, Units, Mode
  <2>4. answer = None
    BY ONLY <1>0, <2>1 DEF Waits, Sending
  <2>5. Stable' <=> Stable
    BY ONLY <2>1, <2>2, <2>3 DEF Stable, Placement
  <2>6. age' \in 1 .. 2 /\ (age # 0 => age' = 2)
    BY <1>0, <1>9, TurnType DEF RetryCapture, RInv, LInv
  <2>7. Mode' = "beginFrame" => age = 2
    BY ONLY <1>0, <2>1, <2>3 DEF Settles
  <2> QED
    BY ONLY <2>1, <2>2, <2>3, <2>5, <2>6, <2>7 DEF Settles
<1>10. CASE Recapture
  <2>1. /\ previous' = previous /\ native.phase \in {"recapture"}
        /\ answer' = answer /\ shown' = shown
    BY ONLY <1>0, <1>10, TurnShape DEF Recapture, Sending, Waits, Turn, Turned, browserVars,
       runtimeVars
  <2>2. /\ native'.job = native.job /\ native'.unit = native.unit /\ native'.frame = native.frame
        /\ native'.phase \in {"write", "dispose"}
    <3>1. native \in NativeType /\ native.phase \notin {"navigate", "dispose"}
      BY ONLY <1>0, <2>1 DEF NativeShape
    <3>2. CASE Goto("write")
      BY <3>1, <3>2, GotoShape DEF Phases, NativeType
    <3>3. CASE Error
      BY <3>1, <3>3, ErrorShape
    <3> QED
      BY ONLY <1>10, <3>2, <3>3 DEF Recapture
  <2>3. Unit' = Unit /\ Mode' = Mode
    BY ONLY <2>2 DEF Unit, Units, Mode
  <2>4. answer = None
    BY ONLY <1>0, <2>1 DEF Waits, Sending
  <2>5. Stable' <=> Stable
    BY ONLY <2>1, <2>2, <2>3 DEF Stable, Placement
  <2>6. age' \in 1 .. 2 /\ (age # 0 => age' = 2)
    BY <1>0, <1>10, TurnType DEF Recapture, RInv, LInv
  <2>7. Mode' = "beginFrame" => age = 2
    BY ONLY <1>0, <2>1, <2>3 DEF Settles
  <2> QED
    BY ONLY <2>1, <2>2, <2>3, <2>5, <2>6, <2>7 DEF Settles
<1>11. CASE TakeScreenshot
  <2>1. Mode = "screenshot" /\ native'.job = native.job
    <3>1. PICK p \in {"confirm", "write"} : Goto(p)
      BY <1>11 DEF TakeScreenshot
    <3> QED
      BY <1>0, <1>11, <3>1, GotoShape DEF TakeScreenshot, NativeShape, Phases
  <2>2. Mode' = Mode
    BY ONLY <2>1 DEF Mode
  <2> QED
    BY ONLY <2>1, <2>2 DEF Settles
<1>12. CASE Write
  <2>1. native.phase = "write" /\ native'.phase = "frame" /\ native'.job = native.job /\ age' = age
    BY <1>0, <1>12 DEF Write, browserVars, NativeShape, NativeType
  <2>2. Mode' = Mode
    BY ONLY <2>1 DEF Mode
  <2> QED
    BY ONLY <1>0, <2>1, <2>2 DEF Settles
<1>13. CASE StepFails
  <2>1. native'.phase \in {"dispose", "shutdown"}
    BY <1>0, <1>13, ErrorShape DEF StepFails, NativeShape
  <2> QED
    BY ONLY <2>1 DEF Settles
<1>14. CASE Shutdown
  <2>1. native'.phase \in {"done", "failed"}
    BY <1>0, <1>14, GotoShape DEF Shutdown, NativeShape, Phases
  <2> QED
    BY ONLY <2>1 DEF Settles
<1>15. CASE PageStep
  <2>1. native' = native /\ previous' = previous
    BY <1>15 DEF PageStep
  <2>2. Mode' = Mode /\ (Stable' <=> Stable)
    BY <2>1 DEF Mode, Stable, Placement, Unit, Units
  <2>3. CASE native.failed
    <3>1. native.phase \in {"dispose", "shutdown", "failed"}
      BY ONLY <1>0, <2>3 DEF NativeShape
    <3> QED
      BY ONLY <2>1, <3>1 DEF Settles
  <2>4. CASE ~native.failed
    <3>1. CASE age' = age
      BY ONLY <1>0, <2>1, <2>2, <3>1 DEF Settles
    <3>2. CASE /\ answer = None /\ native.phase = "seek"
               /\ age' = IF shown = None \/ Segment(shown) # Segment(native.frame) THEN 0 ELSE age
      <4>1. CASE Stable
        <5>1. Near(native.frame - 1) /\ ~Placement
          BY ONLY <1>0, <3>2, <4>1 DEF Showing, Stable
        <5>2. Segment(shown) = Segment(native.frame) /\ shown # None
          BY <1>0, <5>1, SegmentKept DEF ScreenType, Near
        <5>3. age' = age
          BY ONLY <3>2, <5>2
        <5> QED
          BY ONLY <1>0, <2>1, <2>2, <5>3 DEF Settles
      <4>2. CASE ~Stable
        BY ONLY <2>1, <2>2, <3>2, <4>2 DEF Settles
      <4> QED
        BY <4>1, <4>2
    <3> QED
      BY <1>0, <1>15, <2>4, <3>1, <3>2, AwaitedPageStep
  <2> QED
    BY <2>3, <2>4
<1>16. ASSUME NEW v \in Videos, FreeTurn(v)
       PROVE  Settles'
  <2>1. /\ native' = native /\ previous' = previous /\ age' = age
    BY <1>16 DEF FreeTurn, Present, nativeVars, browserVars, runtimeVars
  <2> QED
    BY ONLY <1>0, <2>1 DEF Settles, Stable, Placement, Unit, Units, Mode
<1>17. CASE UNCHANGED vars
  <2>1. /\ native' = native /\ previous' = previous /\ age' = age
    BY <1>17 DEF vars, Present, nativeVars, browserVars, runtimeVars
  <2> QED
    BY ONLY <1>0, <2>1 DEF Settles, Stable, Placement, Unit, Units, Mode
<1> QED
  BY <1>1, <1>2, <1>3, <1>4, <1>5, <1>6, <1>7, <1>8, <1>9, <1>10,
     <1>11, <1>12, <1>13, <1>14, <1>15, <1>16, <1>17
     DEF CaptureNext, NativeStep, Stop

(* Nothing that plays is captured by an uncontrolled screenshot. *)
ScreenshotsDecodeNothing ==
    \A job \in Jobs : job.mode = "screenshot" =>
        \A u \in DOMAIN job.units : job.units[u].plan.media # "decoded"

(* The screen shows every layer of a frame at its source frame.            *)
OnScreen(f) == \A v \in Layers(Unit, f) : onscreen[v] = MediaTime[v][f]

(* What the pictures at hand show. *)
Pictures ==
    /\ native.phase \in Capturing /\ previous # None => previous = Shows(Unit, native.frame - 1)
    /\ native.phase = "confirm" /\ Stable /\ (answer = None \/ Answered("frameReady")) =>
          shot = Current
    /\ native.phase = "recapture" \/ (native.phase = "confirm" /\ Answered("frameReady")) =>
          OnScreen(native.frame)
    /\ native.phase = "write" => shot = Shows(Unit, native.frame)

(* A picture of a frame's layers, each at its source frame, is the film's. *)
LEMMA LayersShow ==
    ASSUME NEW unit, NEW f, NEW vis, NEW on, vis = Layers(unit, f),
           \A v \in Layers(unit, f) : on[v] = MediaTime[v][f]
    PROVE  [dom |-> unit.look[f], media |-> [v \in Videos |-> IF v \in vis THEN on[v] ELSE None]]
              = Shows(unit, f)
<1>1. [v \in Videos |-> IF v \in vis THEN on[v] ELSE None] =
          [v \in Videos |-> IF unit.plan.media = "decoded" THEN MediaTime[v][f] ELSE None]
  BY DEF Layers
<1> QED
  BY ONLY <1>1 DEF Shows

(* A current picture of the frame at work is the picture of the film.      *)
LEMMA CurrentShows ==
    ASSUME shown = native.frame, native.frame # None, visible = Layers(Unit, native.frame),
           OnScreen(native.frame)
    PROVE  Current = Shows(Unit, native.frame)
<1>1. Dom = Unit.look[native.frame]
  BY DEF Dom
<1> QED
  BY <1>1, LayersShow DEF Current, OnScreen

(* Between two frames nothing separates, the film shows the same. *)
LEMMA Unseparated ==
    ASSUME NativeShape, native.frame > Unit.from, native.frame < Unit.to,
           Unit.cadence = "placementBounded", ~Placement
    PROVE  Shows(Unit, native.frame) = Shows(Unit, native.frame - 1)
<1>1. /\ native.frame \in Unit.from + 1 .. Unit.to - 1 /\ Unit = native.job.units[native.unit]
      /\ native.job \in Jobs /\ native.unit \in DOMAIN native.job.units
  BY UnitFacts
<1>2. Separates(Unit, native.frame)
  BY <1>1, JobFacts
<1> QED
  BY <1>2 DEF Separates, Placement

(* Between commands nothing is left to be presented.                       *)
LEMMA NothingPending ==
    ASSUME RInv, session.kind = "ready", command = None
    PROVE  \A v \in Videos : video[v].pending = None /\ work[v] = "idle"
BY DEF RInv, LInv, Serving, OInv, Observing, Working, Seeking

(* What is captured by screenshot shows no media.                          *)
LEMMA Screenshots ==
    ASSUME ScreenshotsDecodeNothing, NativeShape, Mode = "screenshot", NEW f
    PROVE  Layers(Unit, f) = {}
BY UnitFacts, JobFacts DEF ScreenshotsDecodeNothing, Layers, Mode

(* What the native side holds as the picture of a frame is what the film   *)
(* shows at it.                                                            *)
LEMMA PicturesStep ==
    ASSUME ScreenshotsDecodeNothing, RInv, NativeShape, Waits, PageAt, Begins, ScreenType,
           Showing, Settles, Pictures, [CaptureNext]_vars
    PROVE  Pictures'
<1>0. ScreenshotsDecodeNothing /\ RInv /\ NativeShape /\ Waits /\ PageAt /\ Begins /\ ScreenType
     /\ Showing /\ Settles /\ Pictures
  OBVIOUS
<1>00. RInv'
  BY RuntimeInvariantStep
<1>01. Presented'
  BY <1>00 DEF RInv, OInv
<1>1. CASE Navigate
  <2>1. native'.phase \in {"load", "shutdown"}
    <3>1. (Goto("load") \/ Error) /\ native.phase = "navigate"
      BY ONLY <1>1 DEF Navigate
    <3>2. Error => native'.phase \in {"dispose", "shutdown"} /\ native'.phase # "dispose"
      BY ONLY <1>0, <3>1 DEF NativeShape, NativeType, Error
    <3> QED
      BY <1>0, <3>1, <3>2, GotoShape DEF NativeShape, Phases
  <2> QED
    BY ONLY <2>1 DEF Pictures, Capturing
<1>2. CASE Send
  <2>1. /\ native.phase \in Sending /\ native' = native /\ awaiting = None /\ shown' = shown
        /\ previous' = previous /\ shot' = shot /\ Dispatch(Request)
        /\ answer' = IF command = None /\ command' # None THEN None ELSE reply'
    BY <1>2 DEF Send, Sending, browserVars
  <2>2. Request \in Commands /\ Request.type = native.phase /\ Request # None
    BY <1>0, <2>1, Requests
  <2>20. onscreen' = onscreen
    BY <2>1, <2>2, DispatchShowsNothing
  <2>3. Began(Request) \/ Refused(Request) \/ DisposedBefore(Request)
    BY <1>0, <2>1, <2>2, DispatchShape DEF RInv, LInv
  <2>4. answer = None
    BY ONLY <1>0, <2>1 DEF Waits
  <2>5. Unit' = Unit /\ (Stable' <=> Stable)
    BY ONLY <2>1 DEF Unit, Units, Stable, Placement
  <2>6. answer' = None \/ answer'.event \in {"invalidRequest", "seekFailed", "confirmFailed", "disposed"}
    BY ONLY <2>1, <2>2, <2>3 DEF Began, Refused, DisposedBefore
  <2>7. native.phase = "confirm" => Current' = Current
    <3>1. native.phase = "confirm" => visible' = visible
      BY ONLY <2>1, <2>2 DEF Dispatch, Reject, BeginLoad, BeginPrepare, BeginSeek, BeginConfirm,
                             BeginDispose, Refuse
    <3> QED
      BY ONLY <2>1, <2>20, <2>5, <3>1 DEF Current, Dom
  <2> QED
    BY ONLY <1>0, <2>1, <2>20, <2>4, <2>5, <2>6, <2>7 DEF Pictures, Answered, Sending, Capturing
<1>3. CASE Receive
  <2>1. /\ awaiting # None /\ answer # None /\ answer' = None /\ shown' = shown
        /\ visible' = visible /\ previous' = previous /\ native.phase \in Sending
        /\ shot' = shot /\ onscreen' = onscreen
    BY ONLY <1>0, <1>3 DEF Receive, runtimeVars, browserVars, Waits
  <2>2. CASE Error
    <3>1. native'.phase \in {"dispose", "shutdown"}
      BY <1>0, <2>2, ErrorShape DEF NativeShape
    <3> QED
      BY ONLY <3>1 DEF Pictures, Capturing
  <2>3. CASE answer.event = Accepted /\ native' = Successor
    <3>1. native'.job = native.job
      BY <1>0, <2>1, <2>3, Successors
    <3>2. CASE native.phase \notin {"seek", "confirm"}
      <4>1. /\ native'.phase \in {"prepare", "initialize", "dispose", "navigate", "shutdown"}
            /\ native'.phase = "initialize" => native.phase = "prepare"
        BY <1>0, <2>1, <2>3, <3>2, Successors
      <4>2. native'.phase = "initialize" => previous' = None
        BY ONLY <1>0, <2>1, <4>1 DEF Begins
      <4> QED
        BY ONLY <4>1, <4>2 DEF Pictures, Capturing
    <3>3. CASE native.phase \in {"seek", "confirm"}
      <4>1. native'.unit = native.unit /\ native'.frame = native.frame
        BY <1>0, <2>1, <2>3, <3>3, Successors
      <4>2. Unit' = Unit
        BY ONLY <3>1, <4>1 DEF Unit, Units
      <4>3. CASE native.phase = "seek"
        <5>1. native'.phase \in {"capture", "commit"}
          BY <1>0, <2>1, <2>3, <4>3, Successors
        <5> QED
          BY ONLY <1>0, <2>1, <4>1, <4>2, <4>3, <5>1 DEF Pictures, Capturing
      <4>4. CASE native.phase = "confirm"
        <5>1. /\ Answered("frameReady") /\ native'.phase \in {"write", "recapture"}
              /\ native'.phase = "write" => Stable
          BY <1>0, <2>1, <2>3, <4>4, Successors DEF Answered, Accepted
        <5>2. shown = native.frame /\ visible = Layers(Unit, native.frame) /\ OnScreen(native.frame)
          BY ONLY <1>0, <4>4, <5>1 DEF Showing, Pictures
        <5>3. Current = Shows(Unit, native.frame)
          BY <1>0, <4>4, <5>2, CurrentShows, FrameFacts, ConstantsAssumption
             DEF NativeShape, Capturing
        <5> QED
          BY ONLY <1>0, <2>1, <4>1, <4>2, <4>4, <5>1, <5>2, <5>3
             DEF Pictures, Capturing, OnScreen, Answered
      <4> QED
        BY <3>3, <4>3, <4>4
    <3> QED
      BY <3>2, <3>3
  <2> QED
    BY <1>3, <2>2, <2>3 DEF Receive
<1>4. CASE GiveUp
  <2>1. native'.phase \in {"dispose", "shutdown"}
    BY <1>0, <1>4, ErrorShape DEF GiveUp, NativeShape
  <2> QED
    BY ONLY <2>1 DEF Pictures, Capturing
<1>5. CASE InitializeSurface
  <2>1. /\ previous' = previous /\ native.phase \in {"initialize"}
        /\ answer' = answer /\ shown' = shown
    BY ONLY <1>0, <1>5, TurnShape DEF InitializeSurface, Sending, Waits, Turn, Turned, browserVars,
       runtimeVars
  <2>2. /\ native'.job = native.job /\ native'.unit = native.unit /\ native'.frame = native.frame
        /\ native'.phase \in {"frame"}
    BY <1>0, <1>5, GotoShape DEF InitializeSurface, NativeShape, Phases
  <2>3. Unit' = Unit /\ Mode' = Mode
    BY ONLY <2>2 DEF Unit, Units, Mode
  <2>4. answer = None
    BY ONLY <1>0, <2>1 DEF Waits, Sending
  <2>5. previous = None
    BY ONLY <1>0, <2>1 DEF Begins
  <2> QED
    BY ONLY <2>1, <2>2, <2>5 DEF Pictures
<1>6. CASE ChooseFrame
  <2>1. /\ previous' = previous /\ native.phase \in {"frame"}
        /\ answer' = answer /\ shown' = shown
    BY ONLY <1>0, <1>6, TurnShape DEF ChooseFrame, Sending, Waits, Turn, Turned, browserVars,
       runtimeVars
  <2>2. /\ native'.job = native.job /\ native'.unit = native.unit /\ native'.frame = native.frame
        /\ native'.phase \in {"write", "seek", "dispose"}
    BY <1>0, <1>6, GotoShape DEF ChooseFrame, NativeShape, Phases
  <2>3. Unit' = Unit /\ Mode' = Mode
    BY ONLY <2>2 DEF Unit, Units, Mode
  <2>4. answer = None
    BY ONLY <1>0, <2>1 DEF Waits, Sending
  <2>5. Goto(IF native.frame = Unit.to THEN "dispose" ELSE IF Reuses THEN "write" ELSE "seek")
    BY ONLY <1>6 DEF ChooseFrame
  <2>6. CASE native'.phase = "write"
    <3>1. Reuses /\ native.frame # Unit.to
      BY <1>0, <2>5, <2>6, GotoShape DEF NativeShape, Phases
    <3>2. shot' = previous /\ previous # None /\ ~Placement /\ Unit.cadence = "placementBounded"
      BY ONLY <1>6, <3>1 DEF ChooseFrame, Reuses
    <3>3. native.frame > Unit.from
      BY ONLY <1>0, <2>1, <3>2 DEF Begins, Capturing
    <3>4. native.frame < Unit.to
      BY <1>0, <3>1, UnitFacts DEF NativeShape
    <3>5. Shows(Unit, native.frame) = Shows(Unit, native.frame - 1)
      BY <1>0, <3>2, <3>3, <3>4, Unseparated
    <3>6. previous = Shows(Unit, native.frame - 1)
      BY ONLY <1>0, <2>1, <3>2 DEF Pictures, Capturing
    <3> QED
      BY ONLY <2>1, <2>2, <2>3, <2>6, <3>2, <3>5, <3>6 DEF Pictures
  <2>7. CASE native'.phase # "write"
    BY ONLY <1>0, <2>1, <2>2, <2>3, <2>7 DEF Pictures, Capturing
  <2> QED
    BY <2>6, <2>7
<1>7. CASE CommitSurface
  <2>1. /\ previous' = previous /\ native.phase \in {"commit"}
        /\ answer' = answer /\ shown' = shown
    BY ONLY <1>0, <1>7, TurnShape DEF CommitSurface, Sending, Waits, Turn, Turned, browserVars,
       runtimeVars
  <2>2. /\ native'.job = native.job /\ native'.unit = native.unit /\ native'.frame = native.frame
        /\ native'.phase \in {"capture"}
    BY <1>0, <1>7, GotoShape DEF CommitSurface, NativeShape, Phases
  <2>3. Unit' = Unit /\ Mode' = Mode
    BY ONLY <2>2 DEF Unit, Units, Mode
  <2>4. answer = None
    BY ONLY <1>0, <2>1 DEF Waits, Sending
  <2> QED
    BY ONLY <1>0, <2>1, <2>2, <2>3 DEF Pictures, Capturing
<1>8. CASE Capture
  <2>1. /\ previous' = previous /\ native.phase \in {"capture"}
        /\ answer' = answer /\ shown' = shown
    BY ONLY <1>0, <1>8, TurnShape DEF Capture, Sending, Waits, Turn, Turned, browserVars,
       runtimeVars
  <2>2. /\ native'.job = native.job /\ native'.unit = native.unit /\ native'.frame = native.frame
        /\ native'.phase \in {"confirm", "retry"}
    BY <1>0, <1>8, GotoShape DEF Capture, NativeShape, Phases
  <2>3. Unit' = Unit /\ Mode' = Mode
    BY ONLY <2>2 DEF Unit, Units, Mode
  <2>4. answer = None
    BY ONLY <1>0, <2>1 DEF Waits, Sending
  <2>5. Stable' <=> Stable
    BY ONLY <2>1, <2>2, <2>3 DEF Stable, Placement
  <2>6. ASSUME Stable, native'.phase = "confirm" PROVE shot' = Current'
    <3>1. Mode = "beginFrame"
      BY <1>0, <2>1, <1>8, JobFacts DEF Capture, Mode, NativeShape, NativeType
    <3>2. age = 2
      BY ONLY <1>0, <2>1, <2>6, <3>1 DEF Settles
    <3>3. screen' = Current'
      BY <1>0, <2>3, <1>8, <3>2, TurnSettled DEF Capture
    <3>4. shot' = screen'
      <4>1. CASE Returned
        BY ONLY <4>1 DEF Returned
      <4>2. CASE /\ Omitted
                 /\ IF CaptureReason = "stable" /\ lastCapture # None
                    THEN shot' = lastCapture /\ Goto("confirm")
                    ELSE Goto("retry") /\ UNCHANGED shot
        <5>1. ~Goto("retry")
          BY <1>0, <2>6, GotoShape DEF NativeShape, Phases
        <5> QED
          BY ONLY <1>0, <4>2, <5>1 DEF Omitted, ScreenType
      <4> QED
        BY ONLY <1>8, <4>1, <4>2 DEF Capture
    <3> QED
      BY ONLY <3>3, <3>4
  <2> QED
    BY ONLY <1>0, <2>1, <2>2, <2>3, <2>4, <2>5, <2>6 DEF Pictures, Capturing, Answered
<1>9. CASE RetryCapture
  <2>1. /\ previous' = previous /\ native.phase \in {"retry"}
        /\ answer' = answer /\ shown' = shown
    BY ONLY <1>0, <1>9, TurnShape DEF RetryCapture, Sending, Waits, Turn, Turned, browserVars,
       runtimeVars
  <2>2. /\ native'.job = native.job /\ native'.unit = native.unit /\ native'.frame = native.frame
        /\ native'.phase \in {"confirm", "dispose"}
    <3>1. native \in NativeType /\ native.phase \notin {"navigate", "dispose"}
      BY ONLY <1>0, <2>1 DEF NativeShape
    <3>2. CASE Goto("confirm")
      BY <3>1, <3>2, GotoShape DEF Phases, NativeType
    <3>3. CASE Error
      BY <3>1, <3>3, ErrorShape
    <3> QED
      BY ONLY <1>9, <3>2, <3>3 DEF RetryCapture
  <2>3. Unit' = Unit /\ Mode' = Mode
    BY ONLY <2>2 DEF Unit, Units, Mode
  <2>4. answer = None
    BY ONLY <1>0, <2>1 DEF Waits, Sending
  <2>5. Stable' <=> Stable
    BY ONLY <2>1, <2>2, <2>3 DEF Stable, Placement
  <2>6. ASSUME Stable, native'.phase = "confirm" PROVE shot' = Current'
    <3>1. Mode = "beginFrame"
      BY <1>0, <2>1, <1>9, JobFacts DEF RetryCapture, Mode, NativeShape, NativeType
    <3>2. age = 2
      BY ONLY <1>0, <2>1, <2>6, <3>1 DEF Settles
    <3>3. screen' = Current'
      BY <1>0, <2>3, <1>9, <3>2, TurnSettled DEF RetryCapture
    <3>4. shot' = screen'
      <4>1. ~Error
        BY <1>0, <2>6, ErrorShape DEF NativeShape
      <4> QED
        BY ONLY <1>9, <4>1 DEF RetryCapture, Returned
    <3> QED
      BY ONLY <3>3, <3>4
  <2> QED
    BY ONLY <1>0, <2>1, <2>2, <2>3, <2>4, <2>5, <2>6 DEF Pictures, Capturing, Answered
<1>10. CASE Recapture
  <2>1. /\ previous' = previous /\ native.phase \in {"recapture"}
        /\ answer' = answer /\ shown' = shown
    BY ONLY <1>0, <1>10, TurnShape DEF Recapture, Sending, Waits, Turn, Turned, browserVars,
       runtimeVars
  <2>2. /\ native'.job = native.job /\ native'.unit = native.unit /\ native'.frame = native.frame
        /\ native'.phase \in {"write", "dispose"}
    <3>1. native \in NativeType /\ native.phase \notin {"navigate", "dispose"}
      BY ONLY <1>0, <2>1 DEF NativeShape
    <3>2. CASE Goto("write")
      BY <3>1, <3>2, GotoShape DEF Phases, NativeType
    <3>3. CASE Error
      BY <3>1, <3>3, ErrorShape
    <3> QED
      BY ONLY <1>10, <3>2, <3>3 DEF Recapture
  <2>3. Unit' = Unit /\ Mode' = Mode
    BY ONLY <2>2 DEF Unit, Units, Mode
  <2>4. answer = None
    BY ONLY <1>0, <2>1 DEF Waits, Sending
  <2>5. CASE native'.phase = "write"
    <3>1. Mode = "beginFrame" /\ Turn
      BY ONLY <1>10 DEF Recapture
    <3>2. age = 2
      BY ONLY <1>0, <2>1, <3>1 DEF Settles
    <3>3. screen' = Current'
      BY <1>0, <2>3, <3>1, <3>2, TurnSettled
    <3>4. shot' = screen'
      <4>1. ~Error
        BY <1>0, <2>5, ErrorShape DEF NativeShape
      <4> QED
        BY ONLY <1>0, <1>10, <4>1 DEF Recapture, Returned, Omitted, ScreenType
    <3>5. /\ shown = native.frame /\ visible = Layers(Unit, native.frame) /\ OnScreen(native.frame)
      BY ONLY <1>0, <2>1 DEF Showing, Pictures
    <3>6. \A v \in Videos : onscreen'[v] = onscreen[v]
      <4>1. session.kind = "ready" /\ command = None
        <5>1. ~native.failed /\ awaiting = None
          BY ONLY <1>0, <2>1 DEF NativeShape, Waits, Sending
        <5> QED
          BY ONLY <1>0, <2>1, <5>1 DEF PageAt, Waits
      <4>2. \A v \in Videos : ~Presentable(v)
        BY <1>0, <4>1, NothingPending DEF Presentable, Observed
      <4> QED
        BY ONLY <3>1, <4>2 DEF Turn
    <3>7. visible' = visible /\ shown' = shown /\ native.frame # None
      BY <1>0, <2>1, <3>1, TurnType, FrameFacts, ConstantsAssumption
         DEF RInv, LInv, NativeShape, Capturing
    <3>8. Layers(Unit, native.frame) \subseteq Videos
      BY DEF Layers
    <3>9. \A v \in Layers(Unit, native.frame) : onscreen'[v] = MediaTime[v][native.frame]
      BY ONLY <3>5, <3>6, <3>8 DEF OnScreen
    <3>10. [dom |-> Unit.look[native.frame],
            media |-> [v \in Videos |-> IF v \in visible' THEN onscreen'[v] ELSE None]]
              = Shows(Unit, native.frame)
      BY <3>5, <3>7, <3>9, LayersShow
    <3>11. Current' = Shows(Unit, native.frame)
      BY ONLY <2>3, <3>5, <3>7, <3>10 DEF Current, Dom
    <3> QED
      BY ONLY <2>2, <2>3, <2>5, <3>3, <3>4, <3>11, <1>0, <2>1 DEF Pictures, Capturing
  <2>6. CASE native'.phase # "write"
    BY ONLY <2>2, <2>6 DEF Pictures, Capturing
  <2> QED
    BY <2>5, <2>6
<1>11. CASE TakeScreenshot
  <2>0. CASE native.phase = "capture"
    <3>1. /\ previous' = previous /\ native.phase \in {"capture"}
          /\ answer' = answer /\ shown' = shown
      BY ONLY <1>0, <1>11, <2>0, TurnShape
         DEF TakeScreenshot, Sending, Waits, Turn, Turned, browserVars, runtimeVars
    <3>2. /\ native'.job = native.job /\ native'.unit = native.unit /\ native'.frame = native.frame
          /\ native'.phase \in {"confirm"}
      BY <1>0, <1>11, <2>0, GotoShape DEF TakeScreenshot, NativeShape, Phases
    <3>3. Unit' = Unit /\ Mode' = Mode
      BY ONLY <3>2 DEF Unit, Units, Mode
    <3>4. answer = None
      BY ONLY <1>0, <3>1 DEF Waits, Sending
    <3>5. shot' = Current /\ Current' = Current
      BY ONLY <1>11, <2>0, <3>3 DEF TakeScreenshot, Returned, Current, Dom, runtimeVars
    <3> QED
      BY ONLY <1>0, <3>1, <3>2, <3>3, <3>4, <3>5 DEF Pictures, Capturing, Answered
  <2>10. CASE native.phase = "recapture"
    <3>1. /\ previous' = previous /\ native.phase \in {"recapture"}
          /\ answer' = answer /\ shown' = shown
      BY ONLY <1>0, <1>11, <2>10, TurnShape
         DEF TakeScreenshot, Sending, Waits, Turn, Turned, browserVars, runtimeVars
    <3>2. /\ native'.job = native.job /\ native'.unit = native.unit /\ native'.frame = native.frame
          /\ native'.phase \in {"write"}
      BY <1>0, <1>11, <2>10, GotoShape DEF TakeScreenshot, NativeShape, Phases
    <3>3. Unit' = Unit /\ Mode' = Mode
      BY ONLY <3>2 DEF Unit, Units, Mode
    <3>4. answer = None
      BY ONLY <1>0, <3>1 DEF Waits, Sending
    <3>5. shot' = Current /\ Current' = Current
      BY ONLY <1>11, <2>10, <3>3 DEF TakeScreenshot, Returned, Current, Dom, runtimeVars
    <3>6. Current = Shows(Unit, native.frame)
      BY <1>0, <3>1, CurrentShows, FrameFacts, ConstantsAssumption
         DEF Showing, Pictures, NativeShape, Capturing
    <3> QED
      BY ONLY <1>0, <3>1, <3>2, <3>3, <3>4, <3>5, <3>6 DEF Pictures, Capturing
  <2> QED
    BY <1>11, <2>0, <2>10 DEF TakeScreenshot
<1>12. CASE Write
  <2>1. native.phase = "write" /\ native.frame \in Int /\ previous' = shot
    BY <1>0, <1>12, UnitFacts DEF Write
  <2>2. /\ native'.job = native.job /\ native'.unit = native.unit
        /\ native'.frame - 1 = native.frame /\ native'.phase = "frame"
    <3>1. native \in NativeType
      BY ONLY <1>0 DEF NativeShape
    <3>2. native' = [native EXCEPT !.phase = "frame", !.frame = native.frame + 1]
      BY <1>12 DEF Write
    <3>3. native'.frame = native.frame + 1
      BY <3>1, <3>2 DEF NativeType
    <3> QED
      BY ONLY <2>1, <3>1, <3>2, <3>3 DEF NativeType
  <2>3. Unit' = Unit
    BY ONLY <2>2 DEF Unit, Units
  <2> QED
    BY ONLY <1>0, <2>1, <2>2, <2>3 DEF Pictures
<1>13. CASE StepFails
  <2>1. native'.phase \in {"dispose", "shutdown"}
    BY <1>0, <1>13, ErrorShape DEF StepFails, NativeShape
  <2> QED
    BY ONLY <2>1 DEF Pictures, Capturing
<1>14. CASE Shutdown
  <2>1. native'.phase \in {"done", "failed"}
    BY <1>0, <1>14, GotoShape DEF Shutdown, NativeShape, Phases
  <2> QED
    BY ONLY <2>1 DEF Pictures, Capturing
<1>15. CASE PageStep
  <2>1. native' = native /\ previous' = previous /\ shot' = shot /\ onscreen' = onscreen
    BY <1>0, <1>15, PageStepShape DEF RInv
  <2>2. Unit' = Unit /\ (Stable' <=> Stable)
    BY <2>1 DEF Unit, Units, Stable, Placement
  <2>3. CASE native.failed
    <3>1. native.phase \in {"dispose", "shutdown", "failed"}
      BY ONLY <1>0, <2>3 DEF NativeShape
    <3> QED
      BY ONLY <2>1, <3>1 DEF Pictures, Capturing
  <2>4. CASE ~native.failed
    <3>1. native.phase = "confirm" => visible' = visible
      BY <1>0, <1>15, <2>4, AwaitedPageStep
    <3>2. CASE Works /\ answer' = answer /\ UNCHANGED <<shown, age>>
      <4>1. native.phase = "confirm" => Current' = Current
        BY ONLY <2>1, <2>2, <3>1, <3>2 DEF Current, Dom
      <4> QED
        BY ONLY <1>0, <2>1, <2>2, <3>2, <4>1 DEF Pictures, Answered, OnScreen
    <3>3. CASE /\ answer = None /\ answer' = reply' /\ answer' # None /\ Concludes
               /\ command.type = native.phase
               /\ native.phase \in {"seek", "confirm"} => command.frame = native.frame
               /\ IF reply'.event = "frameStaged"
                  THEN native.phase = "seek" /\ shown' = native.frame
                  ELSE shown' = shown
      <4>1. native.phase = "confirm" => Current' = Current
        BY ONLY <2>1, <2>2, <3>1, <3>3 DEF Current, Dom
      <4>2. native.phase = "confirm" /\ Answered("frameReady")' => OnScreen(native.frame)'
        <5> SUFFICES ASSUME native.phase = "confirm", Answered("frameReady")'
                     PROVE  OnScreen(native.frame)'
          OBVIOUS
        <5>1. Ends("frameReady", "confirm") /\ session'.kind = "ready" /\ session'.plan = session.plan
          BY ONLY <3>3, Answered("frameReady")' DEF Answered, Concludes, Ends
        <5>2. session.plan = Unit.plan
          BY ONLY <1>0, <3>3, native.phase = "confirm" DEF PageAt
        <5>3. command' = None /\ reply'.event = "frameReady" /\ reply'.frame = native.frame
          BY ONLY <3>3, <5>1, native.phase = "confirm" DEF Ends, EventFrame
        <5>4. Layers(Unit, native.frame) = Active(native.frame)'
          BY ONLY <1>00, <2>1, <2>2, <5>1, <5>2
             DEF RInv, BoundAsPlanned, BoundTo, Active, Layers, Bound
        <5>5. \A v \in Active(native.frame)' : video'[v].presented = MediaTime[v][native.frame]
          BY ONLY <1>00, <2>1, <5>1, <5>3 DEF RInv, FrameReadyIsExact, Active
        <5>6. \A v \in Videos : video'[v].pending = None /\ work'[v] = "idle"
          BY ONLY <1>00, <5>1, <5>3
             DEF RInv, LInv, Serving, OInv, Observing, Working, Seeking
        <5>7. \A v \in Layers(Unit, native.frame) : v \in Videos /\ MediaTime[v][native.frame] # None
          BY DEF Layers
        <5>8. \A v \in Layers(Unit, native.frame) : onscreen'[v] = MediaTime[v][native.frame]
          BY ONLY <1>01, <5>1, <5>4, <5>5, <5>6, <5>7 DEF Presented, Alive
        <5> QED
          BY ONLY <2>1, <2>2, <5>8 DEF OnScreen
      <4> QED
        <5>1. native.phase = "confirm" /\ Stable => shot = Current
          BY ONLY <1>0, <3>3 DEF Pictures
        <5>2. native.phase = "recapture" => OnScreen(native.frame)
          BY ONLY <1>0 DEF Pictures
        <5>3. OnScreen(native.frame) => OnScreen(native.frame)'
          BY ONLY <2>1, <2>2 DEF OnScreen
        <5>4. (native.phase = "write" => shot = Shows(Unit, native.frame))'
          BY ONLY <1>0, <2>1, <2>2 DEF Pictures
        <5>5. (native.phase \in Capturing /\ previous # None => previous = Shows(Unit, native.frame - 1))'
          BY ONLY <1>0, <2>1, <2>2 DEF Pictures
        <5>6. (native.phase = "confirm" /\ Stable /\ (answer = None \/ Answered("frameReady")) => shot = Current)'
          BY ONLY <2>1, <2>2, <4>1, <5>1
        <5>7. (native.phase = "recapture" \/ (native.phase = "confirm" /\ Answered("frameReady")) => OnScreen(native.frame))'
          BY ONLY <2>1, <4>2, <5>2, <5>3
        <5> QED
          BY ONLY <5>4, <5>5, <5>6, <5>7 DEF Pictures
    <3> QED
      BY <1>0, <1>15, <2>4, <3>2, <3>3, AwaitedPageStep
  <2> QED
    BY <2>3, <2>4
<1>16. ASSUME NEW v \in Videos, FreeTurn(v)
       PROVE  Pictures'
  <2>1. /\ native' = native /\ previous' = previous /\ answer' = answer /\ shown' = shown
        /\ visible' = visible /\ shot' = shot /\ Mode = "screenshot"
    BY <1>16 DEF FreeTurn, Present, nativeVars
  <2>2. Unit' = Unit /\ (Stable' <=> Stable)
    BY <2>1 DEF Unit, Units, Stable, Placement
  <2>3. Layers(Unit, native.frame) = {}
    BY <1>0, <2>1, Screenshots
  <2>4. native.phase = "confirm" /\ (answer = None \/ Answered("frameReady")) => visible = {}
    BY <1>0, <2>3, StagedVisible DEF PageAt, Showing
  <2>5. visible = {} => Current' = Current
    BY ONLY <2>1, <2>2 DEF Current, Dom
  <2>6. OnScreen(native.frame)'
    BY ONLY <2>1, <2>2, <2>3 DEF OnScreen
  <2> QED
    BY ONLY <1>0, <2>1, <2>2, <2>4, <2>5, <2>6 DEF Pictures, Answered
<1>17. CASE UNCHANGED vars
  <2>1. /\ native' = native /\ previous' = previous /\ answer' = answer /\ shown' = shown
        /\ visible' = visible /\ shot' = shot /\ onscreen' = onscreen
    BY <1>17 DEF vars, Present, nativeVars, browserVars, runtimeVars
  <2> QED
    BY ONLY <1>0, <2>1
       DEF Pictures, Answered, OnScreen, Current, Dom, Stable, Placement, Unit, Units
<1> QED
  BY <1>1, <1>2, <1>3, <1>4, <1>5, <1>6, <1>7, <1>8, <1>9, <1>10,
     <1>11, <1>12, <1>13, <1>14, <1>15, <1>16, <1>17
     DEF CaptureNext, NativeStep, Stop

(* The recursion that defines the film of the first m units.               *)
Films(units, film, m) ==
    film = [n \in 0 .. m |-> IF n = 0 THEN <<>> ELSE film[n - 1] \o FramesOf(units, n)]

(* The recursion that defines the film has a solution: by the least number *)
(* of units without one.                                                   *)
LEMMA FilmsExist ==
    ASSUME NEW units, NEW m \in Nat
    PROVE  \E film : Films(units, film, m)
<1> DEFINE Missing == {k \in Nat : ~ \E film : Films(units, film, k)}
<1>1. SUFFICES ASSUME Missing # {} PROVE FALSE
  OBVIOUS
<1>2. PICK k \in Missing : \A j \in Missing : ~(<<j, k>> \in OpToRel(<, Nat))
  BY <1>1, WFMin, NatLessThanWellFounded, Zenon
<1>3. \A j \in Nat : j < k => \E film : Films(units, film, j)
  BY <1>2, Zenon DEF OpToRel
<1>4. CASE k = 0
  <2>1. Films(units, [n \in 0 .. 0 |-> <<>>], 0)
    BY DEF Films
  <2> QED
    BY <1>2, <1>4, <2>1
<1>5. CASE k # 0
  <2>1. k \in Nat /\ k - 1 \in Nat /\ k - 1 < k
    <3>1. k \in Nat
      OBVIOUS
    <3> QED
      BY ONLY <1>5, <3>1
  <2>2. PICK film : Films(units, film, k - 1)
    BY <1>3, <2>1
  <2> DEFINE longer == [n \in 0 .. k |-> IF n < k THEN film[n]
                                         ELSE film[k - 1] \o FramesOf(units, k)]
  <2>3. ASSUME NEW n \in 0 .. k
        PROVE  longer[n] = IF n = 0 THEN <<>> ELSE longer[n - 1] \o FramesOf(units, n)
    <3>1. CASE n < k
      <4>1. n \in 0 .. k - 1 /\ (n # 0 => n - 1 \in 0 .. k /\ n - 1 < k)
        BY <2>1, <3>1
      <4>2. film[n] = IF n = 0 THEN <<>> ELSE film[n - 1] \o FramesOf(units, n)
        BY <2>2, <4>1 DEF Films
      <4> QED
        BY <3>1, <4>1, <4>2
    <3>2. CASE n = k
      <4>1. n - 1 \in 0 .. k /\ n - 1 < k /\ n # 0 /\ ~(n < k)
        BY <1>5, <2>1, <3>2
      <4> QED
        BY <3>2, <4>1
    <3> QED
      BY <2>1, <3>1, <3>2
  <2>4. longer = [n \in 0 .. k |-> longer[n]]
    OBVIOUS
  <2> HIDE DEF longer
  <2>5. Films(units, longer, k)
    BY <2>3, <2>4 DEF Films
  <2> QED
    BY <1>2, <2>5
<1> QED
  BY <1>4, <1>5

(* So the film satisfies its recursion.                                    *)
LEMMA FilmIs ==
    ASSUME NEW units, Len(units) \in Nat
    PROVE  Films(units, FilmUpTo(units), Len(units))
BY FilmsExist DEF FilmUpTo, Films

(* What the film consists of.                                              *)
FilmFrames(units) ==
    [unit : Int, frame : Int, picture : {Shows(units[u], f) : u \in DOMAIN units, f \in Int}]

(* The frames of one unit.                                                 *)
LEMMA FramesOfFacts ==
    ASSUME NEW job \in Jobs, NEW u \in DOMAIN job.units
    PROVE  LET of == FramesOf(job.units, u)  unit == job.units[u] IN
           /\ of \in Seq(FilmFrames(job.units))
           /\ Len(of) = unit.to - unit.from
           /\ \A f \in unit.from .. unit.to - 1 :
                 of[f - unit.from + 1] = [unit |-> u, frame |-> f, picture |-> Shows(unit, f)]
<1> DEFINE of == FramesOf(job.units, u)
           unit == job.units[u]
           length == unit.to - unit.from
<1>1. unit.from \in Int /\ unit.to \in Int /\ unit.from < unit.to /\ u \in Int
  BY JobFacts
<1>2. length \in Nat
  BY <1>1
<1>3. ASSUME NEW i \in 1 .. length
      PROVE  of[i] = [unit |-> u, frame |-> unit.from + i - 1,
                      picture |-> Shows(unit, unit.from + i - 1)]
  BY <1>3 DEF FramesOf
<1>4. of = [i \in 1 .. length |-> of[i]]
  BY DEF FramesOf
<1>5. ASSUME NEW i \in 1 .. length
      PROVE  of[i] \in FilmFrames(job.units)
  <2>1. unit.from + i - 1 \in Int
    BY <1>1
  <2>2. Shows(unit, unit.from + i - 1) \in {Shows(job.units[v], f) : v \in DOMAIN job.units, f \in Int}
    <3> DEFINE at == unit.from + i - 1
    <3>1. at \in Int
      BY ONLY <2>1
    <3> HIDE DEF at
    <3>2. Shows(unit, at) \in {Shows(job.units[v], f) : v \in DOMAIN job.units, f \in Int}
      BY <3>1
    <3> QED
      BY ONLY <3>2 DEF at
  <2> DEFINE pic == Shows(unit, unit.from + i - 1)
             pics == {Shows(job.units[v], f) : v \in DOMAIN job.units, f \in Int}
             at == unit.from + i - 1
  <2>3. of[i] = [unit |-> u, frame |-> at, picture |-> pic]
    BY ONLY <1>3
  <2>4. at \in Int /\ pic \in pics /\ u \in Int
    BY ONLY <1>1, <2>1, <2>2
  <2>5. FilmFrames(job.units) = [unit : Int, frame : Int, picture : pics]
    BY DEF FilmFrames
  <2> HIDE DEF pic, pics, at, of
  <2> QED
    BY ONLY <2>3, <2>4, <2>5
<1>6. ASSUME NEW f \in unit.from .. unit.to - 1
      PROVE  f - unit.from + 1 \in 1 .. length /\ unit.from + (f - unit.from + 1) - 1 = f
  BY <1>1
<1> HIDE DEF of, unit, length
<1>7. of \in Seq(FilmFrames(job.units)) /\ Len(of) = length
  <2>1. of \in [1 .. length -> FilmFrames(job.units)]
    BY <1>4, <1>5
  <2> QED
    BY ONLY <2>1, <1>2
<1>8. \A f \in unit.from .. unit.to - 1 :
        of[f - unit.from + 1] = [unit |-> u, frame |-> f, picture |-> Shows(unit, f)]
  BY <1>3, <1>6
<1> QED
  BY <1>7, <1>8 DEF of, unit, length

(* The film grows by one unit's frames at a time. *)
LEMMA FilmGrows ==
    ASSUME NEW job \in Jobs
    PROVE  LET film == FilmUpTo(job.units) IN
           /\ film[0] = <<>>
           /\ \A n \in 1 .. Len(job.units) : film[n] = film[n - 1] \o FramesOf(job.units, n)
<1>1. Len(job.units) \in Nat
  BY JobFacts
<1>2. Films(job.units, FilmUpTo(job.units), Len(job.units))
  BY <1>1, FilmIs
<1> DEFINE film == FilmUpTo(job.units)
<1>3. \A n \in 0 .. Len(job.units) : film[n] = IF n = 0 THEN <<>> ELSE film[n - 1] \o FramesOf(job.units, n)
  BY <1>2 DEF Films
<1> HIDE DEF film
<1>4. film[0] = <<>>
  BY <1>1, <1>3
<1>5. ASSUME NEW n \in 1 .. Len(job.units)
      PROVE  film[n] = film[n - 1] \o FramesOf(job.units, n)
  <2>1. n \in 0 .. Len(job.units) /\ n # 0
    BY <1>1
  <2> QED
    BY <1>3, <2>1
<1> QED
  BY <1>4, <1>5 DEF film

(* The film of some units begins with the film of the first of them. *)
BeginsWith(long, short) ==
    /\ Len(short) <= Len(long)
    /\ \A i \in 1 .. Len(short) : long[i] = short[i]

(* What joining two sequences gives.                                       *)
LEMMA Joined ==
    ASSUME NEW S, NEW a \in Seq(S), NEW b \in Seq(S)
    PROVE  /\ a \o b \in Seq(S)
           /\ Len(a) \in Nat /\ Len(b) \in Nat
           /\ Len(a \o b) = Len(a) + Len(b)
           /\ BeginsWith(a \o b, a)
           /\ \A i \in 1 .. Len(b) : (a \o b)[Len(a) + i] = b[i]
BY DEF BeginsWith

(* Films of fewer units are prefixes of the whole: by the least number of  *)
(* units of which it fails.                                                *)
LEMMA FilmPrefix ==
    ASSUME NEW job \in Jobs
    PROVE  \A m \in 0 .. Len(job.units) :
              /\ FilmUpTo(job.units)[m] \in Seq(FilmFrames(job.units))
              /\ \A n \in 0 .. m : BeginsWith(FilmUpTo(job.units)[m], FilmUpTo(job.units)[n])
<1> DEFINE film == FilmUpTo(job.units)
           Holds(m) == /\ film[m] \in Seq(FilmFrames(job.units))
                       /\ \A n \in 0 .. m : BeginsWith(film[m], film[n])
           Wrong == {k \in Nat : k \in 0 .. Len(job.units) /\ ~Holds(k)}
<1>1. Len(job.units) \in Nat /\ DOMAIN job.units = 1 .. Len(job.units)
  BY JobFacts
<1>2. SUFFICES ASSUME Wrong # {} PROVE FALSE
  BY <1>1
<1>3. PICK k \in Wrong : \A j \in Wrong : ~(<<j, k>> \in OpToRel(<, Nat))
  BY <1>2, WFMin, NatLessThanWellFounded, Zenon
<1>4. \A j \in Nat : j \in 0 .. Len(job.units) /\ j < k => Holds(j)
  BY <1>3, Zenon DEF OpToRel
<1>5. film[0] = <<>> /\ \A n \in 1 .. Len(job.units) : film[n] = film[n - 1] \o FramesOf(job.units, n)
  BY FilmGrows
<1> HIDE DEF film
<1>6. CASE k = 0
  <2>1. Holds(0)
    BY <1>5 DEF BeginsWith
  <2> QED
    BY <1>3, <1>6, <2>1
<1>7. CASE k # 0
  <2>1. k \in 1 .. Len(job.units) /\ k - 1 \in Nat /\ k - 1 < k /\ k - 1 \in 0 .. Len(job.units)
    <3>1. k \in 0 .. Len(job.units)
      OBVIOUS
    <3> QED
      BY ONLY <1>1, <1>7, <3>1
  <2>2. Holds(k - 1)
    BY <1>4, <2>1
  <2>3. FramesOf(job.units, k) \in Seq(FilmFrames(job.units))
    BY <1>1, <2>1, FramesOfFacts
  <2>4. film[k] = film[k - 1] \o FramesOf(job.units, k)
    BY <1>5, <2>1
  <2>5. film[k] \in Seq(FilmFrames(job.units)) /\ BeginsWith(film[k], film[k - 1])
    <3>1. film[k - 1] \in Seq(FilmFrames(job.units))
      BY ONLY <2>2
    <3> QED
      BY ONLY <2>3, <2>4, <3>1, Joined
  <2>6. ASSUME NEW n \in 0 .. k PROVE BeginsWith(film[k], film[n])
    <3>1. CASE n = k
      BY ONLY <2>5, <3>1 DEF BeginsWith
    <3>2. CASE n # k
      <4>1. n \in 0 .. k - 1 /\ n \in 0 .. Len(job.units) /\ n \in Nat /\ n < k
        BY <1>1, <2>1, <3>2
      <4>2. BeginsWith(film[k - 1], film[n]) /\ film[n] \in Seq(FilmFrames(job.units))
        BY <1>4, <2>2, <4>1
      <4>3. film[k - 1] \in Seq(FilmFrames(job.units))
        BY <2>2
      <4> QED
        BY ONLY <2>5, <4>2, <4>3 DEF BeginsWith
    <3> QED
      BY <3>1, <3>2
  <2>7. Holds(k)
    BY <2>5, <2>6
  <2> QED
    BY <1>3, <2>7
<1> QED
  BY <1>6, <1>7

(* How the native side moves through the film. *)
Stays ==
    /\ native'.unit = native.unit /\ native'.frame = native.frame
    /\ native'.failed = native.failed
    /\ \/ native'.phase = native.phase
       \/ native.phase \notin {"shutdown", "done", "failed"} /\ native'.phase \notin {"done", "failed"}
       \/ native.phase = "shutdown" /\ native'.phase \in {"done", "failed"}
          /\ (native'.phase = "done" => ~native.failed)

(* An error.                                                               *)
Fails ==
    native'.failed /\ native.phase \notin {"done", "failed"} /\ native'.phase \notin {"done", "failed"}

(* The next unit begins.                                                   *)
EntersNextUnit ==
    /\ native.phase = "dispose" /\ ~native.failed /\ native.pass = "capture"
    /\ native.unit < Len(Units) /\ native'.unit = native.unit + 1
    /\ native'.frame = Units[native.unit + 1].from
    /\ native'.phase = "navigate"

(* A step, as the sink sees it.                                            *)
Moves ==
    /\ native'.job = native.job
    /\ Write \/ (written' = written /\ (Stays \/ Fails \/ EntersNextUnit))

(* Every step of the composition moves through the film in one of these    *)
(* ways.                                                                   *)
LEMMA MovesStep ==
    ASSUME NativeShape, Waits, [CaptureNext]_vars
    PROVE  Moves
<1>0. NativeShape /\ Waits
  OBVIOUS
<1>1. CASE Navigate
  <2>1. written' = written /\ native.phase \in {"navigate"} /\ native \in NativeType
    BY ONLY <1>0, <1>1 DEF Navigate, Waits, Sending, NativeShape
  <2>2. CASE Goto("load")
    <3>1. /\ native'.job = native.job /\ native'.unit = native.unit /\ native'.frame = native.frame
          /\ native'.failed = native.failed /\ native'.phase = "load"
      BY <2>1, <2>2, GotoShape DEF Phases
    <3> QED
      BY ONLY <2>1, <3>1 DEF Moves, Stays
  <2>3. CASE Error
    <3>1. native'.job = native.job /\ native'.failed /\ native'.phase \in {"dispose", "shutdown"}
      BY <2>1, <2>3, ErrorShape
    <3> QED
      BY ONLY <2>1, <3>1 DEF Moves, Fails
  <2> QED
    BY ONLY <1>1, <2>2, <2>3 DEF Navigate
<1>2. CASE Send
  BY ONLY <1>0, <1>2 DEF Send, nativeVars, vars, Moves, Stays
<1>3. CASE Receive
  <2>1. written' = written /\ native.phase \in Sending /\ native \in NativeType
    BY ONLY <1>0, <1>3 DEF Receive, Waits, NativeShape
  <2>2. CASE Error
    <3>1. native'.job = native.job /\ native'.failed /\ native'.phase \in {"dispose", "shutdown"}
      BY <2>1, <2>2, ErrorShape
    <3> QED
      BY ONLY <2>1, <3>1 DEF Moves, Fails, Sending
  <2>3. CASE native' = Successor
    <3>1. native'.job = native.job /\ (Stays \/ EntersNextUnit)
      BY <1>0, <2>1, <2>3, Successors DEF Stays, EntersNextUnit, Sending
    <3> QED
      BY ONLY <2>1, <3>1 DEF Moves
  <2> QED
    BY ONLY <1>3, <2>2, <2>3 DEF Receive
<1>4. CASE GiveUp
  <2>1. written' = written /\ native.phase \notin {"done", "failed"} /\ native \in NativeType
    BY ONLY <1>0, <1>4 DEF GiveUp, Waits, Sending, NativeShape
  <2>2. native'.job = native.job /\ native'.failed /\ native'.phase \in {"dispose", "shutdown"}
    BY <2>1, <1>4, ErrorShape DEF GiveUp
  <2> QED
    BY ONLY <2>1, <2>2 DEF Moves, Fails
<1>5. CASE InitializeSurface
  <2>1. written' = written /\ native.phase \in {"initialize"}
    BY ONLY <1>0, <1>5 DEF InitializeSurface, Waits, Sending
  <2>2. /\ native'.job = native.job /\ native'.unit = native.unit /\ native'.frame = native.frame
        /\ native'.failed = native.failed /\ native'.phase \in {"frame"}
    BY <1>0, <1>5, GotoShape DEF InitializeSurface, NativeShape, Phases
  <2> QED
    BY ONLY <2>1, <2>2 DEF Moves, Stays
<1>6. CASE ChooseFrame
  <2>1. written' = written /\ native.phase \in {"frame"}
    BY ONLY <1>0, <1>6 DEF ChooseFrame, Waits, Sending
  <2>2. /\ native'.job = native.job /\ native'.unit = native.unit /\ native'.frame = native.frame
        /\ native'.failed = native.failed /\ native'.phase \in {"write", "seek", "dispose"}
    BY <1>0, <1>6, GotoShape DEF ChooseFrame, NativeShape, Phases
  <2> QED
    BY ONLY <2>1, <2>2 DEF Moves, Stays
<1>7. CASE CommitSurface
  <2>1. written' = written /\ native.phase \in {"commit"}
    BY ONLY <1>0, <1>7 DEF CommitSurface, Waits, Sending
  <2>2. /\ native'.job = native.job /\ native'.unit = native.unit /\ native'.frame = native.frame
        /\ native'.failed = native.failed /\ native'.phase \in {"capture"}
    BY <1>0, <1>7, GotoShape DEF CommitSurface, NativeShape, Phases
  <2> QED
    BY ONLY <2>1, <2>2 DEF Moves, Stays
<1>8. CASE Capture
  <2>1. written' = written /\ native.phase \in {"capture"}
    BY ONLY <1>0, <1>8 DEF Capture, Waits, Sending
  <2>2. /\ native'.job = native.job /\ native'.unit = native.unit /\ native'.frame = native.frame
        /\ native'.failed = native.failed /\ native'.phase \in {"confirm", "retry"}
    BY <1>0, <1>8, GotoShape DEF Capture, NativeShape, Phases
  <2> QED
    BY ONLY <2>1, <2>2 DEF Moves, Stays
<1>9. CASE RetryCapture
  <2>1. written' = written /\ native.phase \in {"retry"} /\ native \in NativeType
    BY ONLY <1>0, <1>9 DEF RetryCapture, Waits, Sending, NativeShape
  <2>2. CASE Goto("confirm")
    <3>1. /\ native'.job = native.job /\ native'.unit = native.unit /\ native'.frame = native.frame
          /\ native'.failed = native.failed /\ native'.phase = "confirm"
      BY <2>1, <2>2, GotoShape DEF Phases
    <3> QED
      BY ONLY <2>1, <3>1 DEF Moves, Stays
  <2>3. CASE Error
    <3>1. native'.job = native.job /\ native'.failed /\ native'.phase \in {"dispose", "shutdown"}
      BY <2>1, <2>3, ErrorShape
    <3> QED
      BY ONLY <2>1, <3>1 DEF Moves, Fails
  <2> QED
    BY ONLY <1>9, <2>2, <2>3 DEF RetryCapture
<1>10. CASE Recapture
  <2>1. written' = written /\ native.phase \in {"recapture"} /\ native \in NativeType
    BY ONLY <1>0, <1>10 DEF Recapture, Waits, Sending, NativeShape
  <2>2. CASE Goto("write")
    <3>1. /\ native'.job = native.job /\ native'.unit = native.unit /\ native'.frame = native.frame
          /\ native'.failed = native.failed /\ native'.phase = "write"
      BY <2>1, <2>2, GotoShape DEF Phases
    <3> QED
      BY ONLY <2>1, <3>1 DEF Moves, Stays
  <2>3. CASE Error
    <3>1. native'.job = native.job /\ native'.failed /\ native'.phase \in {"dispose", "shutdown"}
      BY <2>1, <2>3, ErrorShape
    <3> QED
      BY ONLY <2>1, <3>1 DEF Moves, Fails
  <2> QED
    BY ONLY <1>10, <2>2, <2>3 DEF Recapture
<1>11. CASE TakeScreenshot
  <2>1. written' = written /\ native.phase \in {"capture", "recapture"}
    BY ONLY <1>0, <1>11 DEF TakeScreenshot, Waits, Sending
  <2>2. /\ native'.job = native.job /\ native'.unit = native.unit /\ native'.frame = native.frame
        /\ native'.failed = native.failed /\ native'.phase \in {"confirm", "write"}
    BY <1>0, <1>11, GotoShape DEF TakeScreenshot, NativeShape, Phases
  <2> QED
    BY ONLY <2>1, <2>2 DEF Moves, Stays
<1>12. CASE Write
  <2>1. native'.job = native.job
    BY ONLY <1>0, <1>12 DEF Write, NativeShape, NativeType
  <2> QED
    BY ONLY <1>12, <2>1 DEF Moves
<1>13. CASE StepFails
  <2>1. written' = written /\ native.phase \notin {"done", "failed"} /\ native \in NativeType
    BY ONLY <1>0, <1>13 DEF StepFails, Waits, Sending, NativeShape
  <2>2. native'.job = native.job /\ native'.failed /\ native'.phase \in {"dispose", "shutdown"}
    BY <2>1, <1>13, ErrorShape DEF StepFails
  <2> QED
    BY ONLY <2>1, <2>2 DEF Moves, Fails
<1>14. CASE Shutdown
  <2>1. written' = written /\ native.phase = "shutdown" /\ native \in NativeType
    BY ONLY <1>0, <1>14 DEF Shutdown, NativeShape
  <2>2. /\ native'.job = native.job /\ native'.unit = native.unit /\ native'.frame = native.frame
        /\ native'.failed = native.failed /\ native'.phase \in {"done", "failed"}
        /\ native'.phase = "done" => ~native.failed
    BY <2>1, <1>14, GotoShape DEF Shutdown, Phases
  <2> QED
    BY ONLY <2>1, <2>2 DEF Moves, Stays
<1>15. CASE PageStep
  BY ONLY <1>0, <1>15 DEF PageStep, nativeVars, vars, Moves, Stays
<1>16. ASSUME NEW v \in Videos, FreeTurn(v)
       PROVE  Moves
  BY ONLY <1>0, <1>16 DEF FreeTurn, Present, nativeVars, vars, Moves, Stays
<1>17. CASE UNCHANGED vars
  BY ONLY <1>0, <1>17 DEF vars, nativeVars, Moves, Stays
<1> QED
  BY <1>1, <1>2, <1>3, <1>4, <1>5, <1>6, <1>7, <1>8, <1>9, <1>10,
     <1>11, <1>12, <1>13, <1>14, <1>15, <1>16, <1>17
     DEF CaptureNext, NativeStep, Stop

(* Where a frame of a unit stands in the film, and where a unit ends. *)
LEMMA FrameOfTheFilm ==
    ASSUME NEW job \in Jobs, NEW u \in DOMAIN job.units,
           NEW f \in job.units[u].from .. job.units[u].to - 1
    PROVE  LET film == FilmUpTo(job.units)
               at   == Len(film[u - 1]) + (f - job.units[u].from)
           IN  /\ at \in Nat /\ at < Len(film[Len(job.units)])
               /\ film[Len(job.units)][at + 1] =
                     [unit |-> u, frame |-> f, picture |-> Shows(job.units[u], f)]
<1> DEFINE film == FilmUpTo(job.units)
           before == film[u - 1]
           of == FramesOf(job.units, u)
           whole == film[Len(job.units)]
           i == f - job.units[u].from
           S == FilmFrames(job.units)
           now == film[u]
<1>1. Len(job.units) \in Nat /\ u \in 1 .. Len(job.units)
      /\ job.units[u].from \in Int /\ job.units[u].to \in Int
  BY JobFacts
<1>2. u - 1 \in 0 .. Len(job.units) /\ u \in 0 .. Len(job.units) /\ Len(job.units) \in 0 .. Len(job.units)
  BY <1>1
<1>3. before \in Seq(S) /\ whole \in Seq(S) /\ now \in Seq(S) /\ BeginsWith(whole, now)
  BY <1>2, FilmPrefix
<1>4. now = before \o of
  BY <1>1, FilmGrows
<1>5. of \in Seq(S) /\ Len(of) = job.units[u].to - job.units[u].from
      /\ of[i + 1] = [unit |-> u, frame |-> f, picture |-> Shows(job.units[u], f)]
  BY FramesOfFacts
<1>6. i \in Nat /\ i + 1 \in 1 .. Len(of)
  <2>1. i \in Nat /\ i < job.units[u].to - job.units[u].from
    BY <1>1
  <2> HIDE DEF i, of
  <2> QED
    BY ONLY <1>1, <1>5, <2>1
<1> HIDE DEF film, before, of, whole, i, S, now
<1>13. /\ Len(before) \in Nat /\ Len(of) \in Nat
       /\ Len(before \o of) = Len(before) + Len(of)
       /\ \A j \in 1 .. Len(of) : (before \o of)[Len(before) + j] = of[j]
  <2>1. before \in Seq(S) /\ of \in Seq(S)
    BY ONLY <1>3, <1>5
  <2>2. Len(before) \in Nat /\ Len(of) \in Nat /\ Len(before \o of) = Len(before) + Len(of)
    BY ONLY <2>1, Joined, Zenon
  <2>3. \A j \in 1 .. Len(of) : (before \o of)[Len(before) + j] = of[j]
    BY ONLY <2>1, Joined, Zenon
  <2> QED
    BY ONLY <2>2, <2>3
<1>7. /\ now[Len(before) + (i + 1)] = of[i + 1] /\ Len(now) = Len(before) + Len(of)
      /\ Len(before) \in Nat /\ Len(of) \in Nat
  BY ONLY <1>4, <1>6, <1>13
<1>8. Len(whole) \in Nat /\ Len(now) <= Len(whole)
  BY ONLY <1>3 DEF BeginsWith
<1>9. Len(before) + i + 1 \in 1 .. Len(now) /\ Len(before) + i \in Nat
      /\ Len(before) + i < Len(whole) /\ Len(before) + (i + 1) = Len(before) + i + 1
  BY ONLY <1>6, <1>7, <1>8
<1>10. whole[Len(before) + i + 1] = now[Len(before) + i + 1]
  BY ONLY <1>3, <1>9 DEF BeginsWith
<1>11. whole[Len(before) + i + 1] = [unit |-> u, frame |-> f, picture |-> Shows(job.units[u], f)]
  BY ONLY <1>5, <1>7, <1>9, <1>10
<1> QED
  BY ONLY <1>9, <1>11 DEF film, before, whole, i

(* How long the film is after a unit.                                      *)
LEMMA UnitEnds ==
    ASSUME NEW job \in Jobs, NEW u \in DOMAIN job.units
    PROVE  LET film == FilmUpTo(job.units) IN
           /\ Len(film[u - 1]) \in Nat
           /\ Len(film[u]) = Len(film[u - 1]) + (job.units[u].to - job.units[u].from)
<1>1. Len(job.units) \in Nat /\ u \in 1 .. Len(job.units)
  BY JobFacts
<1>2. u - 1 \in 0 .. Len(job.units)
  BY <1>1
<1>3. /\ FilmUpTo(job.units)[u - 1] \in Seq(FilmFrames(job.units))
      /\ FramesOf(job.units, u) \in Seq(FilmFrames(job.units))
      /\ FilmUpTo(job.units)[u] = FilmUpTo(job.units)[u - 1] \o FramesOf(job.units, u)
      /\ Len(FramesOf(job.units, u)) = job.units[u].to - job.units[u].from
  BY <1>1, <1>2, FilmPrefix, FilmGrows, FramesOfFacts
<1> DEFINE before == FilmUpTo(job.units)[u - 1]
           of == FramesOf(job.units, u)
<1>4. Len(before) \in Nat /\ Len(before \o of) = Len(before) + Len(of)
  BY ONLY <1>3, Joined, Zenon
<1> HIDE DEF before, of
<1> QED
  BY ONLY <1>3, <1>4 DEF before, of

(* What was written is a prefix of the film, and as long as nothing failed *)
(* it ends where the frame at work begins.                                 *)
Sofar ==
    /\ written \in Seq(FilmFrames(Units))
    /\ BeginsWith(FilmUpTo(Units)[Len(Units)], written)
    /\ ~native.failed /\ native.phase # "failed" =>
          Len(written) = Len(FilmUpTo(Units)[native.unit - 1]) + (native.frame - Unit.from)

(* A step of the promised stream, or none.                                 *)
Delivered == [Promise!Next]_(Promise!streamVars)

(* Writing a frame delivers the next one of the film.                      *)
LEMMA WriteDelivers ==
    ASSUME NativeShape, Pictures, Sofar, Write
    PROVE  Sofar' /\ Delivered
<1> DEFINE film == FilmUpTo(Units)
           whole == film[Len(Units)]
           S == FilmFrames(Units)
           before == film[native.unit - 1]
           i == native.frame - Unit.from
           new == [unit |-> native.unit, frame |-> native.frame, picture |-> shot]
<1>1. /\ native.job \in Jobs /\ native.unit \in DOMAIN native.job.units
      /\ Unit = native.job.units[native.unit] /\ Units = native.job.units
      /\ Unit.from \in Int /\ Unit.to \in Int /\ native.frame \in Int
      /\ native.frame \in Unit.from .. Unit.to - 1 /\ native.unit \in Int
  <2>1. native.phase = "write" /\ native.frame < Unit.to
    BY DEF Write, NativeShape, Capturing
  <2>2. native.frame \in Unit.from .. Unit.to /\ native.unit \in Int
    BY DEF NativeShape, NativeType
  <2> QED
    BY <2>1, <2>2, UnitFacts
<1>2. native.phase = "write" /\ ~native.failed /\ shot = Shows(Unit, native.frame)
  BY DEF Write, NativeShape, Pictures
<1>3. /\ native'.job = native.job /\ native'.unit = native.unit
      /\ native'.frame = native.frame + 1 /\ native'.phase = "frame"
      /\ native'.failed = native.failed
  BY DEF Write, NativeShape, NativeType
<1>4. Units' = Units /\ Unit' = Unit
  BY ONLY <1>3 DEF Units, Unit
<1>5. /\ Len(before) + i \in Nat /\ Len(before) + i < Len(whole)
      /\ whole[Len(before) + i + 1] =
            [unit |-> native.unit, frame |-> native.frame, picture |-> Shows(Unit, native.frame)]
  BY <1>1, FrameOfTheFilm
<1>6. Len(before) \in Nat
  BY <1>1, UnitEnds
<1>7. Len(written) = Len(before) + i /\ written \in Seq(S) /\ BeginsWith(whole, written)
  BY <1>2 DEF Sofar
<1>8. whole[Len(written) + 1] = new
  BY <1>2, <1>5, <1>7
<1>9. written' = Append(written, new) /\ Len(written) < Len(whole)
  BY <1>5, <1>7 DEF Write
<1>10. whole \in Seq(S)
  <2>1. Len(native.job.units) \in 0 .. Len(native.job.units)
    BY <1>1, JobFacts
  <2> QED
    BY <1>1, <2>1, FilmPrefix
<1>11. i \in Int /\ (native'.frame - Unit.from) = i + 1
  BY <1>1, <1>3
<1> HIDE DEF whole, S, before, i, new
<1>12. Len(whole) \in Nat /\ Len(written) \in Nat
  BY ONLY <1>7, <1>10
<1>13. new \in S
  BY ONLY <1>8, <1>9, <1>10, <1>12
<1>14. /\ written' \in Seq(S) /\ BeginsWith(whole, written')
       /\ Len(written') = Len(written) + 1
  BY ONLY <1>7, <1>8, <1>9, <1>12, <1>13 DEF BeginsWith
<1>15. Len(written') = Len(before) + (native'.frame - Unit.from)
  BY ONLY <1>6, <1>7, <1>11, <1>14
<1>16. Sofar'
  <2>1. written' \in Seq(FilmFrames(Units')) /\ BeginsWith(FilmUpTo(Units')[Len(Units')], written')
    BY ONLY <1>4, <1>14 DEF whole, S
  <2>2. Len(written') = Len(FilmUpTo(Units')[native'.unit - 1]) + (native'.frame - Unit'.from)
    BY ONLY <1>3, <1>4, <1>15 DEF before
  <2> QED
    BY <2>1, <2>2 DEF Sofar
<1>17. Promise!Deliver
  <2>1. Status = "running" /\ Status' = "running"
    BY <1>2, <1>3 DEF Status, Finished
  <2>2. written' = Append(written, whole[Len(written) + 1])
    BY ONLY <1>8, <1>9
  <2>3. FilmUpTo(Units')[Len(Units')] = FilmUpTo(Units)[Len(Units)]
    BY ONLY <1>4
  <2> QED
    BY ONLY <1>9, <2>1, <2>2, <2>3 DEF Promise!Deliver, whole
<1> QED
  BY <1>16, <1>17 DEF Delivered, Promise!Next

(* What stays at its frame delivers nothing; success is reported of the    *)
(* whole film only.                                                        *)
LEMMA StaysDelivers ==
    ASSUME NativeShape, Sofar, native'.job = native.job, written' = written, Stays
    PROVE  Sofar' /\ Delivered
<1>1. Units' = Units /\ Unit' = Unit /\ native'.unit = native.unit /\ native'.frame = native.frame
      /\ native'.failed = native.failed
  BY DEF Units, Unit, Stays
<1>2. native'.phase # "failed" => native.phase # "failed"
  BY DEF Stays
<1>3. Sofar'
  BY ONLY Sofar, <1>1, <1>2, written' = written DEF Sofar
<1>4. CASE native.phase = "shutdown" /\ native'.phase = "done"
  <2> DEFINE whole == FilmUpTo(Units)[Len(Units)]
             before == FilmUpTo(Units)[native.unit - 1]
             S == FilmFrames(Units)
  <2>1. /\ native.job \in Jobs /\ native.unit \in DOMAIN native.job.units
        /\ Unit = native.job.units[native.unit] /\ Units = native.job.units
        /\ Len(native.job.units) \in Nat
    BY UnitFacts, JobFacts
  <2>2. ~native.failed /\ native.unit = Len(Units) /\ native.frame = Unit.to
    BY <1>4 DEF Stays, NativeShape
  <2>3. Len(written) = Len(before) + (Unit.to - Unit.from)
    BY <1>4, <2>2 DEF Sofar
  <2>4. Len(whole) = Len(before) + (Unit.to - Unit.from)
    BY <2>1, <2>2, UnitEnds
  <2>5. Len(native.job.units) \in 0 .. Len(native.job.units)
    BY <2>1
  <2>6. whole \in Seq(S) /\ written \in Seq(S) /\ BeginsWith(whole, written)
    BY <2>1, <2>5, FilmPrefix DEF Sofar
  <2> HIDE DEF whole, before, S
  <2>7. written = whole
    BY ONLY <2>3, <2>4, <2>6 DEF BeginsWith
  <2>8. Status = "running" /\ Status' = "done" /\ Units' = Units
    BY <1>1, <1>4 DEF Status, Finished
  <2>9. Promise!Complete
    BY ONLY <2>7, <2>8, written' = written DEF Promise!Complete, whole
  <2> QED
    BY <1>3, <2>9 DEF Delivered, Promise!Next
<1>5. CASE native.phase = "shutdown" /\ native'.phase = "failed"
  <2>1. Status = "running" /\ Status' = "failed" /\ Units' = Units
    BY <1>1, <1>5 DEF Status, Finished
  <2>2. Promise!Break
    BY ONLY <2>1, written' = written DEF Promise!Break
  <2> QED
    BY <1>3, <2>2 DEF Delivered, Promise!Next
<1>6. CASE ~(native.phase = "shutdown" /\ native'.phase \in {"done", "failed"})
  <2>1. Status' = Status
    BY <1>6 DEF Stays, Status, Finished
  <2> QED
    BY <1>1, <1>3, <2>1 DEF Delivered, Promise!streamVars
<1> QED
  BY <1>4, <1>5, <1>6

(* Every step of the composition is a step of the promised stream or       *)
(* leaves it alone.                                                        *)
LEMMA DeliveryStep ==
    ASSUME NativeShape, Waits, Pictures, Sofar, [CaptureNext]_vars
    PROVE  Sofar' /\ Delivered
<1>1. Moves
  BY MovesStep
<1>2. CASE Write
  BY <1>2, WriteDelivers
<1>3. CASE written' = written /\ Stays
  BY <1>1, <1>3, StaysDelivers DEF Moves
<1>4. CASE written' = written /\ Fails
  <2>1. Units' = Units /\ Status' = Status
    BY <1>1, <1>4 DEF Moves, Fails, Units, Status, Finished
  <2> QED
    BY <1>4, <2>1 DEF Sofar, Fails, Delivered, Promise!streamVars
<1>5. CASE written' = written /\ EntersNextUnit
  <2>1. /\ Units' = Units /\ Status' = Status /\ native'.unit = native.unit + 1
        /\ native.phase = "dispose" /\ ~native.failed /\ native.pass = "capture"
        /\ native.unit < Len(Units) /\ native'.frame = Units[native.unit + 1].from
    BY <1>1, <1>5 DEF Moves, EntersNextUnit, Units, Status, Finished
  <2>2. native.frame = Unit.to
    BY <2>1 DEF NativeShape
  <2>3. /\ native.job \in Jobs /\ native.unit \in DOMAIN native.job.units
        /\ Unit = native.job.units[native.unit] /\ Units = native.job.units
        /\ Len(native.job.units) \in Nat /\ native.unit \in 1 .. Len(native.job.units)
    BY UnitFacts, JobFacts
  <2>4. native.unit + 1 \in DOMAIN native.job.units
    BY <2>1, <2>3, JobFacts
  <2>5. Unit' = Units[native.unit + 1] /\ Unit'.from \in Int
    BY <2>1, <2>3, <2>4, JobFacts DEF Unit
  <2>6. Len(FilmUpTo(Units)[native.unit]) = Len(FilmUpTo(Units)[native.unit - 1]) + (native.frame - Unit.from)
    BY <2>2, <2>3, UnitEnds
  <2>7. Len(written) = Len(FilmUpTo(Units)[native.unit])
    BY <2>1, <2>6 DEF Sofar
  <2>8. native'.unit - 1 = native.unit /\ native'.frame - Unit'.from = 0
    BY <2>1, <2>3, <2>5
  <2>9. Len(FilmUpTo(Units)[native.unit]) \in Nat
    BY <2>3, <2>4, UnitEnds
  <2>10. Len(written') = Len(FilmUpTo(Units')[native'.unit - 1]) + (native'.frame - Unit'.from)
    BY ONLY <1>5, <2>1, <2>7, <2>8, <2>9
  <2>11. Sofar'
    BY <1>5, <2>1, <2>10 DEF Sofar
  <2> QED
    BY <1>5, <2>1, <2>11 DEF Delivered, Promise!streamVars
<1> QED
  BY <1>1, <1>2, <1>3, <1>4, <1>5 DEF Moves

(* The invariant of the composition.                                       *)
CInv ==
    /\ RInv /\ NativeShape /\ Waits /\ PageAt /\ Begins /\ Ticks
    /\ ScreenType /\ Showing /\ Settles

(* The invariant holds in the beginning.                                   *)
LEMMA CaptureInitial == Init => CInv
<1> SUFFICES ASSUME Init PROVE CInv
  OBVIOUS
<1>1. RInv
  BY RuntimeInitial DEF Init
<1>2. PICK job \in Jobs :
        native = [job |-> job, phase |-> "navigate", pass |-> FirstPass(job.units[1]),
                  unit |-> 1, frame |-> job.units[1].from, failed |-> FALSE]
  BY DEF Init
<1>3. /\ 1 \in DOMAIN job.units /\ job.units[1].from \in Int /\ job.units[1].to \in Int
      /\ job.units[1].from < job.units[1].to
  BY JobFacts
<1>4. /\ native.job = job /\ native.phase = "navigate" /\ native.unit = 1
      /\ native.pass = FirstPass(job.units[1]) /\ native.frame = job.units[1].from
      /\ ~native.failed /\ Unit = job.units[1] /\ Units = job.units
  BY ONLY <1>2 DEF Unit, Units
<1>5. native \in NativeType
  BY <1>2, <1>3 DEF NativeType, Phases, FirstPass
<1>6. NativeShape
  BY ONLY <1>3, <1>4, <1>5 DEF NativeShape, FirstPass, Capturing
<1>7. /\ awaiting = None /\ answer = None /\ lastCapture = None /\ shot = None
      /\ previous = None /\ written = <<>> /\ screen = Blank /\ copied = None
      /\ shown = None /\ age = 0
      /\ clock = [initialized |-> FALSE, next |-> BaseTime, active |-> None, turn |-> <<-1, 0>>]
  BY DEF Init
<1>8. command = None /\ session.kind = "empty" /\ \A v \in Videos : video[v] = NoVideo
  BY DEF Init, RuntimeInit, FreshSession
<1>9. Waits
  BY ONLY <1>7, <1>8 DEF Waits
<1>10. PageAt
  BY ONLY <1>4, <1>7, <1>8 DEF PageAt, Answered
<1>11. Begins
  BY ONLY <1>4, <1>7 DEF Begins, Capturing
<1>12. Ticks
  <2>1. clock.turn = <<-1, 0>> /\ ~clock.initialized /\ clock.next = BaseTime
    BY ONLY <1>7
  <2>2. BaseTime \in Int
    BY SMT DEF BaseTime
  <2>3. clock \in ClockType
    BY ONLY <1>7, <2>2 DEF ClockType
  <2> QED
    BY ONLY <1>4, <2>1, <2>3 DEF Ticks, Capturing
<1>13. ScreenType
  <2>1. Blank \in PictureType
    BY DEF Blank, PictureType
  <2> QED
    BY ONLY <1>7, <2>1 DEF ScreenType
<1>14. Showing /\ Settles
  BY ONLY <1>4, <1>7 DEF Showing, Settles
<1> QED
  BY <1>1, <1>6, <1>9, <1>10, <1>11, <1>12, <1>13, <1>14 DEF CInv

(* Every step keeps it.                                                    *)
LEMMA CaptureStep ==
    ASSUME CInv, [CaptureNext]_vars
    PROVE  CInv'
BY RuntimeInvariantStep, NativeShapeStep, WaitsStep, PageAtStep, BeginsStep, TicksStep,
   ScreenTypeStep, ShowingStep, SettlesStep DEF CInv

(* The invariant of the composition holds, for any jobs, plans, videos,    *)
(* lag and failures.                                                       *)
THEOREM CaptureHolds == Spec => []CInv
<1>1. CInv /\ [CaptureNext]_vars => CInv'
  BY CaptureStep
<1> QED
  BY <1>1, CaptureInitial, PTL DEF Spec

(* Every variable of the native side and of the compositor keeps its type, *)
(* for any jobs.                                                           *)
THEOREM CaptureTypes == Spec => []CaptureTypeOK
<1>1. CInv => CaptureTypeOK
  BY DEF CInv, NativeShape, NativeType, ScreenType, CaptureTypeOK
<1> QED
  BY <1>1, CaptureHolds, PTL

(* CompositorClock never lets Chromium's time stand still or run           *)
(* backwards: not within a transaction, not when a frame fails half-way,   *)
(* and not when a target is navigated to the next unit.                    *)
THEOREM TicksAlwaysAdvance == Spec => []TicksAdvance
<1>1. CInv => TicksAdvance
  BY DEF CInv, Ticks, TicksAdvance
<1> QED
  BY <1>1, CaptureHolds, PTL

(* BrowserSession::navigate never replaces a page whose runtime has not    *)
(* released everything, two passes of one unit and units in sequence       *)
(* included.                                                               *)
THEOREM PagesAreDisposedHolds == Spec => PagesAreDisposed
<1>1. CInv => ((native.phase = "navigate" /\ native'.phase = "load" /\ session.kind # "empty")
                  => session.kind = "disposed" /\ command = None)
  BY DEF CInv, PageAt
<1> QED
  BY <1>1, CaptureHolds, PTL DEF Spec, PagesAreDisposed

(* What RuntimeSession promises of a page by itself it also keeps under    *)
(* the turns of a compositor, replaced pages and abandoned commands: a     *)
(* frame is reported ready only when exact, nothing outlives its command,  *)
(* and disposal releases everything.                                       *)
THEOREM PagesKeepTheirPromises ==
    Spec => [](FrameReadyIsExact /\ NothingOutlivesItsCommand /\ DisposalReleasesEverything)
<1>1. RInv => NothingOutlivesItsCommand
  BY DEF RInv, LInv, Serving, OInv, Working, Observing, Seeking, NothingOutlivesItsCommand
<1>2. RInv => DisposalReleasesEverything
  BY DEF RInv, LInv, LifecycleAgreement, Released, DisposalReleasesEverything
<1>3. CInv => FrameReadyIsExact /\ NothingOutlivesItsCommand /\ DisposalReleasesEverything
  BY <1>1, <1>2 DEF CInv, RInv
<1> QED
  BY <1>3, CaptureHolds, PTL

(* The refinement: what render_session hands to its sink is the film,      *)
(* frame by frame, with the picture the film shows at each, and success is *)
(* reported only of all of it; the safety half of DeliversTheFilm.         *)
(* Screenshots are taken without control over the compositor, which        *)
(* promises nothing about media then.                                      *)
THEOREM DeliversTheFilmSafely ==
    ASSUME ScreenshotsDecodeNothing
    PROVE  Spec => Promise!Delivery
<1>1. Init => Pictures /\ Sofar /\ Promise!Init
  <2> SUFFICES ASSUME Init PROVE Pictures /\ Sofar /\ Promise!Init
    OBVIOUS
  <2>1. CInv
    BY CaptureInitial
  <2>2. native.phase = "navigate" /\ native.unit = 1 /\ native.frame = Unit.from /\ written = <<>>
    BY DEF Init, Unit, Units
  <2>3. Pictures
    BY ONLY <2>2 DEF Pictures, Capturing
  <2>4. /\ native.job \in Jobs /\ Units = native.job.units /\ Len(Units) \in Nat
        /\ native.frame \in Int
    BY <2>1, UnitFacts, JobFacts DEF CInv
  <2>5. FilmUpTo(Units)[0] = <<>> /\ FilmUpTo(Units)[Len(Units)] \in Seq(FilmFrames(Units))
    <3>1. Len(Units) \in 0 .. Len(Units)
      BY <2>4
    <3> QED
      BY <2>4, <3>1, FilmGrows, FilmPrefix
  <2>6. BeginsWith(FilmUpTo(Units)[Len(Units)], written)
    <3> DEFINE whole == FilmUpTo(Units)[Len(Units)]
               S == FilmFrames(Units)
    <3>1. whole \in Seq(S)
      BY <2>5
    <3> HIDE DEF whole, S
    <3>2. BeginsWith(whole, written)
      BY ONLY <2>2, <3>1 DEF BeginsWith
    <3> QED
      BY <3>2 DEF whole
  <2>7. Len(written) = Len(FilmUpTo(Units)[native.unit - 1]) + (native.frame - Unit.from)
    <3>1. native.unit - 1 = 0 /\ native.frame - Unit.from = 0 /\ Len(written) = 0
      BY ONLY <2>2, <2>4
    <3> QED
      BY ONLY <2>2, <2>5, <3>1
  <2>8. Sofar
    BY <2>2, <2>6, <2>7 DEF Sofar
  <2>9. Promise!Init
    BY <2>2 DEF Promise!Init, Status, Finished
  <2> QED
    BY <2>3, <2>8, <2>9
<1>2. CInv /\ Pictures /\ Sofar /\ [CaptureNext]_vars => Pictures' /\ Sofar' /\ Delivered
  BY PicturesStep, DeliveryStep DEF CInv
<1> QED
  BY <1>1, <1>2, CaptureHolds, PTL DEF Spec, Promise!Delivery, Delivered
=============================================================================
