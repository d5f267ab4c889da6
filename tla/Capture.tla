------------------------------ MODULE Capture ------------------------------
(***************************************************************************)
(* The engine's capture task over RecoveringFrameSource (src/engine.rs) with *)
(* the source factories of run_engine_backend (src/service/runtime.rs): a    *)
(* source is opened lazily, a failed one is shut down and, if the factory    *)
(* says so, opened again after a backoff; cancellation drops the future of   *)
(* next_frame wherever it waits and shuts down the source that is installed. *)
(*                                                                          *)
(* The backend is chosen once.  Time is a free choice: a backoff ends at any *)
(* time.  The recovery counters and RetryBackoff's delays are left out (the  *)
(* delays are in RecoveringSink), and retry_cancellation, which only         *)
(* shutdown sets, when no backoff can be waiting.                            *)
(***************************************************************************)
EXTENDS DesktopSource, GamescopeSource

CONSTANT Backends
ASSUME BackendsAssumption == Backends \subseteq {"desktop", "gamescope"}

VARIABLES
    backend,
    at,          \* where the task is
    current,     \* RecoveringFrameSource.current is Some
    hasOpened,   \* PortalFrameSourceFactory.has_opened
    retrying,    \* what should_retry said of the error being handled
    cancelled,   \* the engine has set capture_cancel
    refused,     \* history: the user cancelled the portal's dialog
    cut          \* history: the future dropped was opening or closing a source

taskVars == <<backend, at, current, hasOpened, retrying, cancelled, refused, cut>>
vars == <<sourceVars, desktopVars, gamescopeVars, taskVars>>

TypeOK ==
    /\ SourceTypeOK /\ DesktopTypeOK /\ GamescopeTypeOK
    /\ backend \in Backends
    /\ at \in {"connect", "opening", "reading", "retiring", "backoff", "close", "closing", "ended"}
    /\ current \in BOOLEAN /\ hasOpened \in BOOLEAN /\ retrying \in BOOLEAN
    /\ cancelled \in BOOLEAN /\ refused \in BOOLEAN /\ cut \in BOOLEAN

Init ==
    /\ SourceInit /\ DesktopInit /\ GamescopeInit
    /\ backend \in Backends
    /\ at = "connect"
    /\ current = FALSE /\ hasOpened = FALSE /\ retrying = FALSE
    /\ cancelled = FALSE /\ refused = FALSE /\ cut = FALSE

-----------------------------------------------------------------------------
(* RecoveringFrameSource::next_frame and connect, called again and again.    *)
(* The task's select looks at the cancellation before it calls.             *)

Task == UNCHANGED <<desktopVars, gamescopeVars, backend, cancelled, cut>>

Connect ==
    /\ at = "connect" /\ ~cancelled
    /\ IF current THEN at' = "reading" /\ Begin("next")
                  ELSE at' = "opening" /\ Begin("open")
    /\ Task /\ UNCHANGED <<current, hasOpened, retrying, refused>>

Opened ==
    /\ at = "opening" /\ answer = Ok
    /\ Taken /\ at' = "connect"
    /\ current' = TRUE /\ hasOpened' = TRUE
    /\ Task /\ UNCHANGED <<retrying, refused>>

ShouldRetry(error) == IF backend = "desktop" THEN PortalShouldRetry(error, hasOpened)
                                             ELSE GamescopeShouldRetry(error)

OpenFails ==
    /\ at = "opening" /\ answer.is = "error"
    /\ Taken
    /\ at' = IF ShouldRetry(answer) THEN "backoff" ELSE "close"
    /\ refused' = (refused \/ answer.kind = "cancelled")
    /\ Task /\ UNCHANGED <<current, hasOpened, retrying>>

Returned ==
    /\ at = "reading" /\ answer.is \in {"frame", "end"}
    /\ Taken
    /\ at' = IF answer.is = "frame" THEN "connect" ELSE "close"
    /\ Task /\ UNCHANGED <<current, hasOpened, retrying, refused>>

ReadFailsReopens ==    \* mutant: the failed source is dropped without a shutdown
    /\ at = "reading" /\ answer.is = "error"
    /\ Taken
    /\ at' = IF ShouldRetry(answer) THEN "backoff" ELSE "close"
    /\ current' = FALSE
    /\ Task /\ UNCHANGED <<hasOpened, retrying, refused>>

(* The failed source is taken out and shut down, whatever comes next.        *)
ReadFails ==
    /\ at = "reading" /\ answer.is = "error"
    /\ Begin("shutdown")
    /\ at' = "retiring" /\ current' = FALSE
    /\ retrying' = ShouldRetry(answer)
    /\ Task /\ UNCHANGED <<hasOpened, refused>>

Retired ==
    /\ at = "retiring" /\ answer # NoAnswer
    /\ Taken
    /\ at' = IF retrying THEN "backoff" ELSE "close"
    /\ Task /\ UNCHANGED <<current, hasOpened, retrying, refused>>

BackoffOver ==
    /\ at = "backoff"
    /\ at' = "connect"
    /\ Task /\ UNCHANGED <<sourceVars, current, hasOpened, retrying, refused>>

-----------------------------------------------------------------------------
(* Cancellation, and shutdown after it, after the end or after an error.     *)

Cancel ==
    /\ ~cancelled /\ at # "ended"
    /\ cancelled' = TRUE
    /\ UNCHANGED <<sourceVars, desktopVars, gamescopeVars, backend, at, current,
                   hasOpened, retrying, refused, cut>>

DropNext ==
    /\ cancelled
    /\ \/ /\ at \in {"opening", "reading", "retiring"}
          /\ IF backend = "desktop" THEN DesktopDropped /\ UNCHANGED gamescopeVars
                                    ELSE GamescopeDropped /\ UNCHANGED desktopVars
       \/ /\ at \in {"connect", "backoff"}
          /\ UNCHANGED <<desktopVars, gamescopeVars>>
    /\ cut' = (at \in {"opening", "retiring"})
    /\ at' = "close" /\ Taken
    /\ UNCHANGED <<backend, current, hasOpened, retrying, cancelled, refused>>

CloseDropsSource ==    \* mutant: the installed source is dropped, not shut down
    /\ at = "close"
    /\ at' = "ended" /\ current' = FALSE
    /\ Task /\ UNCHANGED <<sourceVars, hasOpened, retrying, refused>>
Close ==
    /\ at = "close"
    /\ IF current THEN at' = "closing" /\ Begin("shutdown")
                  ELSE at' = "ended" /\ UNCHANGED sourceVars
    /\ current' = FALSE
    /\ Task /\ UNCHANGED <<hasOpened, retrying, refused>>

CloseReturns ==
    /\ at = "closing" /\ answer # NoAnswer
    /\ Taken /\ at' = "ended"
    /\ Task /\ UNCHANGED <<current, hasOpened, retrying, refused>>

-----------------------------------------------------------------------------
TaskStep == Connect \/ Opened \/ OpenFails \/ Returned \/ ReadFails \/ Retired
            \/ BackoffOver \/ Close \/ CloseReturns

Desktop(step) == backend = "desktop" /\ step /\ UNCHANGED <<gamescopeVars, taskVars>>
Gamescope(step) == backend = "gamescope" /\ step /\ UNCHANGED <<desktopVars, taskVars>>

Next == \/ TaskStep \/ Cancel \/ DropNext
        \/ Desktop(DesktopStep) \/ Desktop(StreamStep)
        \/ Gamescope(GamescopeStep) \/ Gamescope(WorkerStep) \/ Gamescope(GamescopeEvent)

Spec == Init /\ [][Next]_vars

(* The task is scheduled, calls of the portal and of PipeWire return, and    *)
(* threads run.  Neither the events of the streams nor time is fair.         *)
Fairness ==
    /\ WF_vars(TaskStep) /\ WF_vars(DropNext)
    /\ WF_vars(Desktop(DesktopStep)) /\ WF_vars(Gamescope(GamescopeStep))
    /\ WF_vars(Gamescope(WorkerStep)) /\ WF_vars(Desktop(InstallCaps))

FairSpec == Spec /\ Fairness

-----------------------------------------------------------------------------
Capturing == DesktopCapturing \/ GamescopeCapturing

(* A failed source has been shut down before the next one is opened, and     *)
(* when the task ends nothing captures the screen: no portal session, no     *)
(* pipeline, no PipeWire thread, unless the future that was dropped was      *)
(* opening or closing a source at that moment.  A session whose close failed *)
(* and a pipeline that will not stop are not counted.  Checked with the      *)
(* types.                                                                    *)
NothingLeftBehind ==
    /\ TypeOK
    /\ ~current /\ ~cut /\ at \in {"connect", "backoff", "ended"} => ~Capturing

(* docs/architecture.md: FrameSource::shutdown on teardown, always;          *)
(* docs/capture-backends.md: Drop sends Stop at least.                       *)
EndedMeansClosed ==
    at = "ended" => /\ ~DesktopCapturing
                    /\ thread = "loop" => stop

(* A user who cancels the portal's dialog is not asked again, even if        *)
(* closing the session fails as well and the error comes wrapped.            *)
RefusalIsFinal == [][refused => ~(call # "open" /\ call' = "open")]_vars

FrameReturned == call = "next" /\ answer = NoAnswer /\ answer' = AFrame

(* Every desktop frame the engine gets, captured or held, had the dimensions *)
(* of the newest upstream caps when the gate was last read for it: by the    *)
(* blocking thread after the copy of its pixels, or by held_frame.  The gate *)
(* is read without the coordinator's lock, while caps are being installed; a *)
(* caps event after that reading may find the frame on its way.              *)
FramesFollowCaps ==
    [][backend = "desktop" /\ FrameReturned => last'.dimensions = polled.caps]_vars

(* docs/capture-backends.md:148: a "Resolution/caps change" has to           *)
(* "invalidate hold".  A frame is held only if no caps event has come since  *)
(* it was captured.                                                          *)
HoldEndsWithCaps ==
    [][backend = "desktop" /\ stage = "hold" /\ stage' = "return" => last.since = revision]_vars

(* Cancellation ends the task, whatever it was waiting for.                  *)
CaptureStops == cancelled ~> at = "ended"
=============================================================================
