--------------------------- MODULE DesktopSource ---------------------------
(***************************************************************************)
(* The desktop frame source: PortalCapture::open and complete_portal_session *)
(* of src/capture/portal.rs, GStreamerFrameSource of                         *)
(* src/capture/gstreamer.rs (set-up and its undoing, the polling of          *)
(* next_frame with the hold of a static frame, shutdown, Drop), over the     *)
(* caps coordinator of OutputCaps.                                           *)
(*                                                                          *)
(* The portal, the bus and the streaming threads are external: they answer   *)
(* with anything the code handles.  A frame is its dimensions and the caps   *)
(* revision under which it was captured.  Each rebuilt pipeline has a        *)
(* coordinator of its own; a worker of the old one can reach nothing of the  *)
(* new, and a poll left behind by a dropped next_frame nothing at all.       *)
(***************************************************************************)
EXTENDS OutputCaps, FrameSource

CONSTANT NoFrame

Frames == [dimensions : Dimensions, since : 0..MaxCaps]
ASSUME NoFrameAssumption == NoFrame \notin Frames

VARIABLES
    session,      \* the portal session: "none", "open", "closed", "lost" (close failed)
    pipeline,     \* "none", "playing", "stopped", "stuck" (set_state(Null) failed)
    stage,        \* where the call under way is
    primary,      \* the error whose cleanup is under way
    bus,          \* oldest terminal message: "clear", "error", "eos"
    negotiated,   \* dimensions of the buffers behind the caps filter
    sample,       \* what the appsink holds, newest only
    polled,       \* the frame under way and the gate it was compared with first;
                  \* history: the newest upstream caps when the gate was read last for it
    last          \* last_frame

streamVars == <<bus, negotiated, sample>>
pollVars == <<polled, last>>
grantVars == <<session, pipeline>>
desktopVars == <<capsVars, grantVars, stage, primary, streamVars, pollVars>>

NoPoll == [frame |-> NoFrame, gate |-> Closed, caps |-> Unusable]

DesktopTypeOK ==
    /\ CapsTypeOK
    /\ session \in {"none", "open", "closed", "lost"}
    /\ pipeline \in {"none", "playing", "stopped", "stuck"}
    /\ stage \in {"idle", "connect", "create", "select", "start", "remote", "close",
                  "build", "undo", "bus", "pull", "accept", "recheck", "hold", "return",
                  "stop"}
    /\ primary \in Errors \cup {NoAnswer}
    /\ bus \in {"clear", "error", "eos"}
    /\ negotiated \in Dimensions
    /\ sample \in Frames \cup {NoFrame} /\ last \in Frames \cup {NoFrame}
    /\ polled \in [frame : Frames \cup {NoFrame}, gate : Dimensions \cup {Closed},
                   caps : Dimensions \cup {Unusable}]

DesktopInit ==
    /\ CapsInit
    /\ session = "none" /\ pipeline = "none"
    /\ stage = "idle" /\ primary = NoAnswer
    /\ bus = "clear" /\ negotiated = InitialDimensions /\ sample = NoFrame
    /\ polled = NoPoll /\ last = NoFrame

-----------------------------------------------------------------------------
(* PortalFrameSourceFactory::open, up to the grant: await by await.  Every   *)
(* error after create_session closes the session.                           *)

Goes(s) ==
    /\ stage' = s
    /\ UNCHANGED <<sourceVars, capsVars, streamVars, pollVars>>

Ends(a) == Reply(a) /\ stage' = "idle" /\ primary' = NoAnswer

OpenSession ==
    /\ Awaiting("open") /\ stage = "idle"
    /\ Goes("connect") /\ session' = "none" /\ pipeline' = "none"
    /\ UNCHANGED primary

Connected ==
    /\ stage = "connect"
    /\ \/ Goes("create") /\ UNCHANGED primary
       \/ Ends(Error("portal")) /\ UNCHANGED <<capsVars, streamVars, pollVars>>
    /\ UNCHANGED grantVars

Created ==
    /\ stage = "create"
    /\ \/ Goes("select") /\ session' = "open" /\ UNCHANGED primary
       \/ Ends(Error("portal")) /\ UNCHANGED <<session, capsVars, streamVars, pollVars>>
    /\ UNCHANGED pipeline

CloseAfter(kind) == Goes("close") /\ primary' = Error(kind)

Selected ==
    /\ stage = "select"
    /\ \/ Goes("start") /\ UNCHANGED primary
       \/ \E kind \in {"portal", "cancelled"} : CloseAfter(kind)
    /\ UNCHANGED grantVars

Started ==
    /\ stage = "start"
    /\ \/ Goes("remote") /\ UNCHANGED primary
       \/ \E kind \in {"portal", "cancelled", "streams"} : CloseAfter(kind)
    /\ UNCHANGED grantVars

RemoteOpened ==
    /\ stage = "remote"
    /\ \/ Goes("build") /\ UNCHANGED primary
       \/ CloseAfter("portal")
    /\ UNCHANGED grantVars

(* close_session, and the portal half of shutdown_resources.                *)
SessionClosed(s, failed) ==
    \/ s = "closed" /\ failed = FALSE
    \/ s = "lost" /\ failed = TRUE

ClosedAfterFailure ==
    /\ stage = "close"
    /\ \E failed \in BOOLEAN :
          /\ SessionClosed(session', failed)
          /\ Ends(IF failed THEN WithCleanupFailure(primary) ELSE primary)
    /\ UNCHANGED <<pipeline, capsVars, streamVars, pollVars>>

-----------------------------------------------------------------------------
(* GStreamerFrameSource::open.  Construction, assembly and start fail alike: *)
(* the pipeline is stopped, then the session closed.                         *)

FreshStream ==
    /\ upstream' = Unusable /\ revision' = 0 /\ pending' = NoUpdate
    /\ running' = FALSE /\ worker' = "idle" /\ update' = NoUpdate
    /\ filter' = InitialDimensions /\ expected' = Closed
    /\ bus' = "clear" /\ negotiated' = InitialDimensions /\ sample' = NoFrame
    /\ polled' = NoPoll /\ last' = NoFrame

BuildPipeline ==
    /\ stage = "build"
    /\ FreshStream /\ pipeline' = "playing"
    /\ Ends(Ok)
    /\ UNCHANGED session

BuildFails ==
    /\ stage = "build"
    /\ stage' = "undo" /\ primary' = Error("gstreamer")
    /\ pipeline' \in {"stopped", "stuck"}
    /\ UNCHANGED <<session, sourceVars, capsVars, streamVars, pollVars>>

UndoBuild ==
    /\ stage = "undo"
    /\ \E failed \in BOOLEAN :
          /\ SessionClosed(session', failed)
          /\ Ends(IF failed \/ pipeline = "stuck" THEN WithCleanupFailure(primary) ELSE primary)
    /\ UNCHANGED <<pipeline, capsVars, streamVars, pollVars>>

-----------------------------------------------------------------------------
(* next_frame: polls on blocking threads until one has a frame.              *)

(* A step of the poll that leaves the stream and the grant alone.            *)
Polls == UNCHANGED <<grantVars, primary, capsVars, negotiated>>

BeginPoll ==
    /\ Awaiting("next") /\ stage = "idle"
    /\ stage' = "bus"
    /\ Polls /\ UNCHANGED <<sourceVars, bus, sample, pollVars>>

(* terminal_pipeline_error pops the message.                                *)
Terminal ==
    /\ Reply(IF bus = "eos" THEN EndOfStream ELSE Error("pipeline"))
    /\ bus' = "clear" /\ stage' = "idle"

PollBus ==
    /\ stage = "bus"
    /\ IF bus # "clear" THEN Terminal
       ELSE stage' = "pull" /\ UNCHANGED <<sourceVars, bus>>
    /\ Polls /\ UNCHANGED <<sample, pollVars>>

(* try_pull_sample, the first load of the gate and the comparison; a sample  *)
(* that does not match is discarded.                                        *)
PullSample ==
    /\ stage = "pull" /\ sample # NoFrame
    /\ sample' = NoFrame
    /\ IF expected # Closed /\ sample.dimensions = expected
       THEN stage' = "accept" /\ polled' = [NoPoll EXCEPT !.frame = sample, !.gate = expected]
       ELSE stage' = "hold" /\ polled' = NoPoll
    /\ Polls /\ UNCHANGED <<sourceVars, bus, last>>

NoSample ==
    /\ stage = "pull" /\ sample = NoFrame
    /\ stage' = "recheck"
    /\ Polls /\ UNCHANGED <<sourceVars, bus, sample, pollVars>>

RecheckBus ==
    /\ stage = "recheck"
    /\ IF bus # "clear" THEN Terminal
       ELSE stage' = "hold" /\ UNCHANGED <<sourceVars, bus>>
    /\ Polls /\ UNCHANGED <<sample, pollVars>>

GateIgnored(gate) == TRUE    \* mutant: no second load of expected_dimensions

(* The pixels have been copied: the gate must not have moved meanwhile.      *)
SameGate(gate) == expected = gate

(* The second load, still on the blocking thread.                            *)
AcceptSample ==
    /\ stage = "accept"
    /\ IF SameGate(polled.gate)
       THEN stage' = "return" /\ polled' = [polled EXCEPT !.caps = upstream]
       ELSE stage' = "hold" /\ polled' = NoPoll
    /\ Polls /\ UNCHANGED <<sourceVars, bus, sample, last>>

(* The format or the layout of the sample is not what the code reads.        *)
SampleFails ==
    /\ stage = "accept"
    /\ Reply(Error("layout")) /\ stage' = "idle"
    /\ polled' = NoPoll
    /\ Polls /\ UNCHANGED <<bus, sample, last>>

MayHoldUngated(frame) == frame # NoFrame   \* mutant: held whatever the gate says

(* After 200 ms without a frame the last one is held, if it still fits.      *)
MayHold(frame) == frame # NoFrame /\ expected # Closed /\ frame.dimensions = expected

Hold ==
    /\ stage = "hold" /\ MayHold(last)
    /\ stage' = "return"
    /\ polled' = [frame |-> last, gate |-> expected, caps |-> upstream]
    /\ Polls /\ UNCHANGED <<sourceVars, bus, sample, last>>

(* The awaiting task stores the frame and returns it, and looks at the gate  *)
(* no more: the caps may have changed since a thread read it.                *)
ReturnFrame ==
    /\ stage = "return"
    /\ Reply(AFrame) /\ stage' = "idle"
    /\ last' = polled.frame /\ polled' = NoPoll
    /\ Polls /\ UNCHANGED <<bus, sample>>

PollAgain ==
    /\ stage = "hold"
    /\ stage' = "bus"
    /\ Polls /\ UNCHANGED <<sourceVars, bus, sample, pollVars>>

-----------------------------------------------------------------------------
(* shutdown_resources: what already succeeded is not repeated, both parts    *)
(* are tried.  The source is then dropped, which stops the pipeline again.   *)

StopPipeline ==
    /\ Awaiting("shutdown") /\ stage = "idle"
    /\ stage' = "stop"
    /\ pipeline' \in IF pipeline = "stopped" THEN {"stopped"} ELSE {"stopped", "stuck"}
    /\ UNCHANGED <<session, primary, sourceVars, capsVars, streamVars, pollVars>>

ClosePortal ==
    /\ stage = "stop"
    /\ IF session = "closed" THEN UNCHANGED session ELSE session' \in {"closed", "lost"}
    /\ Ends(IF session' = "closed" /\ pipeline = "stopped" THEN Ok ELSE Error("shutdown"))
    /\ pipeline' \in IF pipeline = "stuck" THEN {"stopped", "stuck"} ELSE {pipeline}
    /\ UNCHANGED <<capsVars, streamVars, pollVars>>

(* What is dropped with the future: the source itself when it was being      *)
(* opened or shut down (its Drop stops the pipeline but closes no session),  *)
(* nothing when the future was next_frame's.  The steps from the grant to    *)
(* the pipeline and from the call of shutdown to close_portal await nothing. *)
DesktopDropped ==
    /\ answer = NoAnswer /\ stage \notin {"idle", "build"}
    /\ stage' = "idle" /\ primary' = NoAnswer /\ polled' = NoPoll
    /\ pipeline' \in IF call = "shutdown" /\ pipeline # "stopped"
                     THEN {"stopped", "stuck"} ELSE {pipeline}
    /\ UNCHANGED <<session, capsVars, streamVars, last>>

-----------------------------------------------------------------------------
(* The streaming threads, while the pipeline plays.                          *)

Streams(step) ==
    /\ pipeline = "playing" /\ step
    /\ UNCHANGED <<sourceVars, grantVars, stage, primary, pollVars>>

UpstreamCaps ==
    Streams(/\ \E d \in Dimensions : Request(d)
            /\ UNCHANGED streamVars)

(* The probe drops the event and posts an error.                            *)
UnusableCaps ==
    Streams(/\ Invalidate
            /\ bus' = IF bus = "clear" THEN "error" ELSE bus
            /\ UNCHANGED <<negotiated, sample>>)

InstallCaps == Streams(Drain /\ UNCHANGED streamVars)

(* The filter takes its new caps up with some later buffer (delayed mode).   *)
Buffer ==
    Streams(/\ upstream # Unusable
            /\ negotiated' \in {negotiated, filter}
            /\ sample' = [dimensions |-> negotiated', since |-> revision]
            /\ UNCHANGED <<bus, capsVars>>)

PipelineEnds ==
    Streams(/\ bus = "clear" /\ bus' \in {"error", "eos"}
            /\ UNCHANGED <<negotiated, sample, capsVars>>)

OpenStep == OpenSession \/ Connected \/ Created \/ Selected \/ Started \/ RemoteOpened
            \/ ClosedAfterFailure \/ BuildPipeline \/ BuildFails \/ UndoBuild
NextFrameStep == BeginPoll \/ PollBus \/ PullSample \/ NoSample \/ RecheckBus
                 \/ AcceptSample \/ SampleFails \/ Hold \/ PollAgain \/ ReturnFrame
ShutdownStep == StopPipeline \/ ClosePortal
DesktopStep == OpenStep \/ NextFrameStep \/ ShutdownStep
StreamStep == UpstreamCaps \/ UnusableCaps \/ InstallCaps \/ Buffer \/ PipelineEnds

DesktopCapturing == session = "open" \/ pipeline = "playing"
=============================================================================
