--------------------------- MODULE CaptureProofs ---------------------------
(***************************************************************************)
(* From the screen to the colours.  The gate of the desktop source: whatever *)
(* the streaming threads, the caps worker, the polls and the recovering      *)
(* source do, frames pass only under the newest upstream caps and no caps    *)
(* event is lost (CapsInv).  The life cycle of the sources: nothing that was *)
(* opened is left behind, and a refusal is final (Lifecycle).  Then the      *)
(* operators that decode, mask and sample a frame, for frames of every size. *)
(***************************************************************************)
EXTENDS SampledFrames, FiniteSetTheorems, TLAPS

(* What the caps coordinator keeps true, by its parts.                       *)
RunningIsWorker == running \in BOOLEAN /\ (running => worker # "idle") /\ (~running => worker = "idle")
CapsKnown ==
    /\ upstream \in Dimensions \cup {Unusable}
    /\ revision \in 0..MaxCaps
    /\ pending \in Updates \cup {NoUpdate}
    /\ worker \in {"idle", "take", "install", "commit"}
    /\ update \in Updates \cup {NoUpdate}
    /\ filter \in Dimensions
    /\ expected \in Dimensions \cup {Closed}
PendingIsNewest ==
    pending # NoUpdate =>
        pending.revision = revision /\ pending.dimensions = upstream /\ worker # "idle"
WorkIsKnown == worker \in {"install", "commit"} => update # NoUpdate
UpdateIsOld ==
    worker \in {"install", "commit"} =>
        /\ update.revision <= revision
        /\ update.revision = revision => pending = NoUpdate /\ update.dimensions = upstream
        /\ update.revision # revision => pending # NoUpdate \/ upstream = Unusable
TakeHasWork == worker = "take" => pending # NoUpdate \/ upstream = Unusable
Installed == worker = "commit" => filter = update.dimensions
GateIsIdle ==
    expected # Closed => expected = upstream /\ filter = expected /\ worker = "idle"
IdleIsDone == worker = "idle" /\ upstream # Unusable => expected = upstream /\ filter = upstream

CapsOrder ==
    /\ CapsKnown /\ PendingIsNewest /\ WorkIsKnown /\ UpdateIsOld
    /\ TakeHasWork /\ Installed /\ GateIsIdle /\ IdleIsDone
CapsInv == RunningIsWorker /\ CapsOrder

(* A source starts, and starts again after each rebuild, with it.            *)
LEMMA CapsInitInv == CapsInit => CapsInv
  <1> SUFFICES ASSUME CapsInit PROVE CapsInv
    OBVIOUS
  <1>1. RunningIsWorker
    BY Zenon DEF CapsInit, RunningIsWorker
  <1>2. CapsOrder
    BY CapsAssumption, SMT DEF CapsInit, CapsOrder, CapsKnown, PendingIsNewest,
       WorkIsKnown, UpdateIsOld, TakeHasWork, Installed, GateIsIdle, IdleIsDone
  <1> QED BY <1>1, <1>2 DEF CapsInv

(* The flag says whether a worker runs, at every step.                       *)
LEMMA RunningStep == RunningIsWorker /\ CapsKnown /\ CapsNext => RunningIsWorker'
  <1> SUFFICES ASSUME RunningIsWorker, CapsKnown, CapsNext PROVE RunningIsWorker'
    OBVIOUS
  <1> USE DEF RunningIsWorker, CapsKnown
  <1>1. ASSUME NEW d \in Dimensions, Request(d) PROVE RunningIsWorker'
    <2>1. running' = TRUE /\ worker' = IF running THEN worker ELSE "take"
      BY <1>1, Zenon DEF Request
    <2>2. worker' # "idle"
      BY <2>1, Zenon
    <2> QED BY <2>1, <2>2, Zenon
  <1>2. CASE Invalidate
    BY <1>2, Zenon DEF Invalidate
  <1>3. CASE DrainTake
    BY <1>3, Zenon DEF DrainTake
  <1>4. CASE DrainInstall
    BY <1>4, Zenon DEF DrainInstall
  <1>5. CASE DrainCommit
    BY <1>5, Zenon DEF DrainCommit
  <1> QED BY <1>1, <1>2, <1>3, <1>4, <1>5 DEF CapsNext, Drain

(* No step of the probe or of the worker breaks the order of the updates.    *)
LEMMA CapsOrderStep == CapsInv /\ CapsNext => CapsOrder'
  <1> SUFFICES ASSUME CapsInv, CapsNext PROVE CapsOrder'
    OBVIOUS
  <1> USE CapsAssumption, NoUpdateAssumption DEF CapsOrder, CapsKnown, PendingIsNewest,
        WorkIsKnown, UpdateIsOld, TakeHasWork, Installed, GateIsIdle, IdleIsDone, Updates
  <1>1. ASSUME NEW d \in Dimensions, Request(d) PROVE CapsOrder'
    <2>1. worker' = IF worker = "idle" THEN "take" ELSE worker
      BY <1>1, Zenon DEF Request, CapsInv, RunningIsWorker
    <2>2. /\ upstream' = d /\ revision' = revision + 1 /\ revision < MaxCaps
          /\ pending' = [revision |-> revision + 1, dimensions |-> d]
          /\ expected' = Closed /\ update' = update /\ filter' = filter
      BY <1>1 DEF Request, Shut
    <2>3. pending' \in Updates
      BY <2>2, SMT DEF CapsInv
    <2> QED BY <2>1, <2>2, <2>3, SMT DEF CapsInv
  <1>2. CASE Invalidate
    BY <1>2, SMT DEF Invalidate, CapsInv
  <1>3. CASE DrainTake
    <2>1. CASE pending = NoUpdate
      <3>1. /\ worker' = "idle" /\ update' = NoUpdate /\ pending' = NoUpdate
            /\ UNCHANGED <<upstream, revision, filter, expected>> /\ worker = "take"
        BY <1>3, <2>1, Zenon DEF DrainTake
      <3> QED BY <2>1, <3>1, SMT DEF CapsInv
    <2>2. CASE pending # NoUpdate
      <3>1. /\ worker' = "install" /\ update' = pending /\ pending' = NoUpdate
            /\ UNCHANGED <<upstream, revision, filter, expected>> /\ worker = "take"
        BY <1>3, <2>2, Zenon DEF DrainTake
      <3> QED BY <2>2, <3>1, SMT DEF CapsInv
    <2> QED BY <2>1, <2>2
  <1>4. CASE DrainInstall
    BY <1>4, SMT DEF DrainInstall, CapsInv
  <1>5. CASE DrainCommit
    <2>0. worker = "commit" /\ update' = NoUpdate
          /\ UNCHANGED <<upstream, revision, pending, filter>>
      BY <1>5, Zenon DEF DrainCommit
    <2>1. CASE Newest(update)
      <3>1. expected' = update.dimensions /\ worker' = "idle"
        BY <1>5, <2>1, Zenon DEF DrainCommit
      <3> QED BY <2>0, <2>1, <3>1, SMT DEF CapsInv, Newest
    <2>2. CASE ~Newest(update) /\ pending # NoUpdate
      <3>1. expected' = expected /\ worker' = "take"
        BY <1>5, <2>2, Zenon DEF DrainCommit
      <3> QED BY <2>0, <2>2, <3>1, SMT DEF CapsInv, Newest
    <2>3. CASE ~Newest(update) /\ pending = NoUpdate
      <3>1. expected' = expected /\ worker' = "idle"
        BY <1>5, <2>3, Zenon DEF DrainCommit
      <3> QED BY <2>0, <2>3, <3>1, SMT DEF CapsInv, Newest
    <2> QED BY <2>1, <2>2, <2>3
  <1> QED BY <1>1, <1>2, <1>3, <1>4, <1>5 DEF CapsNext, Drain

LEMMA CapsStepInv == CapsInv /\ CapsNext => CapsInv'
  BY RunningStep, CapsOrderStep DEF CapsInv, CapsOrder

-----------------------------------------------------------------------------
(* What polled may be.                                                       *)
Polled == [frame : Frames \cup {NoFrame}, gate : Dimensions \cup {Closed},
           caps : Dimensions \cup {Unusable}]

(* The poll of next_frame: a sample being copied matched an open gate, and a *)
(* frame on its way to the engine the caps of when its gate was read last.   *)
PollInv ==
    /\ stage = "accept" => polled.gate # Closed /\ polled.frame.dimensions = polled.gate
    /\ stage = "return" => polled.frame.dimensions = polled.caps

(* Of all the steps of the program, those of the probe and of the worker     *)
(* change the caps, and the start of a pipeline resets them.                 *)
LEMMA CapsSteps == [Next]_vars => CapsNext \/ CapsInit' \/ UNCHANGED capsVars
  <1> SUFFICES ASSUME [Next]_vars PROVE CapsNext \/ CapsInit' \/ UNCHANGED capsVars
    OBVIOUS
  <1>1. CASE TaskStep
    BY <1>1, Zenon DEF TaskStep, Connect, Opened, OpenFails, Returned, ReadFails, Retired,
       BackoffOver, Close, CloseReturns, Task, desktopVars
  <1>2. CASE Cancel
    BY <1>2, Zenon DEF Cancel, desktopVars
  <1>3. CASE DropNext
    BY <1>3, Zenon DEF DropNext, DesktopDropped, desktopVars
  <1>4. CASE Desktop(OpenStep)
    <2>1. CASE BuildPipeline
      BY <2>1, Zenon DEF BuildPipeline, FreshStream, CapsInit
    <2> QED BY <1>4, <2>1, Zenon DEF Desktop, OpenStep, OpenSession, Connected, Created, Selected,
         Started, RemoteOpened, ClosedAfterFailure, BuildFails, UndoBuild, Goes, CloseAfter
  <1>5. CASE Desktop(NextFrameStep)
    BY <1>5, Zenon DEF Desktop, NextFrameStep, BeginPoll, PollBus, PullSample, NoSample,
       RecheckBus, AcceptSample, SampleFails, Hold, PollAgain, ReturnFrame, Polls
  <1>6. CASE Desktop(ShutdownStep)
    BY <1>6, Zenon DEF Desktop, ShutdownStep, StopPipeline, ClosePortal
  <1>7. CASE Desktop(StreamStep)
    <2>1. CASE \E d \in Dimensions : Request(d)
      BY <2>1 DEF CapsNext
    <2>2. CASE Invalidate
      BY <2>2 DEF CapsNext
    <2>3. CASE Drain
      BY <2>3 DEF CapsNext
    <2> QED BY <1>7, <2>1, <2>2, <2>3, Zenon DEF Desktop, StreamStep, UpstreamCaps, UnusableCaps,
         InstallCaps, Buffer, PipelineEnds, Streams
  <1>8. CASE backend = "gamescope" /\ UNCHANGED <<desktopVars, taskVars>>
    BY <1>8, Zenon DEF desktopVars
  <1>9. CASE UNCHANGED vars
    BY <1>9, Zenon DEF vars, desktopVars
  <1> QED BY <1>1, <1>2, <1>3, <1>4, <1>5, <1>6, <1>7, <1>8, <1>9 DEF Next, Desktop, DesktopStep, Gamescope

(* Only PullSample leads to the copy of a sample, and only the two readings  *)
(* of the gate that found it open to the return.                             *)
LEMMA PollStep == CapsInv /\ PollInv /\ [Next]_vars => PollInv'
  <1> SUFFICES ASSUME CapsInv, PollInv, [Next]_vars PROVE PollInv'
    OBVIOUS
  <1>0. ASSUME stage' \notin {"accept", "return"} PROVE PollInv'
    BY <1>0 DEF PollInv
  <1>1. CASE PullSample
    <2>1. CASE stage' = "accept"
      <3>1. /\ expected # Closed /\ sample.dimensions = expected
            /\ polled' = [NoPoll EXCEPT !.frame = sample, !.gate = expected]
        BY <1>1, <2>1 DEF PullSample
      <3>2. polled'.frame = sample /\ polled'.gate = expected
        BY <3>1 DEF NoPoll
      <3> QED BY <2>1, <3>1, <3>2 DEF PollInv
    <2> QED BY <1>0, <1>1, <2>1 DEF PullSample
  <1>2. CASE UNCHANGED <<stage, polled>>
    BY <1>2, Zenon DEF PollInv
  <1>9. CASE AcceptSample
    <2>1. CASE stage' = "return"
      <3>1. /\ stage = "accept" /\ expected = polled.gate
            /\ polled' = [polled EXCEPT !.caps = upstream]
        BY <1>9, <2>1 DEF AcceptSample, SameGate
      <3>2. polled.frame.dimensions = upstream
        BY <3>1, Zenon DEF PollInv, CapsInv, CapsOrder, GateIsIdle
      <3> QED BY <2>1, <3>1, <3>2 DEF PollInv
    <2> QED BY <1>0, <1>9, <2>1 DEF AcceptSample
  <1>10. CASE Hold
    <2>1. /\ stage' = "return" /\ MayHold(last)
          /\ polled' = [frame |-> last, gate |-> expected, caps |-> upstream]
      BY <1>10 DEF Hold
    <2>2. last.dimensions = upstream
      BY <2>1, Zenon DEF MayHold, CapsInv, CapsOrder, GateIsIdle
    <2> QED BY <2>1, <2>2 DEF PollInv
  <1>3. CASE TaskStep \/ Cancel \/ UNCHANGED vars
        \/ (backend = "gamescope" /\ UNCHANGED <<desktopVars, taskVars>>)
    BY <1>2, <1>3, Zenon DEF TaskStep, Connect, Opened, OpenFails, Returned, ReadFails, Retired,
       BackoffOver, Close, CloseReturns, Cancel, Task, vars, desktopVars, pollVars
  <1>4. CASE DropNext
    BY <1>0, <1>2, <1>4 DEF DropNext, DesktopDropped, desktopVars, pollVars
  <1>5. CASE Desktop(OpenStep)
    BY <1>0, <1>5 DEF Desktop, OpenStep, OpenSession, Connected, Created, Selected,
         Started, RemoteOpened, ClosedAfterFailure, BuildPipeline, BuildFails, UndoBuild,
         Goes, CloseAfter, Ends
  <1>6. CASE BeginPoll \/ PollBus \/ NoSample \/ RecheckBus \/ SampleFails \/ PollAgain
        \/ ReturnFrame
    BY <1>0, <1>6 DEF BeginPoll, PollBus, NoSample, RecheckBus, SampleFails, PollAgain,
       ReturnFrame, Terminal
  <1>7. CASE Desktop(ShutdownStep)
    BY <1>0, <1>7 DEF Desktop, ShutdownStep, StopPipeline, ClosePortal, Ends
  <1>8. CASE Desktop(StreamStep)
    BY <1>2, <1>8, Zenon DEF Desktop, StreamStep, UpstreamCaps, UnusableCaps,
         InstallCaps, Buffer, PipelineEnds, Streams, pollVars
  <1> QED BY <1>1, <1>3, <1>4, <1>5, <1>6, <1>7, <1>8, <1>9, <1>10
          DEF Next, Desktop, DesktopStep, NextFrameStep, Gamescope

-----------------------------------------------------------------------------
(* The gate is open only while the newest upstream caps are installed, and   *)
(* every caps event is installed before the worker leaves, for any number of *)
(* caps events and dimensions and for either backend.                        *)
THEOREM CapsInvariant == Spec => []CapsInv
  <1>1. Init => CapsInv
    BY CapsInitInv DEF Init, DesktopInit
  <1>2. CapsInv /\ [Next]_vars => CapsInv'
    <2> SUFFICES ASSUME CapsInv, [Next]_vars PROVE CapsInv'
      OBVIOUS
    <2>1. CASE CapsNext
      BY <2>1, CapsStepInv
    <2>2. CASE CapsInit'
      BY <2>2, CapsInitInv, PTL
    <2>3. CASE UNCHANGED capsVars
      BY <2>3, Zenon DEF capsVars, CapsInv, RunningIsWorker, CapsOrder, CapsKnown, PendingIsNewest,
         WorkIsKnown, UpdateIsOld, TakeHasWork, Installed, GateIsIdle, IdleIsDone
    <2> QED BY <2>1, <2>2, <2>3, CapsSteps
  <1> QED BY <1>1, <1>2, PTL DEF Spec

THEOREM GateIsNewest == Spec => []GateFollowsCaps
  <1>1. CapsInv => GateFollowsCaps
    BY DEF CapsInv, CapsOrder, GateIsIdle, GateFollowsCaps
  <1> QED BY <1>1, CapsInvariant, PTL

THEOREM CapsAreInstalled == Spec => []NoCapsLost
  <1>1. CapsInv => NoCapsLost
    BY Zenon DEF CapsInv, CapsOrder, RunningIsWorker, IdleIsDone, NoCapsLost
  <1> QED BY <1>1, CapsInvariant, PTL

-----------------------------------------------------------------------------
(* What undoes a set-up has an error to report, never a frame.               *)
PrimaryInv == stage \in {"close", "undo"} => primary \in Errors

LEMMA PrimaryStep == PrimaryInv /\ [Next]_vars => PrimaryInv'
  <1> SUFFICES ASSUME PrimaryInv, [Next]_vars, stage' \in {"close", "undo"}
               PROVE  primary' \in Errors
    BY DEF PrimaryInv
  <1>1. ASSUME NEW kind \in ErrorKinds, primary' = Error(kind) PROVE primary' \in Errors
    BY <1>1 DEF Error, Errors
  <1>2. CASE stage \in {"close", "undo"} /\ UNCHANGED <<stage, primary>>
    BY <1>2 DEF PrimaryInv
  <1>3. CASE TaskStep \/ Cancel \/ UNCHANGED vars
        \/ (backend = "gamescope" /\ UNCHANGED <<desktopVars, taskVars>>)
    BY <1>2, <1>3, Zenon DEF TaskStep, Connect, Opened, OpenFails, Returned, ReadFails, Retired,
       BackoffOver, Close, CloseReturns, Cancel, Task, vars, desktopVars
  <1>4. CASE DropNext
    BY <1>2, <1>4 DEF DropNext, DesktopDropped, desktopVars
  <1>5. CASE Desktop(OpenStep)
    BY <1>1, <1>5 DEF Desktop, OpenStep, OpenSession, Connected, Created, Selected,
         Started, RemoteOpened, ClosedAfterFailure, BuildPipeline, BuildFails, UndoBuild,
         Goes, CloseAfter, Ends, ErrorKinds
  <1>6. CASE Desktop(NextFrameStep)
    BY <1>6 DEF Desktop, NextFrameStep, BeginPoll, PollBus, PullSample, NoSample,
       RecheckBus, AcceptSample, SampleFails, Hold, PollAgain, ReturnFrame, Terminal
  <1>7. CASE Desktop(ShutdownStep)
    BY <1>7 DEF Desktop, ShutdownStep, StopPipeline, ClosePortal, Ends
  <1>8. CASE Desktop(StreamStep)
    BY <1>2, <1>8, Zenon DEF Desktop, StreamStep, UpstreamCaps, UnusableCaps,
         InstallCaps, Buffer, PipelineEnds, Streams
  <1> QED BY <1>3, <1>4, <1>5, <1>6, <1>7, <1>8 DEF Next, Desktop, DesktopStep, Gamescope

(* One step gives a desktop frame; no other answer is one.                   *)
LEMMA OnlyFrames ==
    PrimaryInv /\ [Next]_vars /\ FrameReturned => ReturnFrame \/ backend = "gamescope"
  <1> SUFFICES ASSUME PrimaryInv, [Next]_vars, FrameReturned, backend # "gamescope", ~ReturnFrame
               PROVE  FALSE
    OBVIOUS
  <1>0. answer = NoAnswer /\ answer' = AFrame /\ AFrame.is = "frame" /\ NoAnswer.is = "none"
        /\ AFrame # Ok /\ AFrame # EndOfStream /\ AFrame # NoAnswer
    BY DEF FrameReturned, NoAnswer, AFrame, Ok, EndOfStream
  <1>1. ASSUME NEW kind PROVE Error(kind) # AFrame
    BY DEF Error, AFrame
  <1>2. ASSUME NEW error \in Errors PROVE error # AFrame /\ WithCleanupFailure(error) # AFrame
    BY DEF Errors, AFrame, WithCleanupFailure
  <1>3. CASE TaskStep \/ Cancel \/ UNCHANGED vars
    BY <1>0, <1>3, Zenon DEF TaskStep, Connect, Opened, OpenFails, Returned, ReadFails, Retired,
       BackoffOver, Close, CloseReturns, Cancel, Taken, Begin, vars, sourceVars
  <1>4. CASE DropNext
    BY <1>0, <1>4, Zenon DEF DropNext, Taken
  <1>5. CASE Desktop(OpenStep)
    <2>1. CASE ClosedAfterFailure \/ UndoBuild
      BY <1>0, <1>2, <2>1 DEF ClosedAfterFailure, UndoBuild, Ends, Reply, PrimaryInv
    <2> QED BY <1>0, <1>1, <1>5, <2>1, Zenon DEF Desktop, OpenStep, OpenSession, Connected, Created,
         Selected, Started, RemoteOpened, BuildPipeline, BuildFails, Goes, CloseAfter, Ends, Reply,
         sourceVars
  <1>6. CASE Desktop(NextFrameStep)
    BY <1>0, <1>1, <1>6, Zenon DEF Desktop, NextFrameStep, BeginPoll, PollBus, PullSample, NoSample,
       RecheckBus, AcceptSample, SampleFails, Hold, PollAgain, Terminal, Reply, sourceVars
  <1>7. CASE Desktop(ShutdownStep)
    BY <1>0, <1>1, <1>7, Zenon DEF Desktop, ShutdownStep, StopPipeline, ClosePortal, Ends, Reply,
       sourceVars
  <1>8. CASE Desktop(StreamStep)
    BY <1>0, <1>8, Zenon DEF Desktop, StreamStep, UpstreamCaps, UnusableCaps,
         InstallCaps, Buffer, PipelineEnds, Streams, sourceVars
  <1> QED BY <1>3, <1>4, <1>5, <1>6, <1>7, <1>8 DEF Next, Desktop, DesktopStep, Gamescope

(* Every desktop frame the engine gets, captured or held, had the dimensions *)
(* of the newest upstream caps when the gate was last read for it, although  *)
(* the gate is read on a blocking thread and without the coordinator's lock. *)
(* What the caps do between that reading and the return is not bounded.      *)
THEOREM FramesAreCurrent == Spec => FramesFollowCaps
  <1>1. Init => PollInv /\ PrimaryInv
    BY DEF Init, DesktopInit, PollInv, PrimaryInv
  <1>2. PollInv /\ PrimaryInv /\ [Next]_vars =>
            [backend = "desktop" /\ FrameReturned => last'.dimensions = polled.caps]_vars
    <2> SUFFICES ASSUME PollInv, PrimaryInv, [Next]_vars, backend = "desktop", FrameReturned
                 PROVE  last'.dimensions = polled.caps
      OBVIOUS
    <2>1. ReturnFrame
      BY OnlyFrames
    <2> QED BY <2>1 DEF ReturnFrame, PollInv
  <1> QED BY <1>1, <1>2, CapsInvariant, PollStep, PrimaryStep, PTL DEF Spec, FramesFollowCaps

-----------------------------------------------------------------------------
(* The life of a source: what may be open where the task is.                 *)
OpenStages == {"connect", "create", "select", "start", "remote", "close", "build", "undo"}
PollStages == {"bus", "pull", "accept", "recheck", "hold", "return"}
Idles == {"connect", "backoff", "close", "ended"}

(* The task awaits the call its place stands for, and a source is installed  *)
(* only while it is read, between two reads, or when it is to be closed.     *)
TaskPart ==
    /\ at = "opening" <=> call = "open"
    /\ at = "reading" <=> call = "next"
    /\ at \in {"retiring", "closing"} <=> call = "shutdown"
    /\ at \in Idles => answer = NoAnswer
    /\ current => at \in {"connect", "reading", "close"}
    /\ at = "reading" => current
    /\ cut => at \in {"close", "ended"} /\ ~current

(* The source that is called is where the call takes it, and idle when it    *)
(* has answered; the other backend's is never touched.                       *)
StagePart ==
    /\ stage # "idle" => answer = NoAnswer
    /\ stage \in OpenStages => call = "open"
    /\ stage \in PollStages => call = "next"
    /\ stage = "stop" => call = "shutdown"
    /\ stage \in {"connect", "create"} => session = "none"
    /\ stage \in OpenStages \ {"undo"} => pipeline = "none"
    /\ stage \in {"undo", "stop"} => pipeline \in {"stopped", "stuck"}
    /\ stage \in {"close", "undo"} => primary \in Errors
    /\ backend # "desktop" => stage = "idle" /\ session = "none" /\ pipeline = "none"

OpenerPart ==
    /\ opener # "idle" => answer = NoAnswer
    /\ opener \in {"waiting", "joining"} => call = "open"
    /\ opener = "shutting" => call = "shutdown"
    /\ backend # "gamescope" => opener = "idle" /\ thread = "none"
    /\ backend = "gamescope" =>
          answer \in {NoAnswer, Ok, AFrame, EndOfStream, Error("pipewire")}

(* Places at which nothing captures: no source is installed and none was cut *)
(* short, its opening has failed or not begun, or its shutdown is done.      *)
Quiet ==
    \/ at \in Idles /\ ~current /\ ~cut
    \/ at = "opening" /\ answer.is = "error"
    \/ at = "opening" /\ answer = NoAnswer /\ stage = "idle" /\ opener = "idle"
    \/ at \in {"retiring", "closing"} /\ answer # NoAnswer

QuietPart == Quiet => ~Capturing

RefusedPart == refused => at \in {"close", "closing", "ended"} /\ ~current

Lifecycle ==
    /\ TypeOK /\ TaskPart /\ StagePart /\ OpenerPart /\ QuietPart /\ RefusedPart

(* The answers of a source, told apart.                                      *)
LEMMA AnswerFacts ==
    /\ {NoAnswer, Ok, AFrame, EndOfStream} \subseteq Answers /\ Errors \subseteq Answers
    /\ NoAnswer.is = "none" /\ Ok.is = "ok" /\ AFrame.is = "frame" /\ EndOfStream.is = "end"
    /\ \A kind \in ErrorKinds : Error(kind) \in Errors /\ Error(kind).kind = kind
    /\ \A e \in Errors : e.is = "error" /\ WithCleanupFailure(e) \in Errors
  BY DEF Answers, Errors, NoAnswer, Ok, AFrame, EndOfStream, Error, WithCleanupFailure, ErrorKinds

(* What a step of the task itself leaves alone.                              *)
LEMMA TaskTypes ==
    ASSUME TypeOK, UNCHANGED <<desktopVars, gamescopeVars, backend>>, SourceTypeOK',
           at' \in {"connect", "opening", "reading", "retiring", "backoff", "close",
                    "closing", "ended"},
           current' \in BOOLEAN, hasOpened' \in BOOLEAN, retrying' \in BOOLEAN,
           cancelled' \in BOOLEAN, refused' \in BOOLEAN, cut' \in BOOLEAN
    PROVE  TypeOK'
<1>1. DesktopTypeOK'
  <2>1. CapsTypeOK'
    BY DEF TypeOK, DesktopTypeOK, CapsTypeOK, desktopVars, capsVars
  <2> QED BY <2>1 DEF TypeOK, DesktopTypeOK, desktopVars, grantVars, streamVars, pollVars
<1>2. GamescopeTypeOK'
  BY Zenon DEF TypeOK, GamescopeTypeOK, gamescopeVars
<1> QED BY <1>1, <1>2, Zenon DEF TypeOK

(* The steps of the task that leave its source as it is.                     *)
LEMMA LifeOfTask ==
    ASSUME Lifecycle, TaskStep \/ Cancel
    PROVE  Lifecycle'
<1> USE DEF Idles
<1>t. /\ call \in {"none", "open", "next", "shutdown"} /\ answer \in Answers
      /\ at \in {"connect", "opening", "reading", "retiring", "backoff", "close", "closing", "ended"}
      /\ current \in BOOLEAN /\ hasOpened \in BOOLEAN /\ retrying \in BOOLEAN
      /\ cancelled \in BOOLEAN /\ refused \in BOOLEAN /\ cut \in BOOLEAN
  BY Zenon DEF Lifecycle, TypeOK, SourceTypeOK
<1>p. TypeOK /\ TaskPart /\ StagePart /\ OpenerPart /\ QuietPart /\ RefusedPart
  BY DEF Lifecycle
<1>u. /\ UNCHANGED <<backend, cut, stage, session, pipeline, primary, opener, thread>>
      /\ UNCHANGED <<desktopVars, gamescopeVars>>
      /\ (Capturing' <=> Capturing)
  BY Zenon DEF TaskStep, Connect, Opened, OpenFails, Returned, ReadFails, Retired,
     BackoffOver, Close, CloseReturns, Cancel, Task, desktopVars, gamescopeVars, grantVars,
     taskVars, Capturing, DesktopCapturing, GamescopeCapturing
<1>i. call = "none" => stage = "idle" /\ opener = "idle"
  BY <1>p DEF StagePart, OpenerPart, TypeOK, DesktopTypeOK, GamescopeTypeOK, OpenStages, PollStages
<1>a. answer # NoAnswer => stage = "idle" /\ opener = "idle"
  BY <1>p DEF StagePart, OpenerPart
<1>b. ASSUME call' = "none" \/ answer' # NoAnswer => stage = "idle" /\ opener = "idle", 
             answer' = NoAnswer \/ answer' = answer,
             (stage = "idle" /\ opener = "idle") \/ call' = call,
             (stage = "idle" /\ opener = "idle") \/ answer' = answer
      PROVE  StagePart' /\ OpenerPart'
  BY <1>b, <1>u, <1>p DEF StagePart, OpenerPart, OpenStages, PollStages
<1>1. CASE Connect
  <2>1. CASE current
    <3>1. at = "connect" /\ at' = "reading" /\ call' = "next" /\ answer' = NoAnswer
          /\ UNCHANGED <<current, hasOpened, retrying, refused, cancelled>>
      BY <1>1, <2>1, Zenon DEF Connect, Begin, Task
    <3> QED BY <1>t, <1>p, <1>u, <1>i, <1>b, <2>1, <3>1, TaskTypes, AnswerFacts
            DEF Lifecycle, TaskPart, QuietPart, Quiet, RefusedPart, SourceTypeOK
  <2>2. CASE ~current
    <3>1. at = "connect" /\ at' = "opening" /\ call' = "open" /\ answer' = NoAnswer
          /\ UNCHANGED <<current, hasOpened, retrying, refused, cancelled>>
      BY <1>1, <2>2, Zenon DEF Connect, Begin, Task
    <3> QED BY <1>t, <1>p, <1>u, <1>i, <1>b, <2>2, <3>1, TaskTypes, AnswerFacts
            DEF Lifecycle, TaskPart, QuietPart, Quiet, RefusedPart, SourceTypeOK
  <2> QED BY <2>1, <2>2
<1>2. CASE Opened
  <2>1. at = "opening" /\ answer = Ok /\ at' = "connect" /\ call' = "none" /\ answer' = NoAnswer
        /\ current' = TRUE /\ hasOpened' = TRUE /\ UNCHANGED <<retrying, refused, cancelled>>
    BY <1>2, Zenon DEF Opened, Taken, Task
  <2> QED BY <1>t, <1>p, <1>u, <1>a, <1>b, <2>1, TaskTypes, AnswerFacts
          DEF Lifecycle, TaskPart, QuietPart, Quiet, RefusedPart, SourceTypeOK
<1>3. CASE OpenFails
  <2>1. /\ at = "opening" /\ answer.is = "error" /\ call' = "none" /\ answer' = NoAnswer
        /\ at' = (IF ShouldRetry(answer) THEN "backoff" ELSE "close")
        /\ refused' = (refused \/ answer.kind = "cancelled")
        /\ UNCHANGED <<current, hasOpened, retrying, cancelled>>
    BY <1>3, Zenon DEF OpenFails, Taken, Task
  <2>2. answer.kind = "cancelled" => ~ShouldRetry(answer)
    <3>1. CASE backend = "desktop"
      BY <3>1 DEF ShouldRetry, PortalShouldRetry, KindIsRetryable
    <3>2. CASE backend # "desktop"
      <4>1. backend = "gamescope"
        BY <1>p, <3>2, BackendsAssumption DEF TypeOK
      <4>2. answer = Error("pipewire")
        BY <1>p, <2>1, <4>1, AnswerFacts DEF OpenerPart
      <4> QED BY <4>2 DEF Error
    <3> QED BY <3>1, <3>2
  <2>3. answer # NoAnswer /\ refused' \in BOOLEAN
    BY <1>t, <2>1, AnswerFacts
  <2>4. RefusedPart'
    BY <1>p, <1>t, <2>1, <2>2 DEF RefusedPart, TaskPart
  <2>5. TypeOK' /\ TaskPart' /\ QuietPart'
    BY <1>t, <1>p, <1>u, <2>1, <2>3, TaskTypes, AnswerFacts
       DEF TaskPart, QuietPart, Quiet, SourceTypeOK
  <2> QED BY <1>a, <1>b, <2>1, <2>3, <2>4, <2>5 DEF Lifecycle
<1>4. CASE Returned
  <2>1. at = "reading" /\ answer # NoAnswer /\ at' \in {"connect", "close"}
        /\ call' = "none" /\ answer' = NoAnswer
        /\ UNCHANGED <<current, hasOpened, retrying, refused, cancelled>>
    BY <1>4, AnswerFacts DEF Returned, Taken, Task
  <2> QED BY <1>t, <1>p, <1>u, <1>a, <1>b, <2>1, TaskTypes, AnswerFacts
          DEF Lifecycle, TaskPart, QuietPart, Quiet, RefusedPart, SourceTypeOK
<1>5. CASE ReadFails
  <2>1. at = "reading" /\ answer # NoAnswer /\ at' = "retiring" /\ current' = FALSE
        /\ call' = "shutdown" /\ answer' = NoAnswer
        /\ UNCHANGED <<hasOpened, refused, cancelled>>
    BY <1>5, AnswerFacts DEF ReadFails, Begin, Task
  <2>2. retrying' \in BOOLEAN
    BY <1>5 DEF ReadFails, ShouldRetry, PortalShouldRetry, KindIsRetryable, GamescopeShouldRetry
  <2> QED BY <1>t, <1>p, <1>u, <1>a, <1>b, <2>1, <2>2, TaskTypes, AnswerFacts
          DEF Lifecycle, TaskPart, QuietPart, Quiet, RefusedPart, SourceTypeOK
<1>6. CASE Retired \/ CloseReturns
  <2>1. at \in {"retiring", "closing"} /\ answer # NoAnswer /\ call' = "none" /\ answer' = NoAnswer
        /\ at' \in {"backoff", "close", "ended"} /\ (at' = "backoff" => at = "retiring")
        /\ UNCHANGED <<current, hasOpened, retrying, refused, cancelled>>
    BY <1>6 DEF Retired, CloseReturns, Taken, Task
  <2> QED BY <1>t, <1>p, <1>u, <1>a, <1>b, <2>1, TaskTypes, AnswerFacts
          DEF Lifecycle, TaskPart, QuietPart, Quiet, RefusedPart, SourceTypeOK
<1>7. CASE BackoffOver \/ Cancel
  <2>1. UNCHANGED <<call, answer, current, hasOpened, retrying, refused>>
        /\ (at' = at \/ (at = "backoff" /\ at' = "connect")) /\ cancelled' \in BOOLEAN
    BY <1>7, <1>t, Zenon DEF BackoffOver, Cancel, Task, sourceVars
  <2> QED BY <1>t, <1>p, <1>u, <1>i, <1>a, <1>b, <2>1, TaskTypes, AnswerFacts
          DEF Lifecycle, TaskPart, QuietPart, Quiet, RefusedPart, SourceTypeOK
<1>8. CASE Close
  <2>1. CASE current
    <3>1. at = "close" /\ at' = "closing" /\ call' = "shutdown" /\ answer' = NoAnswer
          /\ current' = FALSE /\ UNCHANGED <<hasOpened, retrying, refused, cancelled>>
      BY <1>8, <2>1, Zenon DEF Close, Begin, Task
    <3> QED BY <1>t, <1>p, <1>u, <1>i, <1>b, <2>1, <3>1, TaskTypes, AnswerFacts
            DEF Lifecycle, TaskPart, QuietPart, Quiet, RefusedPart, SourceTypeOK
  <2>2. CASE ~current
    <3>1. at = "close" /\ at' = "ended" /\ UNCHANGED <<call, answer, current>>
          /\ UNCHANGED <<hasOpened, retrying, refused, cancelled>>
      BY <1>8, <2>2, <1>t, Zenon DEF Close, Task, sourceVars
    <3> QED BY <1>t, <1>p, <1>u, <1>i, <1>a, <1>b, <2>2, <3>1, TaskTypes, AnswerFacts
            DEF Lifecycle, TaskPart, QuietPart, Quiet, RefusedPart, SourceTypeOK
  <2> QED BY <2>1, <2>2
<1> QED BY <1>1, <1>2, <1>3, <1>4, <1>5, <1>6, <1>7, <1>8 DEF TaskStep
(* The desktop source: what a step has to show, the rest of the state being   *)
(* the task's and the other source's.                                        *)
LEMMA DesktopLife ==
    ASSUME Lifecycle, CapsInv', backend = "desktop", UNCHANGED <<gamescopeVars, taskVars, call>>,
           answer' \in Answers, answer' = answer \/ call # "none",
           session' \in {"none", "open", "closed", "lost"},
           pipeline' \in {"none", "playing", "stopped", "stuck"},
           stage' \in OpenStages \cup PollStages \cup {"idle", "stop"},
           primary' \in Errors \cup {NoAnswer},
           bus' \in {"clear", "error", "eos"}, negotiated' \in Dimensions,
           sample' \in Frames \cup {NoFrame}, last' \in Frames \cup {NoFrame},
           polled' \in Polled,
           StagePart',
           Quiet' => session' # "open" /\ pipeline' # "playing"
    PROVE  Lifecycle'
<1>p. TypeOK /\ TaskPart /\ StagePart /\ OpenerPart /\ QuietPart /\ RefusedPart
  BY DEF Lifecycle
<1>u. /\ UNCHANGED <<backend, at, current, hasOpened, retrying, cancelled, refused, cut>>
      /\ UNCHANGED <<thread, startup, opener, stop, orphaned, errors, frame>>
  BY Zenon DEF gamescopeVars, taskVars
<1>1. TypeOK'
  <2>1. CapsTypeOK'
    BY Zenon DEF CapsInv, CapsOrder, CapsKnown, RunningIsWorker, CapsTypeOK
  <2>2. stage' \in {"idle", "connect", "create", "select", "start", "remote", "close",
                    "build", "undo", "bus", "pull", "accept", "recheck", "hold", "return", "stop"}
    BY DEF OpenStages, PollStages
  <2>3. DesktopTypeOK'
    BY <2>1, <2>2, Zenon DEF DesktopTypeOK, Polled
  <2>4. SourceTypeOK'
    BY <1>p, Zenon DEF TypeOK, SourceTypeOK
  <2>5. GamescopeTypeOK'
    BY <1>p, <1>u, Zenon DEF TypeOK, GamescopeTypeOK
  <2> QED BY <1>p, <1>u, <2>3, <2>4, <2>5, Zenon DEF TypeOK
<1>2. TaskPart'
  <2>1. at \in Idles => call = "none"
    BY <1>p DEF TaskPart, TypeOK, SourceTypeOK, Idles
  <2> QED BY <1>p, <1>u, <2>1 DEF TaskPart
<1>3. OpenerPart' /\ RefusedPart'
  BY <1>p, <1>u DEF OpenerPart, RefusedPart
<1>4. QuietPart'
  BY <1>p, <1>u DEF QuietPart, Capturing, DesktopCapturing, GamescopeCapturing, OpenerPart
<1> QED BY <1>1, <1>2, <1>3, <1>4 DEF Lifecycle

(* What it finds.                                                            *)
LEMMA DesktopStart ==
    ASSUME Lifecycle, backend = "desktop"
    PROVE  /\ TaskPart /\ StagePart /\ (Quiet => session # "open" /\ pipeline # "playing")
           /\ call \in {"none", "open", "next", "shutdown"} /\ answer \in Answers
           /\ session \in {"none", "open", "closed", "lost"}
           /\ pipeline \in {"none", "playing", "stopped", "stuck"}
           /\ stage \in OpenStages \cup PollStages \cup {"idle", "stop"}
           /\ primary \in Errors \cup {NoAnswer}
           /\ bus \in {"clear", "error", "eos"} /\ negotiated \in Dimensions
           /\ sample \in Frames \cup {NoFrame} /\ last \in Frames \cup {NoFrame}
           /\ polled \in Polled
           /\ opener = "idle"
  BY DEF Lifecycle, TypeOK, DesktopTypeOK, Polled, SourceTypeOK, OpenStages, PollStages,
     QuietPart, Capturing, DesktopCapturing, OpenerPart

(* Opening a desktop source, await by await, and undoing it.                 *)
LEMMA LifeOfOpening ==
    ASSUME Lifecycle, CapsInv', Desktop(OpenStep)
    PROVE  Lifecycle'
<1>d. backend = "desktop" /\ UNCHANGED <<gamescopeVars, taskVars>>
  BY DEF Desktop
<1>t. UNCHANGED <<at, current, cut, backend, opener>>
  BY <1>d DEF taskVars, gamescopeVars
<1>1. CASE OpenSession
  <2>1. /\ call = "open" /\ answer = NoAnswer /\ stage' = "connect"
        /\ session' = "none" /\ pipeline' = "none"
        /\ UNCHANGED <<call, answer, primary, bus, negotiated, sample, polled, last>>
    BY <1>1, Zenon DEF OpenSession, Goes, Awaiting, sourceVars, streamVars, pollVars
<2> QED BY <1>d, <1>t, <2>1, DesktopStart, DesktopLife, AnswerFacts
          DEF StagePart, OpenStages, PollStages, Quiet, TaskPart, Idles, ErrorKinds
<1>2. CASE Connected \/ Created
  <2>1. /\ stage \in {"connect", "create"}
        /\ UNCHANGED <<call, pipeline, bus, negotiated, sample, polled, last>>
        /\ \/ stage' \in {"create", "select"} /\ UNCHANGED <<answer, primary>>
              /\ session' = (IF stage' = "create" THEN session ELSE "open")
           \/ stage' = "idle" /\ answer' = Error("portal") /\ primary' = NoAnswer
              /\ UNCHANGED session
    BY <1>2 DEF Connected, Created, Goes, Ends, Reply, sourceVars, streamVars, pollVars, grantVars
<2> QED BY <1>d, <1>t, <2>1, DesktopStart, DesktopLife, AnswerFacts
          DEF StagePart, OpenStages, PollStages, Quiet, TaskPart, Idles, ErrorKinds
<1>3. CASE Selected \/ Started \/ RemoteOpened
  <2>1. /\ stage \in {"select", "start", "remote"}
        /\ UNCHANGED <<call, answer, session, pipeline, bus, negotiated, sample, polled, last>>
        /\ \/ stage' \in {"start", "remote", "build"} /\ UNCHANGED primary
           \/ stage' = "close" /\ \E kind \in ErrorKinds : primary' = Error(kind)
    BY <1>3 DEF Selected, Started, RemoteOpened, CloseAfter, Goes, sourceVars, streamVars,
       pollVars, grantVars, ErrorKinds
<2> QED BY <1>d, <1>t, <2>1, DesktopStart, DesktopLife, AnswerFacts
          DEF StagePart, OpenStages, PollStages, Quiet, TaskPart, Idles, ErrorKinds
<1>4. CASE ClosedAfterFailure \/ UndoBuild
  <2>1. /\ stage \in {"close", "undo"} /\ stage' = "idle" /\ primary' = NoAnswer
        /\ session' \in {"closed", "lost"} /\ answer' \in {primary, WithCleanupFailure(primary)}
        /\ UNCHANGED <<call, pipeline, bus, negotiated, sample, polled, last>>
    BY <1>4 DEF ClosedAfterFailure, UndoBuild, SessionClosed, Ends, Reply, sourceVars, streamVars,
       pollVars
<2> QED BY <1>d, <1>t, <2>1, DesktopStart, DesktopLife, AnswerFacts
          DEF StagePart, OpenStages, PollStages, Quiet, TaskPart, Idles, ErrorKinds
<1>5. CASE BuildPipeline
  <2>1. /\ stage = "build" /\ stage' = "idle" /\ answer' = Ok /\ primary' = NoAnswer
        /\ pipeline' = "playing" /\ UNCHANGED <<call, session>>
        /\ bus' = "clear" /\ negotiated' = InitialDimensions /\ sample' = NoFrame
        /\ polled' = NoPoll /\ last' = NoFrame
    BY <1>5, Zenon DEF BuildPipeline, FreshStream, Ends, Reply
  <2>2. NoPoll \in Polled
    BY DEF NoPoll, Polled
<2> QED BY <1>d, <1>t, <2>1, <2>2, CapsAssumption, DesktopStart, DesktopLife, AnswerFacts
          DEF StagePart, OpenStages, PollStages, Quiet, TaskPart, Idles, ErrorKinds
<1>6. CASE BuildFails
  <2>1. /\ stage = "build" /\ stage' = "undo" /\ primary' = Error("gstreamer")
        /\ pipeline' \in {"stopped", "stuck"}
        /\ UNCHANGED <<call, answer, session, bus, negotiated, sample, polled, last>>
    BY <1>6, Zenon DEF BuildFails, sourceVars, streamVars, pollVars
<2> QED BY <1>d, <1>t, <2>1, DesktopStart, DesktopLife, AnswerFacts
          DEF StagePart, OpenStages, PollStages, Quiet, TaskPart, Idles, ErrorKinds
<1> QED BY <1>1, <1>2, <1>3, <1>4, <1>5, <1>6 DEF Desktop, OpenStep

(* Polling for a frame leaves the grant alone.                               *)
LEMMA LifeOfPolling ==
    ASSUME Lifecycle, CapsInv', Desktop(NextFrameStep)
    PROVE  Lifecycle'
<1>d. backend = "desktop" /\ UNCHANGED <<gamescopeVars, taskVars>>
  BY DEF Desktop
<1>t. UNCHANGED <<at, current, cut, backend, opener>>
  BY <1>d DEF taskVars, gamescopeVars
<1>u. UNCHANGED <<call, session, pipeline, primary, negotiated>>
  BY DEF Desktop, NextFrameStep, BeginPoll, PollBus, PullSample, NoSample, RecheckBus,
     AcceptSample, SampleFails, Hold, PollAgain, ReturnFrame, Polls, Terminal, Reply, sourceVars,
     grantVars
<1>1. ASSUME stage \in PollStages \/ (stage = "idle" /\ call = "next" /\ answer = NoAnswer),
             \/ stage' \in PollStages /\ answer' = answer
             \/ stage' = "idle" /\ answer' \in Answers,
             bus' \in {bus, "clear"}, sample' \in {sample, NoFrame},
             polled' \in Polled,
             last' \in {last, polled.frame}
      PROVE  Lifecycle'
  <2>3. polled.frame \in Frames \cup {NoFrame}
    BY <1>d, DesktopStart DEF Polled
  <2>4. call = "next" /\ answer = NoAnswer
    BY <1>1, <1>d, DesktopStart DEF StagePart, OpenStages, PollStages
  <2>5. StagePart' /\ ~Quiet'
    BY <1>1, <1>d, <1>t, <1>u, <2>4, DesktopStart DEF StagePart, OpenStages, PollStages, Quiet,
       TaskPart, Idles
  <2>6. answer' \in Answers /\ stage' \in OpenStages \cup PollStages \cup {"idle", "stop"}
    BY <1>1, <1>d, DesktopStart DEF OpenStages, PollStages
  <2>7. /\ bus' \in {"clear", "error", "eos"} /\ sample' \in Frames \cup {NoFrame}
        /\ last' \in Frames \cup {NoFrame}
        /\ negotiated' \in Dimensions /\ primary' \in Errors \cup {NoAnswer}
        /\ session' \in {"none", "open", "closed", "lost"}
        /\ pipeline' \in {"none", "playing", "stopped", "stuck"}
    BY <1>1, <1>d, <1>u, <2>3, DesktopStart
  <2> QED BY <1>1, <1>d, <1>u, <2>4, <2>5, <2>6, <2>7, DesktopLife
<1>n. NoPoll \in Polled /\ polled \in Polled /\ sample \in Frames \cup {NoFrame}
      /\ last \in Frames \cup {NoFrame} /\ expected \in Dimensions \cup {Closed}
      /\ upstream \in Dimensions \cup {Unusable}
  BY <1>d, DesktopStart DEF NoPoll, Polled, Lifecycle, TypeOK, DesktopTypeOK, CapsTypeOK
<1>2. CASE BeginPoll \/ NoSample \/ PollAgain
  BY <1>1, <1>2, <1>d, <1>n, DesktopStart
     DEF BeginPoll, NoSample, PollAgain, Awaiting, Polls, PollStages, sourceVars, pollVars
<1>3. CASE PollBus \/ RecheckBus
  BY <1>1, <1>3, <1>d, <1>n, DesktopStart, AnswerFacts
     DEF PollBus, RecheckBus, Terminal, Reply, Polls, PollStages, sourceVars, pollVars, ErrorKinds
<1>4. CASE PullSample
  <2>1. [NoPoll EXCEPT !.frame = sample, !.gate = expected] \in Polled
    BY <1>n DEF NoPoll, Polled
  <2> QED BY <1>1, <1>4, <1>d, <1>n, <2>1, DesktopStart DEF PullSample, PollStages, sourceVars
<1>5. CASE AcceptSample
  <2>1. [polled EXCEPT !.caps = upstream] \in Polled
    BY <1>n DEF Polled
  <2> QED BY <1>1, <1>5, <1>d, <1>n, <2>1, DesktopStart DEF AcceptSample, PollStages, sourceVars
<1>6. CASE Hold
  <2>1. [frame |-> last, gate |-> expected, caps |-> upstream] \in Polled
    BY <1>n DEF Polled
  <2> QED BY <1>1, <1>6, <1>d, <2>1, DesktopStart DEF Hold, PollStages, sourceVars
<1>7. CASE SampleFails \/ ReturnFrame
  BY <1>1, <1>7, <1>d, <1>n, DesktopStart, AnswerFacts
     DEF SampleFails, ReturnFrame, Reply, PollStages, sourceVars, ErrorKinds
<1> QED BY <1>2, <1>3, <1>4, <1>5, <1>6, <1>7 DEF Desktop, NextFrameStep

(* Shutting a desktop source down ends whatever captured.                    *)
LEMMA LifeOfClosing ==
    ASSUME Lifecycle, CapsInv', Desktop(ShutdownStep)
    PROVE  Lifecycle'
<1>d. backend = "desktop" /\ UNCHANGED <<gamescopeVars, taskVars>>
  BY DEF Desktop
<1>t. UNCHANGED <<at, current, cut, backend, opener>>
  BY <1>d DEF taskVars, gamescopeVars
<1>1. CASE StopPipeline
  <2>1. /\ call = "shutdown" /\ answer = NoAnswer /\ stage' = "stop"
        /\ pipeline' \in {"stopped", "stuck"}
        /\ UNCHANGED <<call, answer, session, primary, bus, negotiated, sample, polled, last>>
    BY <1>1 DEF StopPipeline, Awaiting, sourceVars, streamVars, pollVars
<2> QED BY <1>d, <1>t, <2>1, DesktopStart, DesktopLife, AnswerFacts
          DEF StagePart, OpenStages, PollStages, Quiet, TaskPart, Idles, ErrorKinds
<1>2. CASE ClosePortal
  <2>1. /\ stage = "stop" /\ stage' = "idle" /\ primary' = NoAnswer
        /\ answer' \in {Ok, Error("shutdown")} /\ session' \in {"closed", "lost"}
        /\ pipeline' \in {pipeline, "stopped"}
        /\ UNCHANGED <<call, bus, negotiated, sample, polled, last>>
    BY <1>2 DEF ClosePortal, Ends, Reply, streamVars, pollVars
<2> QED BY <1>d, <1>t, <2>1, DesktopStart, DesktopLife, AnswerFacts
          DEF StagePart, OpenStages, PollStages, Quiet, TaskPart, Idles, ErrorKinds
<1> QED BY <1>1, <1>2 DEF Desktop, ShutdownStep

(* The streaming threads touch neither the grant nor the call.               *)
LEMMA LifeOfStreams ==
    ASSUME Lifecycle, CapsInv, CapsInv', Desktop(StreamStep)
    PROVE  Lifecycle'
<1>d. backend = "desktop" /\ UNCHANGED <<gamescopeVars, taskVars>>
  BY DEF Desktop
<1>t. UNCHANGED <<at, current, cut, backend, opener>>
  BY <1>d DEF taskVars, gamescopeVars
<1>1. UNCHANGED <<call, answer, session, pipeline, stage, primary, polled, last>>
  BY Zenon DEF Desktop, StreamStep, UpstreamCaps, UnusableCaps, InstallCaps, Buffer, PipelineEnds,
     Streams, sourceVars, grantVars, pollVars
<1>2. /\ bus' \in {"clear", "error", "eos"} /\ negotiated' \in Dimensions
      /\ sample' \in Frames \cup {NoFrame}
  <2>0. filter \in Dimensions /\ revision \in 0..MaxCaps
    BY DEF Lifecycle, TypeOK, DesktopTypeOK, CapsTypeOK
  <2>1. CASE Buffer
    <3>1. negotiated' \in {negotiated, filter} /\ bus' = bus
          /\ sample' = [dimensions |-> negotiated', since |-> revision]
      BY <2>1, Zenon DEF Buffer, Streams
    <3>2. negotiated' \in Dimensions
      BY <1>d, <2>0, <3>1, DesktopStart
    <3>3. sample' \in Frames
      BY <2>0, <3>1, <3>2 DEF Frames
    <3> QED BY <1>d, <3>1, <3>2, <3>3, DesktopStart
  <2>2. CASE UpstreamCaps \/ UnusableCaps \/ InstallCaps \/ PipelineEnds
    <3>1. UNCHANGED <<negotiated, sample>> /\ bus' \in {bus, "error", "eos"}
      BY <2>2 DEF UpstreamCaps, UnusableCaps, InstallCaps, PipelineEnds, Streams, streamVars
    <3> QED BY <1>d, <3>1, DesktopStart
  <2> QED BY <2>1, <2>2 DEF Desktop, StreamStep
<1> QED BY <1>d, <1>t, <1>1, <1>2, DesktopStart, DesktopLife DEF StagePart, Quiet

(* The Gamescope source: what captures is a thread whose opener waits for it, *)
(* that is read from, or that was cut off.                                   *)
LEMMA LifeOfGamescope ==
    ASSUME Lifecycle, backend = "gamescope", UNCHANGED <<desktopVars, taskVars>>,
           GamescopeStep \/ WorkerStep \/ GamescopeEvent
    PROVE  Lifecycle'
<1>p. TypeOK /\ TaskPart /\ StagePart /\ OpenerPart /\ QuietPart /\ RefusedPart
  BY DEF Lifecycle
<1>d. /\ UNCHANGED <<at, current, hasOpened, retrying, cancelled, cut, refused, backend>>
      /\ UNCHANGED <<stage, session, pipeline, primary>> /\ UNCHANGED desktopVars
  BY Zenon DEF taskVars, desktopVars, grantVars
<1>t. /\ thread \in {"none", "setup", "announce", "loop", "gone"}
      /\ startup \in {"none", "open", "ok", "err", "closed"}
      /\ opener \in {"idle", "waiting", "joining", "shutting"}
      /\ stop \in BOOLEAN /\ orphaned \in BOOLEAN /\ frame \in BOOLEAN /\ errors \in 0..MaxErrors
      /\ call \in {"none", "open", "next", "shutdown"} /\ answer \in Answers
      /\ at \in {"connect", "opening", "reading", "retiring", "backoff", "close", "closing", "ended"}
      /\ stage = "idle" /\ session = "none" /\ pipeline = "none" /\ MaxErrors \in Nat
  BY <1>p, MaxErrorsAssumption DEF TypeOK, GamescopeTypeOK, SourceTypeOK, StagePart
<1>a. /\ Error("pipewire") \in Answers /\ Error("pipewire") # NoAnswer /\ Error("pipewire").is = "error"
      /\ {NoAnswer, Ok, AFrame, EndOfStream} \subseteq Answers
      /\ Ok # NoAnswer /\ AFrame # NoAnswer /\ EndOfStream # NoAnswer
      /\ Ok.is # "error" /\ NoAnswer.is # "error" /\ AFrame.is # "error" /\ EndOfStream.is # "error"
  BY AnswerFacts DEF ErrorKinds
<1>1. ASSUME /\ thread' \in {"none", "setup", "announce", "loop", "gone"}
             /\ startup' \in {"none", "open", "ok", "err", "closed"}
             /\ opener' \in {"idle", "waiting", "joining", "shutting"}
             /\ stop' \in BOOLEAN /\ orphaned' \in BOOLEAN /\ frame' \in BOOLEAN
             /\ errors' \in 0..MaxErrors /\ call' = call,
             \/ answer' = answer
             \/ call # "none" /\ answer' \in {Ok, AFrame, EndOfStream, Error("pipewire")},
             opener' # "idle" => answer' = NoAnswer,
             opener' \in {"waiting", "joining"} => call = "open",
             opener' = "shutting" => call = "shutdown",
             Quiet' => ~GamescopeCapturing'
      PROVE  Lifecycle'
  <2>1. answer' \in Answers
    BY <1>1, <1>t, <1>a
  <2>2. TypeOK'
    <3>1. DesktopTypeOK'
      <4>1. CapsTypeOK'
        BY <1>p, <1>d DEF TypeOK, DesktopTypeOK, CapsTypeOK, desktopVars, capsVars
      <4> QED BY <1>p, <1>d, <4>1 DEF TypeOK, DesktopTypeOK, desktopVars, grantVars, streamVars,
                  pollVars
    <3>2. SourceTypeOK' /\ GamescopeTypeOK'
      BY <1>1, <1>t, <2>1 DEF SourceTypeOK, GamescopeTypeOK
    <3> QED BY <1>p, <1>d, <3>1, <3>2, Zenon DEF TypeOK
  <2>3. TaskPart'
    <3>1. at \in Idles => call = "none"
      BY <1>p, <1>t DEF TaskPart, Idles
    <3> QED BY <1>1, <1>p, <1>d, <3>1 DEF TaskPart
  <2>4. StagePart'
    BY <1>p, <1>d, <1>t DEF StagePart, OpenStages, PollStages
  <2>5. OpenerPart'
    BY <1>1, <1>p, <1>d DEF OpenerPart
  <2>6. QuietPart' /\ RefusedPart'
    BY <1>1, <1>p, <1>d, <1>t
       DEF QuietPart, RefusedPart, Capturing, DesktopCapturing
  <2> QED BY <2>2, <2>3, <2>4, <2>5, <2>6 DEF Lifecycle
<1>2. CASE StartWorker
  <2>1. /\ thread' = "setup" /\ startup' = "open" /\ opener' = "waiting"
        /\ stop' = FALSE /\ orphaned' = FALSE /\ errors' = 0 /\ frame' = FALSE
        /\ UNCHANGED <<call, answer>> /\ call = "open" /\ answer = NoAnswer
    BY <1>2, Zenon DEF StartWorker, Awaiting, sourceVars
  <2>2. ~Quiet'
    BY <1>p, <1>t, <1>d, <1>a, <2>1 DEF Quiet, TaskPart, Idles
  <2>3. 0 \in 0..MaxErrors
    BY <1>t
  <2> QED BY <1>1, <2>1, <2>2, <2>3
<1>3. CASE WorkerStarted \/ OpenJoined
  BY <1>1, <1>3, <1>t, <1>p, <1>d, <1>a
     DEF WorkerStarted, OpenJoined, Reply, Quiet, TaskPart, Idles, OpenerPart, GamescopeCapturing
<1>4. CASE StartupTimeout \/ SetupFailed
  BY <1>1, <1>4, <1>t, <1>p, <1>d, <1>a
     DEF StartupTimeout, SetupFailed, sourceVars, Quiet, TaskPart, Idles, OpenerPart
<1>5. CASE NextError \/ NextEnds \/ NextFrame
  <2>1. call = "next" /\ answer = NoAnswer /\ call' = call /\ UNCHANGED <<thread, startup, opener, stop, orphaned>>
        /\ answer' \in {Error("pipewire"), EndOfStream, AFrame}
        /\ errors' \in {errors, errors - 1} /\ (errors' = errors \/ errors > 0)
        /\ frame' \in BOOLEAN
    BY <1>5, <1>t DEF NextError, NextEnds, NextFrame, Awaiting, Reply, gamescopeVars
  <2>2. errors' \in 0..MaxErrors
    BY <1>t, <2>1
  <2>3. opener = "idle" /\ at = "reading"
    BY <1>p, <1>t, <2>1 DEF OpenerPart, TaskPart
  <2> QED BY <1>1, <1>t, <1>d, <2>1, <2>2, <2>3 DEF Quiet, Idles
<1>6. CASE SendStop \/ ShutdownJoined
  BY <1>1, <1>6, <1>t, <1>p, <1>d, <1>a
     DEF SendStop, ShutdownJoined, Awaiting, Reply, sourceVars, Quiet, TaskPart, Idles, OpenerPart,
         GamescopeCapturing
<1>7. CASE WorkerStep
  <2>1. /\ UNCHANGED <<call, answer, opener, stop, orphaned, errors, frame>>
        /\ thread' \in {"announce", "loop", "gone"} /\ thread \in {"setup", "announce", "loop"}
        /\ startup' \in {startup, "err", "ok"}
    BY <1>7 DEF WorkerStep, SetupDone, SetupFails, Announce, Quit, Worker, sourceVars
  <2>2. ~Quiet
    BY <1>p, <2>1 DEF QuietPart, Capturing, GamescopeCapturing
  <2> QED BY <1>1, <1>t, <1>p, <1>d, <2>1, <2>2 DEF Quiet, OpenerPart
<1>8. CASE WaitEnds \/ StreamFrame \/ StreamError
  <2>1. /\ UNCHANGED <<call, answer, opener, stop, orphaned, thread>>
        /\ startup' \in {startup, "closed"} /\ frame' \in {frame, TRUE}
        /\ errors' \in {errors, errors + 1} /\ (errors' = errors \/ errors < MaxErrors)
    BY <1>8 DEF WaitEnds, StreamFrame, StreamError, Worker, sourceVars
  <2>2. errors' \in 0..MaxErrors
    BY <1>t, <2>1
  <2>3. Quiet' => ~GamescopeCapturing'
    BY <1>p, <1>d, <2>1 DEF Quiet, QuietPart, Capturing, GamescopeCapturing
  <2> QED BY <1>1, <1>t, <1>p, <2>1, <2>2, <2>3 DEF OpenerPart
<1> QED BY <1>2, <1>3, <1>4, <1>5, <1>6, <1>7, <1>8
        DEF GamescopeStep, OpenerStep, NextStep, WorkerStep, GamescopeEvent

(* A cancellation drops the call under way.                                  *)
LEMMA LifeOfDropping ==
    ASSUME Lifecycle, CapsInv', DropNext
    PROVE  Lifecycle'
<1>p. TypeOK /\ TaskPart /\ StagePart /\ OpenerPart /\ QuietPart /\ RefusedPart
  BY DEF Lifecycle
<1>t. /\ call \in {"none", "open", "next", "shutdown"} /\ answer \in Answers
      /\ session \in {"none", "open", "closed", "lost"}
      /\ pipeline \in {"none", "playing", "stopped", "stuck"}
      /\ backend \in {"desktop", "gamescope"} /\ backend \in Backends
      /\ current \in BOOLEAN /\ cut \in BOOLEAN
  BY <1>p, BackendsAssumption DEF TypeOK, SourceTypeOK, DesktopTypeOK
<1>1. /\ at \in {"opening", "reading", "retiring", "connect", "backoff"} /\ at' = "close"
      /\ call' = "none" /\ answer' = NoAnswer /\ cut' = (at \in {"opening", "retiring"})
      /\ UNCHANGED <<backend, current, hasOpened, retrying, cancelled, refused>>
  BY DEF DropNext, Taken
<1>2. /\ stage' = "idle" /\ opener' = "idle" /\ UNCHANGED <<thread, session>>
      /\ pipeline' = pipeline \/ cut'
      /\ pipeline' \in {pipeline, "stopped", "stuck"}
      /\ backend # "desktop" => pipeline' = pipeline
  <2>1. CASE at \in {"connect", "backoff"}
    <3>1. UNCHANGED <<desktopVars, gamescopeVars>> /\ call = "none"
      BY <1>p, <1>t, <2>1 DEF DropNext, TaskPart
    <3>2. stage = "idle" /\ opener = "idle"
      BY <1>p, <3>1 DEF StagePart, OpenerPart, TypeOK, DesktopTypeOK, GamescopeTypeOK,
         OpenStages, PollStages
    <3> QED BY <3>1, <3>2 DEF desktopVars, gamescopeVars, grantVars
  <2>2. CASE at \notin {"connect", "backoff"} /\ backend = "desktop"
    <3>1. DesktopDropped /\ UNCHANGED gamescopeVars
      BY <2>2 DEF DropNext
    <3>2. call = "shutdown" => at = "retiring"
      BY <1>p, <1>1 DEF TaskPart
    <3> QED BY <1>p, <1>1, <2>2, <3>1, <3>2 DEF DesktopDropped, gamescopeVars, OpenerPart
  <2>3. CASE at \notin {"connect", "backoff"} /\ backend # "desktop"
    <3>1. GamescopeDropped /\ UNCHANGED desktopVars
      BY <2>3 DEF DropNext
    <3> QED BY <1>p, <2>3, <3>1 DEF GamescopeDropped, desktopVars, grantVars, StagePart
  <2> QED BY <2>1, <2>2, <2>3
<1>3. TypeOK'
  <2>1. CapsTypeOK'
    BY Zenon DEF CapsInv, CapsOrder, CapsKnown, RunningIsWorker, CapsTypeOK
  <2>2. /\ UNCHANGED <<bus, negotiated, sample, last>> /\ polled' \in {polled, NoPoll}
        /\ primary' \in {primary, NoAnswer}
    BY DEF DropNext, DesktopDropped, desktopVars, streamVars, pollVars
  <2>3. NoPoll \in Polled
    BY DEF NoPoll, Polled
  <2>4. DesktopTypeOK'
    BY <1>p, <1>t, <1>2, <2>1, <2>2, <2>3 DEF TypeOK, DesktopTypeOK, Polled
  <2>5. UNCHANGED <<startup, stop, errors, frame>> /\ orphaned' \in BOOLEAN
    BY <1>p DEF DropNext, GamescopeDropped, gamescopeVars, TypeOK, GamescopeTypeOK
  <2>6. GamescopeTypeOK'
    BY <1>p, <1>2, <2>5 DEF TypeOK, GamescopeTypeOK
  <2>7. SourceTypeOK'
    BY <1>1, AnswerFacts DEF SourceTypeOK
  <2> QED BY <1>p, <1>1, <2>4, <2>6, <2>7 DEF TypeOK
<1>4. TaskPart' /\ RefusedPart'
  BY <1>p, <1>1 DEF TaskPart, RefusedPart, Idles
<1>5. StagePart' /\ OpenerPart'
  BY <1>p, <1>1, <1>2 DEF StagePart, OpenerPart, OpenStages, PollStages
<1>6. QuietPart'
  BY <1>p, <1>t, <1>1, <1>2 DEF QuietPart, Quiet, TaskPart, Idles, Capturing, DesktopCapturing,
     GamescopeCapturing
<1> QED BY <1>3, <1>4, <1>5, <1>6 DEF Lifecycle

LEMMA LifecycleHolds == Spec => []Lifecycle
<1>1. Init => Lifecycle
  <2> SUFFICES ASSUME Init PROVE Lifecycle
    OBVIOUS
  <2>1. TypeOK
    <3>1. CapsTypeOK
      <4>1. CapsInv
        BY CapsInitInv, Zenon DEF Init, DesktopInit
      <4> QED BY <4>1, Zenon DEF CapsInv, CapsOrder, CapsKnown, RunningIsWorker, CapsTypeOK
    <3>2. DesktopTypeOK
      BY <3>1, CapsAssumption DEF Init, DesktopInit, DesktopTypeOK, NoPoll
    <3>3. GamescopeTypeOK
      <4>1. 0 \in 0..MaxErrors
        BY MaxErrorsAssumption
      <4> QED BY <4>1, Zenon DEF Init, GamescopeInit, GamescopeTypeOK
    <3>4. SourceTypeOK
      BY AnswerFacts DEF Init, SourceInit, SourceTypeOK
    <3> QED BY <3>2, <3>3, <3>4 DEF Init, TypeOK
  <2>2. TaskPart /\ StagePart /\ OpenerPart /\ QuietPart /\ RefusedPart
    BY AnswerFacts DEF Init, SourceInit, DesktopInit, GamescopeInit, TaskPart, StagePart, OpenerPart,
       QuietPart, RefusedPart, Capturing, DesktopCapturing, GamescopeCapturing, Idles, OpenStages,
       PollStages
  <2> QED BY <2>1, <2>2 DEF Lifecycle
<1>2. Lifecycle /\ CapsInv /\ CapsInv' /\ [Next]_vars => Lifecycle'
  <2> SUFFICES ASSUME Lifecycle, CapsInv, CapsInv', [Next]_vars PROVE Lifecycle'
    OBVIOUS
  <2>1. CASE UNCHANGED vars
    <3>1. /\ UNCHANGED <<desktopVars, gamescopeVars, call, answer>>
          /\ UNCHANGED <<backend, at, current, hasOpened, retrying, cancelled, refused, cut>>
          /\ UNCHANGED <<stage, session, pipeline, primary, opener, thread>>
      BY <2>1 DEF vars, sourceVars, taskVars, desktopVars, gamescopeVars, grantVars
    <3>2. TypeOK /\ TaskPart /\ StagePart /\ OpenerPart /\ QuietPart /\ RefusedPart
      BY DEF Lifecycle
    <3>3. TypeOK'
      BY <3>1, <3>2, TaskTypes, Zenon DEF TypeOK, SourceTypeOK
    <3>4. TaskPart' /\ RefusedPart'
      BY <3>1, <3>2 DEF TaskPart, RefusedPart
    <3>5. StagePart' /\ OpenerPart'
      BY <3>1, <3>2 DEF StagePart, OpenerPart
    <3>6. QuietPart'
      BY <3>1, <3>2 DEF QuietPart, Quiet, Capturing, DesktopCapturing, GamescopeCapturing
    <3> QED BY <3>3, <3>4, <3>5, <3>6 DEF Lifecycle
  <2>2. CASE Gamescope(GamescopeStep) \/ Gamescope(WorkerStep) \/ Gamescope(GamescopeEvent)
    BY <2>2, LifeOfGamescope DEF Gamescope
  <2>3. CASE Desktop(DesktopStep)
    BY <2>3, LifeOfOpening, LifeOfPolling, LifeOfClosing DEF Desktop, DesktopStep
  <2> QED BY <2>1, <2>2, <2>3, LifeOfTask, LifeOfDropping, LifeOfStreams DEF Next
<1> QED BY <1>1, <1>2, CapsInvariant, PTL DEF Spec

(* Whatever fails and wherever the task is cancelled, a failed source is shut *)
(* down before the next is opened, and nothing captures after the end, unless *)
(* the dropped future was opening or closing a source.                       *)
THEOREM FailedSourcesAreClosed == Spec => []NothingLeftBehind
<1>1. Lifecycle => NothingLeftBehind
  BY DEF Lifecycle, QuietPart, Quiet, Idles, NothingLeftBehind
<1> QED BY <1>1, LifecycleHolds, PTL

(* No source is opened after the user refused, whichever backend it was and  *)
(* however the clean-up after the refusal went.                              *)
THEOREM RefusedOnce == Spec => RefusalIsFinal
<1>1. ASSUME Lifecycle, [Next]_vars, refused, call # "open", call' = "open"
      PROVE  FALSE
  <2>1. at # "connect"
    BY <1>1 DEF Lifecycle, RefusedPart
  <2>2. CASE TaskStep \/ Cancel \/ DropNext
    BY <1>1, <2>1, <2>2 DEF TaskStep, Connect, Opened, OpenFails, Returned, ReadFails, Retired,
       BackoffOver, Close, CloseReturns, Cancel, DropNext, Begin, Taken, sourceVars
  <2>3. CASE Desktop(DesktopStep)
    <3>1. call' = call
      BY <2>3 DEF Desktop, DesktopStep, OpenStep, OpenSession, Connected, Created, Selected,
         Started, RemoteOpened, ClosedAfterFailure, BuildPipeline, BuildFails, UndoBuild,
         NextFrameStep, BeginPoll, PollBus, PullSample, NoSample, RecheckBus, AcceptSample,
         SampleFails, Hold, PollAgain, ReturnFrame, Terminal, ShutdownStep, StopPipeline, ClosePortal,
         Goes, CloseAfter, Ends, Reply, sourceVars
    <3> QED BY <1>1, <3>1
  <2>4. CASE Desktop(StreamStep)
    <3>1. call' = call
      BY <2>4, Zenon DEF Desktop, StreamStep, UpstreamCaps, UnusableCaps, InstallCaps, Buffer,
         PipelineEnds, Streams, sourceVars
    <3> QED BY <1>1, <3>1
  <2>5. CASE Gamescope(GamescopeStep) \/ Gamescope(WorkerStep) \/ Gamescope(GamescopeEvent)
    <3>1. call' = call
      BY <2>5, Zenon DEF Gamescope, GamescopeStep, OpenerStep, StartWorker, WorkerStarted, SetupFailed,
         OpenJoined, NextStep, NextError, NextEnds, NextFrame, SendStop, ShutdownJoined,
         WorkerStep, SetupDone, SetupFails, Announce, Quit, Worker, GamescopeEvent,
         StartupTimeout, WaitEnds, StreamFrame, StreamError, Reply, sourceVars
    <3> QED BY <1>1, <3>1
  <2>6. CASE UNCHANGED vars
    BY <1>1, <2>6 DEF vars, sourceVars
  <2> QED BY <1>1, <2>2, <2>3, <2>4, <2>5, <2>6 DEF Next
<1>2. Lifecycle /\ [Next]_vars => [refused => ~(call # "open" /\ call' = "open")]_vars
  BY <1>1
<1> QED BY <1>2, LifecycleHolds, PTL DEF Spec, RefusalIsFinal

-----------------------------------------------------------------------------
(* From a captured buffer to the colour of a zone, for every size of frame:  *)
(* the scaling and the sampling read inside their buffers, the masks share   *)
(* out the screen, mirror each other and follow the polygons of the layout,  *)
(* and the dominant bin does not depend on the order in which bins are       *)
(* visited.                                                                  *)

(* Euclidean division.                                                       *)
LEMMA Division ==
    ASSUME NEW n \in Nat, NEW d \in Nat \ {0}
    PROVE  /\ n \div d \in Nat /\ n % d \in Nat
           /\ n = (n \div d) * d + (n % d) /\ n % d < d
  BY SMT

(* Products of naturals are naturals ...                                    *)
LEMMA ProductIsNat ==
    ASSUME NEW a \in Nat, NEW b \in Nat
    PROVE  a * b \in Nat
  BY SMT

(* ... and grow with their factors.                                          *)
LEMMA ProductsGrow ==
    ASSUME NEW a \in Nat, NEW b \in Nat, NEW c \in Nat, a <= b
    PROVE  a * c <= b * c
  BY SMT

(* Below n * d, the quotient by d is below n.                                *)
LEMMA QuotientBelow ==
    ASSUME NEW m \in Nat, NEW n \in Nat, NEW d \in Nat \ {0}, m < n * d
    PROVE  m \div d \in Nat /\ m \div d < n
  <1>1. m \div d \in Nat /\ m % d \in Nat /\ m = (m \div d) * d + (m % d)
    BY Division
  <1>2. SUFFICES ASSUME n <= m \div d PROVE FALSE
    BY <1>1, SMT
  <1>3. n * d <= (m \div d) * d
    BY <1>1, <1>2, ProductsGrow
  <1>. QED  BY <1>1, <1>3, ProductIsNat, SMT

(* A source row or column of nearest-neighbour scaling is one of the source. *)
LEMMA ScaledCoordinate ==
    ASSUME NEW t \in Nat, NEW target \in Nat, NEW source \in Nat \ {0}, t < target
    PROVE  (t * source) \div target \in 0 .. source - 1
  <1>1. (t + 1) * source <= target * source
    BY ProductsGrow
  <1>2. t * source < source * target /\ t * source \in Nat
    BY <1>1, ProductIsNat, SMT
  <1>. QED  BY <1>2, QuotientBelow

-----------------------------------------------------------------------------
(* A pixel of a row of w pixels ends inside a stride of at least 3 * w.      *)
LEMMA RowHolds ==
    ASSUME NEW start \in Nat, NEW end \in Nat, NEW stride \in Nat, NEW w \in Nat,
           NEW c \in Nat, c < w, 3 * w <= stride, start + stride <= end
    PROVE  start + c * 3 \in Nat /\ start + c * 3 + 3 <= end
  BY SMT

(* The same for four bytes per pixel, behind an offset.                      *)
LEMMA PixelHolds ==
    ASSUME NEW start \in Nat, NEW row \in Nat, NEW lastRow \in Nat, row <= lastRow,
           NEW w \in Nat, NEW c \in 0 .. w - 1, NEW end \in Nat, start + lastRow + 4 * w <= end
    PROVE  start + row + c * 4 \in Nat /\ start + row + c * 4 + 4 <= end
  BY SMT

(* The pixel `index` of an accepted frame has its three bytes inside it.     *)
LEMMA OffsetInBounds ==
    ASSUME NEW f, IsRgbFrame(f), NEW index \in 0 .. f.width * f.height - 1
    PROVE  Offset(f, index) \in Nat /\ Offset(f, index) + 3 <= Len(f.pixels)
  <1> DEFINE row == index \div f.width
             column == index % f.width
  <1>1. /\ f.width \in Nat \ {0} /\ f.height \in Nat \ {0} /\ f.stride \in Nat
        /\ 3 * f.width <= f.stride /\ Len(f.pixels) = f.stride * f.height
    BY DEF IsRgbFrame, Accepts
  <1>2. f.width * f.height \in Nat /\ f.width * f.height = f.height * f.width
    BY <1>1, SMT
  <1>3. index \in Nat /\ index < f.height * f.width
    BY <1>2, SMT
  <1>4. row \in Nat /\ column \in Nat /\ column < f.width /\ row < f.height
    BY <1>1, <1>3, Division, QuotientBelow
  <1> HIDE DEF row, column
  <1>5. (row + 1) * f.stride <= f.height * f.stride
    <2>1. row + 1 \in Nat /\ row + 1 <= f.height
      BY <1>1, <1>4, SMT
    <2>. QED  BY <1>1, <2>1, ProductsGrow
  <1>6. row * f.stride \in Nat /\ (row + 1) * f.stride = row * f.stride + f.stride
    BY <1>1, <1>4, SMT
  <1>7. f.height * f.stride = f.stride * f.height
    BY <1>1, SMT
  <1>8. Len(f.pixels) \in Nat
    BY <1>1, ProductIsNat
  <1>9. row * f.stride + column * 3 \in Nat
        /\ row * f.stride + column * 3 + 3 <= Len(f.pixels)
    BY <1>1, <1>4, <1>5, <1>6, <1>7, <1>8, RowHolds
  <1>. QED  BY <1>9 DEF Offset, row, column

-----------------------------------------------------------------------------
(* proportional_dimensions answers with a size that a frame can have.        *)
LEMMA ProportionalIsPositive ==
    ASSUME NEW w \in Nat, NEW h \in Nat, NEW t \in Nat,
           ProportionalDimensions(w, h, t) # NoDimensions
    PROVE  /\ w # 0 /\ h # 0 /\ t # 0
           /\ ProportionalDimensions(w, h, t)[1] = t
           /\ ProportionalDimensions(w, h, t)[2] \in 1 .. U32Max + 1
  <1> DEFINE height == (h * t + (w \div 2)) \div w
  <1>1. w # 0 /\ h # 0 /\ t # 0
    BY DEF ProportionalDimensions
  <1>2. ~(height > U32Max) /\ ProportionalDimensions(w, h, t) = <<t, AtLeastOne(height)>>
    BY <1>1 DEF ProportionalDimensions
  <1>3. w \div 2 \in Nat /\ h * t \in Nat
    BY Division, ProductIsNat
  <1>4. h * t + (w \div 2) \in Nat
    BY <1>3, SMT
  <1>5. height \in Nat
    BY <1>1, <1>4, Division
  <1> HIDE DEF height
  <1>6. AtLeastOne(height) \in 1 .. U32Max + 1
    BY <1>2, <1>5, WidthsAssumption, SMT DEF AtLeastOne
  <1>. QED  BY <1>1, <1>2, <1>6

(* Every byte that frame_from_mapped_bgrx reads is inside the mapped buffer, *)
(* whatever the offset and the stride of a plane it does not refuse.         *)
THEOREM DecodingInBounds ==
    ASSUME NEW format, NEW plane, NEW target,
           format.width \in Nat, format.height \in Nat,
           plane.offset \in Nat, plane.stride \in Int, plane.data \in Seq(0..255),
           target = ProportionalDimensions(format.width, format.height, OUTPUT_WIDTH),
           Decodable(format, plane),
           NEW x \in 0 .. target[1] - 1, NEW y \in 0 .. target[2] - 1
    PROVE  /\ SourceOffset(format, plane, target, x, y) \in Nat
           /\ SourceOffset(format, plane, target, x, y) + BYTES_PER_PIXEL <= Len(plane.data)
  <1> DEFINE row == (y * format.height) \div target[2]
             column == (x * format.width) \div target[1]
  <1>1. /\ format.width \in Nat \ {0} /\ format.height \in Nat \ {0}
        /\ target[1] \in Nat \ {0} /\ target[2] \in Nat \ {0}
    BY ProportionalIsPositive, WidthsAssumption DEF Decodable, OUTPUT_WIDTH
  <1>2. row \in 0 .. format.height - 1 /\ column \in 0 .. format.width - 1
    <2>1. y \in Nat /\ y < target[2] /\ x \in Nat /\ x < target[1]
      BY <1>1, SMT
    <2>2. row \in 0 .. format.height - 1
      BY <1>1, <2>1, ScaledCoordinate
    <2>3. column \in 0 .. format.width - 1
      BY <1>1, <2>1, ScaledCoordinate
    <2>. QED  BY <2>2, <2>3
  <1> HIDE DEF row, column
  <1>3. /\ 4 * format.width <= plane.stride /\ plane.stride \in Nat
        /\ plane.offset + plane.stride * (format.height - 1) + 4 * format.width <= Len(plane.data)
    BY <1>1 DEF Decodable, MinimumStride, Required, BYTES_PER_PIXEL
  <1>4. /\ row * plane.stride \in Nat
        /\ row * plane.stride <= plane.stride * (format.height - 1)
    <2>1. row \in Nat /\ format.height - 1 \in Nat /\ row <= format.height - 1
      BY <1>1, <1>2
    <2>2. (format.height - 1) * plane.stride = plane.stride * (format.height - 1)
      BY <1>3, <2>1
    <2>. QED  BY <1>3, <2>1, <2>2, ProductsGrow, ProductIsNat
  <1>5. plane.stride * (format.height - 1) \in Nat /\ Len(plane.data) \in Nat
    <2>1. format.height - 1 \in Nat
      BY <1>1, SMT
    <2>2. Len(plane.data) \in Nat
      OBVIOUS
    <2>. QED  BY <1>3, <2>1, <2>2, ProductIsNat
  <1>6. /\ plane.offset + row * plane.stride + column * 4 \in Nat
        /\ plane.offset + row * plane.stride + column * 4 + 4 <= Len(plane.data)
    BY <1>1, <1>2, <1>3, <1>4, <1>5, PixelHolds
  <1>. QED  BY <1>6 DEF SourceOffset, row, column, BYTES_PER_PIXEL
-----------------------------------------------------------------------------
(* Every centre is in some zone, for any layout.                             *)
LEMMA ZoneOfIsZone ==
    ASSUME NEW layout, NEW index, NEW width, NEW height
    PROVE  ZoneOf(layout, index, width, height) \in ZoneIds
  <1>1. ASSUME NEW x, NEW y PROVE G560ZoneAtPixel(x, y, width, height) \in ZoneIds
    BY DEF G560ZoneAtPixel, ZoneIds
  <1>2. ASSUME NEW x, NEW y PROVE PolygonZone(layout, x, y, width, height) \in ZoneIds
    <2> DEFINE containing == {i \in 1..4 : Contains(layout[ZONES[i]], x, y, width, height)}
    <2>1. FallbackZone(x, y, width, height) \in ZoneIds
      BY DEF FallbackZone, ZoneIds
    <2>2. ASSUME NEW S \in SUBSET (1..4), S # {}
          PROVE  (CHOOSE i \in S : \A j \in S : i <= j) \in 1..4
      <3>1. \E i \in S : \A j \in S : i <= j
        <4>1. CASE 1 \in S  BY <4>1
        <4>2. CASE 1 \notin S /\ 2 \in S  BY <4>2
        <4>3. CASE 1 \notin S /\ 2 \notin S /\ 3 \in S  BY <4>3
        <4>4. CASE 1 \notin S /\ 2 \notin S /\ 3 \notin S
          <5>1. ASSUME NEW j \in S PROVE j = 4
            <6>1. j \in 1..4 /\ j # 1 /\ j # 2 /\ j # 3  BY <4>4
            <6>. QED  BY <6>1
          <5>2. PICK k \in S : k = 4  BY <2>2, <5>1
          <5>3. \A j \in S : k <= j  BY <5>1, <5>2
          <5>. QED  BY <5>3
        <4>. QED  BY <4>1, <4>2, <4>3, <4>4
      <3>. QED  BY <3>1
    <2>3. ASSUME NEW i \in 1..4 PROVE ZONES[i] \in ZoneIds
      <3>1. i = 1 \/ i = 2 \/ i = 3 \/ i = 4  OBVIOUS
      <3>. QED  BY <3>1 DEF ZONES, ZoneIds
    <2>4. CASE containing = {}
      BY <2>1, <2>4 DEF PolygonZone
    <2>5. CASE containing # {}
      <3>1. (CHOOSE i \in containing : \A j \in containing : i <= j) \in 1..4
        BY <2>2, <2>5
      <3>. QED  BY <2>3, <2>5, <3>1 DEF PolygonZone
    <2>. QED  BY <2>4, <2>5
  <1>. QED  BY <1>1, <1>2 DEF ZoneOf

(* The masks of any layout and size share out the pixels: each index is in   *)
(* the mask of exactly one zone, and zone_at finds that zone.                *)
THEOREM MasksShareTheScreen ==
    ASSUME NEW layout, NEW width \in Nat, NEW height \in Nat,
           NEW x \in 0 .. width - 1, NEW y \in 0 .. height - 1
    PROVE  LET masks == Compile(layout, width, height)
               index == y * width + x
           IN /\ \A zone \in ZoneIds :
                     index \in masks.indices[zone]
                         <=> zone = ZoneOf(layout, index, width, height)
              /\ ZoneAt(masks, x, y) = ZoneOf(layout, index, width, height)
  <1> DEFINE masks == Compile(layout, width, height)
             index == y * width + x
  <1>1. index \in 0 .. width * height - 1
    <2>1. y + 1 \in Nat /\ y + 1 <= height /\ width \in Nat /\ x \in Nat /\ x < width
      OBVIOUS
    <2>2. (y + 1) * width <= height * width
      BY <2>1, ProductsGrow
    <2>3. (y + 1) * width = y * width + width /\ y * width \in Nat
          /\ height * width = width * height /\ width * height \in Nat
      BY <2>1, SMT
    <2>. QED  BY <2>1, <2>2, <2>3, SMT
  <1> HIDE DEF index
  <1>2. ASSUME NEW zone \in ZoneIds
        PROVE  index \in masks.indices[zone] <=> zone = ZoneOf(layout, index, width, height)
    BY <1>1 DEF Compile
  <1>3. masks.width = width
    BY DEF Compile
  <1>4. y * masks.width + x = index
    BY <1>3 DEF index
  <1> HIDE DEF masks
  <1>5. ZoneAt(masks, x, y) = ZoneOf(layout, index, width, height)
    BY <1>2, <1>4, ZoneOfIsZone DEF ZoneAt
  <1>. QED  BY <1>2, <1>5 DEF masks, index

(* The coordinator samples with masks of the frame's own size, whatever size *)
(* came before, so sample_zones does not panic, and each pixel that a mask   *)
(* names has its three bytes inside the frame.                               *)
THEOREM SamplingInBounds ==
    ASSUME NEW layout, NEW cached,
           cached = NoMasks \/ \E w, h \in Nat : cached = Compile(layout, w, h),
           NEW f, IsRgbFrame(f),
           NEW masks, masks = GetOrCompile(cached, layout, f.width, f.height),
           NEW zone \in ZoneIds
    PROVE  /\ Fits(f, masks)
           /\ \A index \in masks.indices[zone] :
                  Offset(f, index) \in Nat
                      /\ Offset(f, index) + 3 <= Len(f.pixels)
  <1>1. masks = Compile(layout, f.width, f.height)
    <2>1. CASE cached = NoMasks \/ cached.width # f.width \/ cached.height # f.height
      BY <2>1 DEF GetOrCompile
    <2>2. CASE ~(cached = NoMasks \/ cached.width # f.width
                    \/ cached.height # f.height)
      BY <2>2 DEF GetOrCompile, Compile
    <2>. QED  BY <2>1, <2>2
  <1>2. Fits(f, masks)
    BY <1>1 DEF Compile, Fits
  <1>3. masks.indices[zone] \subseteq 0 .. f.width * f.height - 1
    BY <1>1 DEF Compile
  <1>. QED  BY <1>2, <1>3, OffsetInBounds
-----------------------------------------------------------------------------
(* Mirror image of a zone.                                                   *)
Mirrored(zone) == CASE zone = "LeftRear"   -> "RightRear"
                    [] zone = "LeftFront"  -> "RightFront"
                    [] zone = "RightFront" -> "LeftFront"
                    [] zone = "RightRear"  -> "LeftRear"

(* The masks are mirror symmetric at every size, and the middle column of an *)
(* odd width belongs to the right front zone down to the last row            *)
(* (docs/color-pipeline.md:33-39): nothing flips sides when a window or a    *)
(* monitor is resized by a pixel.                                            *)
THEOREM MasksAreMirrored ==
    ASSUME NEW width \in Nat, NEW height \in Nat,
           NEW x \in 0 .. width - 1, NEW y \in 0 .. height - 1
    PROVE  G560ZoneAtPixel(width - 1 - x, y, width, height)
               = IF 2 * x + 1 = width THEN "RightFront"
                 ELSE Mirrored(G560ZoneAtPixel(x, y, width, height))
  <1>1. LeftX(width - 1 - x, width) = LeftX(x, width)
    BY DEF LeftX
  <1>2. Front(width - 1 - x, y, width, height) <=> Front(x, y, width, height)
    BY <1>1 DEF Front, DoubledXCentre
  <1>3. CASE 2 * x + 1 = width
    <2>1. width - 1 - x = x /\ RightHalf(x, width) /\ DoubledXCentre(x, width) = width
      BY <1>3 DEF RightHalf, DoubledXCentre, LeftX
    <2>2. Front(x, y, width, height)
      <3> DEFINE cy == DoubledYCentre(y)
      <3>1. cy \in Nat
        BY DEF DoubledYCentre
      <3>2. width * cy \in Nat /\ width * height \in Nat /\ height * width = width * height
        BY <3>1, ProductIsNat
      <3>3. height * (width - width) = 0
        BY SMT
      <3> HIDE DEF cy
      <3>4. 70 * (height * (width - width)) <= 33 * (width * cy)
        BY <3>2, <3>3, SMT
      <3>5. 100 * (height * width) + 10 * (width * cy) >= 48 * (width * height)
        BY <3>2, SMT
      <3>. QED  BY <2>1, <3>4, <3>5 DEF Front, cy
    <2>. QED  BY <1>3, <2>1, <2>2 DEF G560ZoneAtPixel
  <1>4. CASE 2 * x + 1 # width
    <2>1. RightHalf(width - 1 - x, width) <=> ~RightHalf(x, width)
      BY <1>4 DEF RightHalf
    <2>. QED  BY <1>2, <1>4, <2>1 DEF G560ZoneAtPixel, Mirrored
  <1>. QED  BY <1>3, <1>4
-----------------------------------------------------------------------------
(* Where a centre lies, in products that make every comparison linear: how   *)
(* far across and how far down the screen, in halves of a pixel, each times  *)
(* the other side of the screen.                                             *)
Across(x, height) == height * (2 * x + 1)
Down(y, width)    == width * (2 * y + 1)
Area(width, height) == width * height

(* The boundary between rear and front zone on the left, and on the right,   *)
(* above the knee and below it.                                              *)
Upper(q, area)       == 70 * area > 50 * q
OuterLeft(p, q, area) ==
    IF Upper(q, area) THEN 70 * p + 33 * q < 70 * area ELSE 100 * p + 10 * q < 48 * area
InnerRight(p, q, area) ==
    IF Upper(q, area) THEN 70 * p < 70 * area + 33 * q ELSE 100 * p < 152 * area + 10 * q

(* An edge from one vertex to the next, and whether the ray crosses it.      *)
Crossed(px, py, cx, cy, p, q, area) ==
    /\ ~(cy * area > 50 * q <=> py * area > 50 * q)
    /\ IF py - cy > 0
       THEN (py - cy) * (50 * p - cx * area) < (px - cx) * (50 * q - cy * area)
       ELSE (py - cy) * (50 * p - cx * area) > (px - cx) * (50 * q - cy * area)

(* A factor that is not zero does not change an order.                       *)
LEMMA OrderScales ==
    ASSUME NEW m \in Int, NEW n \in Int, NEW d \in Nat \ {0}
    PROVE  m > n <=> m * d > n * d
  <1>1. ASSUME NEW e \in Nat PROVE e * d >= 0
    BY SMT
  <1>2. ASSUME NEW e \in Nat \ {0} PROVE e * d > 0
    BY SMT
  <1>3. CASE m > n
    <2>1. (m - n) * d > 0
      BY <1>2, <1>3
    <2>2. (m - n) * d = m * d - n * d
      BY SMT
    <2>3. m * d \in Int /\ n * d \in Int
      BY SMT
    <2> QED BY <1>3, <2>1, <2>2, <2>3
  <1>4. CASE m <= n
    <2>1. (n - m) * d >= 0
      BY <1>1, <1>4
    <2>2. (n - m) * d = n * d - m * d
      BY SMT
    <2>3. m * d \in Int /\ n * d \in Int
      BY SMT
    <2> QED BY <1>4, <2>1, <2>2, <2>3
  <1> QED BY <1>3, <1>4

LEMMA CentreIsInside ==
    ASSUME NEW width \in Nat, NEW height \in Nat,
           NEW x \in 0 .. width - 1, NEW y \in 0 .. height - 1
    PROVE  /\ Across(x, height) \in Nat /\ Down(y, width) \in Nat /\ Area(width, height) \in Nat
           /\ 0 < Across(x, height) /\ Across(x, height) < 2 * Area(width, height)
           /\ 0 < Down(y, width) /\ Down(y, width) < 2 * Area(width, height)
           /\ \A n \in Int : n * height > 50 * (2 * y + 1) <=> n * Area(width, height) > 50 * Down(y, width)
           /\ \A n \in Int : n * height < 50 * (2 * y + 1) <=> n * Area(width, height) < 50 * Down(y, width)
           /\ 2 * x + 1 < width <=> Across(x, height) < Area(width, height)
  <1> DEFINE a == 2 * x + 1
             b == 2 * y + 1
  <1>1. /\ width \in Nat \ {0} /\ height \in Nat \ {0} /\ a \in Nat /\ b \in Nat
        /\ 0 < a /\ a < 2 * width /\ 0 < b /\ b < 2 * height
    OBVIOUS
  <1> HIDE DEF a, b
  <1>2. /\ height * a = a * height /\ width * b = b * width
        /\ width * height \in Nat /\ a * height \in Nat /\ b * width \in Nat
        /\ (2 * width) * height = 2 * (width * height) /\ (2 * height) * width = 2 * (width * height)
        /\ 0 * height = 0 /\ 0 * width = 0
    BY <1>1, SMT
  <1>3. a * height > 0 * height /\ (2 * width) * height > a * height
    BY <1>1, OrderScales
  <1>4. b * width > 0 * width /\ (2 * height) * width > b * width
    BY <1>1, OrderScales
  <1>5. ASSUME NEW n \in Int
        PROVE  /\ n * height > 50 * b <=> n * (width * height) > 50 * (width * b)
               /\ n * height < 50 * b <=> n * (width * height) < 50 * (width * b)
    <2>1. (n * height) * width = n * (width * height) /\ (50 * b) * width = 50 * (width * b)
          /\ n * height \in Int /\ 50 * b \in Int
      BY <1>1, SMT
    <2>2. n * height > 50 * b <=> (n * height) * width > (50 * b) * width
      BY <1>1, <2>1, OrderScales
    <2>3. 50 * b > n * height <=> (50 * b) * width > (n * height) * width
      BY <1>1, <2>1, OrderScales
    <2>4. (n * height) * width \in Int /\ (50 * b) * width \in Int
      BY <1>1, SMT
    <2> QED BY <2>1, <2>2, <2>3, <2>4
  <1>6. width > a <=> width * height > a * height
    BY <1>1, OrderScales
  <1>7. a < width <=> height * a < width * height
    BY <1>1, <1>2, <1>6
  <1>8. /\ height * a \in Nat /\ width * b \in Nat
        /\ 0 < height * a /\ height * a < 2 * (width * height)
        /\ 0 < width * b /\ width * b < 2 * (width * height)
    BY <1>2, <1>3, <1>4
  <1> QED BY <1>2, <1>5, <1>7, <1>8 DEF Across, Down, Area, a, b

LEMMA ProductsOfCentre ==
    ASSUME NEW width \in Int, NEW height \in Int
    PROVE  /\ \A a, c, r \in Int :
                 (50 * a - c * width) * height * r = r * (50 * (height * a) - c * (width * height))
           /\ \A b, c, r \in Int :
                 r * (50 * b - c * height) * width = r * (50 * (width * b) - c * (width * height))
  BY SMT

LEMMA EdgeCrossed ==
    ASSUME NEW width \in Nat, NEW height \in Nat,
           NEW x \in 0 .. width - 1, NEW y \in 0 .. height - 1,
           NEW px \in Int, NEW py \in Int, NEW cx \in Int, NEW cy \in Int,
           NEW p, p = Across(x, height), NEW q, q = Down(y, width),
           NEW area, area = Area(width, height)
    PROVE  Crosses(At(px, py), At(cx, cy), x, y, width, height)
             <=> Crossed(px, py, cx, cy, p, q, area)
  <1> DEFINE rise == py - cy
             left == (50 * (2 * x + 1) - cx * width) * height * rise
             edge == (px - cx) * (50 * (2 * y + 1) - cy * height) * width
  <1>1. /\ cy * height > 50 * (2 * y + 1) <=> cy * area > 50 * q
        /\ py * height > 50 * (2 * y + 1) <=> py * area > 50 * q
    BY CentreIsInside
  <1>2. x \in Int /\ y \in Int /\ width \in Int /\ height \in Int
    OBVIOUS
  <1>3. left = rise * (50 * p - cx * area)
    <2>1. 2 * x + 1 \in Int /\ rise \in Int
      BY <1>2
    <2> HIDE DEF rise
    <2> QED BY <1>2, <2>1, ProductsOfCentre DEF Across, Area
  <1>4. edge = (px - cx) * (50 * q - cy * area)
    <2>1. 2 * y + 1 \in Int /\ px - cx \in Int
      BY <1>2
    <2> QED BY <1>2, <2>1, ProductsOfCentre DEF Down, Area
  <1>5. Crosses(At(px, py), At(cx, cy), x, y, width, height)
             <=> /\ ~(cy * height > 50 * (2 * y + 1) <=> py * height > 50 * (2 * y + 1))
                 /\ IF rise > 0 THEN left < edge ELSE left > edge
    <2>1. /\ At(px, py).x = px /\ At(px, py).y = py /\ At(cx, cy).x = cx /\ At(cx, cy).y = cy
      BY DEF At
    <2>2. ((cy * height > 50 * (2 * y + 1)) # (py * height > 50 * (2 * y + 1)))
             <=> ~(cy * height > 50 * (2 * y + 1) <=> py * height > 50 * (2 * y + 1))
      OBVIOUS
    <2> QED BY <2>1, <2>2, Zenon DEF Crosses
  <1> HIDE DEF left, edge
  <1> QED BY <1>1, <1>3, <1>4, <1>5 DEF Crossed, rise

(* A count of at most two crossings, and its parity.                         *)
LEMMA ParityOfFew ==
    /\ Cardinality({}) % 2 = 0
    /\ \A i : Cardinality({i}) % 2 = 1
    /\ \A i, j : i # j => Cardinality({i, j}) % 2 = 0
  <1>1. Cardinality({}) = 0
    BY FS_EmptySet
  <1>2. \A i : Cardinality({i}) = 1 /\ IsFiniteSet({i})
    BY FS_Singleton
  <1>3. ASSUME NEW i, NEW j, i # j PROVE Cardinality({i, j}) = 2
    <2>1. {i, j} = {i} \cup {j} /\ j \notin {i}
      BY <1>3
    <2>2. Cardinality({i} \cup {j}) = Cardinality({i}) + 1
      BY <1>2, <2>1, FS_AddElement
    <2> QED BY <1>2, <2>1, <2>2
  <1>4. 0 % 2 = 0 /\ 1 % 2 = 1 /\ 2 % 2 = 0
    OBVIOUS
  <1> QED BY <1>1, <1>2, <1>3, <1>4

(* The four polygons of the built-in layout: the parity of what a ray crosses *)
(* comes to one comparison on either side of the knee.                       *)
LEMMA LeftRearContains ==
    ASSUME NEW width \in Nat, NEW height \in Nat,
           NEW x \in 0 .. width - 1, NEW y \in 0 .. height - 1,
           NEW p, p = Across(x, height), NEW q, q = Down(y, width),
           NEW area, area = Area(width, height)
    PROVE  Contains(G560Layout["LeftRear"], x, y, width, height)
               <=> OuterLeft(p, q, area)
  <1> DEFINE v == G560Layout["LeftRear"]
             C(i) == Crosses(Previous(v, i), v[i], x, y, width, height)
  <1>1. /\ Len(v) = 5 /\ DOMAIN v = 1..5
        /\ v[1] = At(0, 0) /\ v[2] = At(50, 0) /\ v[3] = At(17, 70) /\ v[4] = At(14, 100) /\ v[5] = At(0, 100)
    BY DEF G560Layout
  <1>2. p \in Nat /\ q \in Nat /\ area \in Nat /\ 0 < p /\ p < 2 * area /\ 0 < q /\ q < 2 * area
    BY CentreIsInside
  <1>3. \A px, py, cx, cy \in Int : Crosses(At(px, py), At(cx, cy), x, y, width, height)
                                      <=> Crossed(px, py, cx, cy, p, q, area)
    BY EdgeCrossed
  <1> HIDE DEF v
  <1>4. ~C(1)
    <2>1. C(1) <=> Crosses(At(0, 100), At(0, 0), x, y, width, height)
      BY <1>1 DEF Previous
    <2>2. C(1) <=> Crossed(0, 100, 0, 0, p, q, area)
      <3>1. Crosses(At(0, 100), At(0, 0), x, y, width, height)
              <=> Crossed(0, 100, 0, 0, p, q, area)
        BY <1>3
      <3> QED BY <2>1, <3>1
    <2> QED BY <1>2, <2>2 DEF Crossed, Upper
  <1>5. ~C(2)
    <2>1. C(2) <=> Crosses(At(0, 0), At(50, 0), x, y, width, height)
      BY <1>1 DEF Previous
    <2>2. C(2) <=> Crossed(0, 0, 50, 0, p, q, area)
      <3>1. Crosses(At(0, 0), At(50, 0), x, y, width, height)
              <=> Crossed(0, 0, 50, 0, p, q, area)
        BY <1>3
      <3> QED BY <2>1, <3>1
    <2> QED BY <1>2, <2>2 DEF Crossed, Upper
  <1>6. C(3) <=> Upper(q, area) /\ 70 * p + 33 * q < 70 * area
    <2>1. C(3) <=> Crosses(At(50, 0), At(17, 70), x, y, width, height)
      BY <1>1 DEF Previous
    <2>2. C(3) <=> Crossed(50, 0, 17, 70, p, q, area)
      <3>1. Crosses(At(50, 0), At(17, 70), x, y, width, height)
              <=> Crossed(50, 0, 17, 70, p, q, area)
        BY <1>3
      <3> QED BY <2>1, <3>1
    <2> QED BY <1>2, <2>2 DEF Crossed, Upper
  <1>7. C(4) <=> ~Upper(q, area) /\ 100 * p + 10 * q < 48 * area
    <2>1. C(4) <=> Crosses(At(17, 70), At(14, 100), x, y, width, height)
      BY <1>1 DEF Previous
    <2>2. C(4) <=> Crossed(17, 70, 14, 100, p, q, area)
      <3>1. Crosses(At(17, 70), At(14, 100), x, y, width, height)
              <=> Crossed(17, 70, 14, 100, p, q, area)
        BY <1>3
      <3> QED BY <2>1, <3>1
    <2> QED BY <1>2, <2>2 DEF Crossed, Upper
  <1>8. ~C(5)
    <2>1. C(5) <=> Crosses(At(14, 100), At(0, 100), x, y, width, height)
      BY <1>1 DEF Previous
    <2>2. C(5) <=> Crossed(14, 100, 0, 100, p, q, area)
      <3>1. Crosses(At(14, 100), At(0, 100), x, y, width, height)
              <=> Crossed(14, 100, 0, 100, p, q, area)
        BY <1>3
      <3> QED BY <2>1, <3>1
    <2> QED BY <1>2, <2>2 DEF Crossed, Upper
  <1> HIDE DEF C
  <1>9. \A i \in DOMAIN v : i = 1 \/ i = 2 \/ i = 3 \/ i = 4 \/ i = 5
    BY <1>1
  <1>10. 3 \in DOMAIN v /\ 4 \in DOMAIN v
    BY <1>1
  <1>11. CASE C(3)
    <2>1. {i \in DOMAIN v : C(i)} = {3}
      <3>1. ~C(1) /\ ~C(2) /\ C(3) /\ ~C(4) /\ ~C(5)
        BY <1>2, <1>4, <1>5, <1>6, <1>7, <1>8, <1>11 DEF Upper
      <3> QED BY <1>9, <1>10, <3>1
    <2>2. Contains(v, x, y, width, height)
      <3>1. Cardinality({i \in DOMAIN v : C(i)}) % 2 = 1
        BY <2>1, ParityOfFew
      <3> QED BY <3>1 DEF Contains, C
    <2> QED BY <1>2, <1>4, <1>5, <1>6, <1>7, <1>8, <1>11, <2>2 DEF OuterLeft, InnerRight, Upper, v
  <1>12. CASE C(4)
    <2>1. {i \in DOMAIN v : C(i)} = {4}
      <3>1. ~C(1) /\ ~C(2) /\ ~C(3) /\ C(4) /\ ~C(5)
        BY <1>2, <1>4, <1>5, <1>6, <1>7, <1>8, <1>12 DEF Upper
      <3> QED BY <1>9, <1>10, <3>1
    <2>2. Contains(v, x, y, width, height)
      <3>1. Cardinality({i \in DOMAIN v : C(i)}) % 2 = 1
        BY <2>1, ParityOfFew
      <3> QED BY <3>1 DEF Contains, C
    <2> QED BY <1>2, <1>4, <1>5, <1>6, <1>7, <1>8, <1>12, <2>2 DEF OuterLeft, InnerRight, Upper, v
  <1>13. CASE ~C(3) /\ ~C(4)
    <2>1. {i \in DOMAIN v : C(i)} = {}
      <3>1. ~C(1) /\ ~C(2) /\ ~C(3) /\ ~C(4) /\ ~C(5)
        BY <1>2, <1>4, <1>5, <1>6, <1>7, <1>8, <1>13 DEF Upper
      <3> QED BY <1>9, <1>10, <3>1
    <2>2. ~Contains(v, x, y, width, height)
      <3>1. Cardinality({i \in DOMAIN v : C(i)}) % 2 = 0
        BY <2>1, ParityOfFew
      <3> QED BY <3>1 DEF Contains, C
    <2> QED BY <1>2, <1>4, <1>5, <1>6, <1>7, <1>8, <1>13, <2>2 DEF OuterLeft, InnerRight, Upper, v
  <1> QED BY <1>2, <1>4, <1>5, <1>6, <1>7, <1>8, <1>11, <1>12, <1>13 DEF Upper

LEMMA LeftFrontContains ==
    ASSUME NEW width \in Nat, NEW height \in Nat,
           NEW x \in 0 .. width - 1, NEW y \in 0 .. height - 1,
           NEW p, p = Across(x, height), NEW q, q = Down(y, width),
           NEW area, area = Area(width, height)
    PROVE  Contains(G560Layout["LeftFront"], x, y, width, height)
               <=> p < area /\ ~OuterLeft(p, q, area)
  <1> DEFINE v == G560Layout["LeftFront"]
             C(i) == Crosses(Previous(v, i), v[i], x, y, width, height)
  <1>1. /\ Len(v) = 4 /\ DOMAIN v = 1..4
        /\ v[1] = At(50, 0) /\ v[2] = At(50, 100) /\ v[3] = At(14, 100) /\ v[4] = At(17, 70)
    BY DEF G560Layout
  <1>2. p \in Nat /\ q \in Nat /\ area \in Nat /\ 0 < p /\ p < 2 * area /\ 0 < q /\ q < 2 * area
    BY CentreIsInside
  <1>3. \A px, py, cx, cy \in Int : Crosses(At(px, py), At(cx, cy), x, y, width, height)
                                      <=> Crossed(px, py, cx, cy, p, q, area)
    BY EdgeCrossed
  <1> HIDE DEF v
  <1>4. C(1) <=> Upper(q, area) /\ 70 * p + 33 * q < 70 * area
    <2>1. C(1) <=> Crosses(At(17, 70), At(50, 0), x, y, width, height)
      BY <1>1 DEF Previous
    <2>2. C(1) <=> Crossed(17, 70, 50, 0, p, q, area)
      <3>1. Crosses(At(17, 70), At(50, 0), x, y, width, height)
              <=> Crossed(17, 70, 50, 0, p, q, area)
        BY <1>3
      <3> QED BY <2>1, <3>1
    <2> QED BY <1>2, <2>2 DEF Crossed, Upper
  <1>5. C(2) <=> p < area
    <2>1. C(2) <=> Crosses(At(50, 0), At(50, 100), x, y, width, height)
      BY <1>1 DEF Previous
    <2>2. C(2) <=> Crossed(50, 0, 50, 100, p, q, area)
      <3>1. Crosses(At(50, 0), At(50, 100), x, y, width, height)
              <=> Crossed(50, 0, 50, 100, p, q, area)
        BY <1>3
      <3> QED BY <2>1, <3>1
    <2> QED BY <1>2, <2>2 DEF Crossed, Upper
  <1>6. ~C(3)
    <2>1. C(3) <=> Crosses(At(50, 100), At(14, 100), x, y, width, height)
      BY <1>1 DEF Previous
    <2>2. C(3) <=> Crossed(50, 100, 14, 100, p, q, area)
      <3>1. Crosses(At(50, 100), At(14, 100), x, y, width, height)
              <=> Crossed(50, 100, 14, 100, p, q, area)
        BY <1>3
      <3> QED BY <2>1, <3>1
    <2> QED BY <1>2, <2>2 DEF Crossed, Upper
  <1>7. C(4) <=> ~Upper(q, area) /\ 100 * p + 10 * q < 48 * area
    <2>1. C(4) <=> Crosses(At(14, 100), At(17, 70), x, y, width, height)
      BY <1>1 DEF Previous
    <2>2. C(4) <=> Crossed(14, 100, 17, 70, p, q, area)
      <3>1. Crosses(At(14, 100), At(17, 70), x, y, width, height)
              <=> Crossed(14, 100, 17, 70, p, q, area)
        BY <1>3
      <3> QED BY <2>1, <3>1
    <2> QED BY <1>2, <2>2 DEF Crossed, Upper
  <1> HIDE DEF C
  <1>8. \A i \in DOMAIN v : i = 1 \/ i = 2 \/ i = 3 \/ i = 4
    BY <1>1
  <1>9. 1 \in DOMAIN v /\ 2 \in DOMAIN v /\ 4 \in DOMAIN v
    BY <1>1
  <1>10. CASE C(1)
    <2>1. {i \in DOMAIN v : C(i)} = {1, 2}
      <3>1. C(1) /\ C(2) /\ ~C(3) /\ ~C(4)
        BY <1>2, <1>4, <1>5, <1>6, <1>7, <1>10 DEF Upper
      <3> QED BY <1>8, <1>9, <3>1
    <2>2. ~Contains(v, x, y, width, height)
      <3>1. Cardinality({i \in DOMAIN v : C(i)}) % 2 = 0
        <4>1. 1 # 2
          OBVIOUS
        <4>2. Cardinality({1, 2}) % 2 = 0
          BY <4>1, ParityOfFew, Zenon
        <4> QED BY <2>1, <4>2
      <3> QED BY <3>1 DEF Contains, C
    <2> QED BY <1>2, <1>4, <1>5, <1>6, <1>7, <1>10, <2>2 DEF OuterLeft, InnerRight, Upper, v
  <1>11. CASE C(4)
    <2>1. {i \in DOMAIN v : C(i)} = {2, 4}
      <3>1. ~C(1) /\ C(2) /\ ~C(3) /\ C(4)
        BY <1>2, <1>4, <1>5, <1>6, <1>7, <1>11 DEF Upper
      <3> QED BY <1>8, <1>9, <3>1
    <2>2. ~Contains(v, x, y, width, height)
      <3>1. Cardinality({i \in DOMAIN v : C(i)}) % 2 = 0
        <4>1. 2 # 4
          OBVIOUS
        <4>2. Cardinality({2, 4}) % 2 = 0
          BY <4>1, ParityOfFew, Zenon
        <4> QED BY <2>1, <4>2
      <3> QED BY <3>1 DEF Contains, C
    <2> QED BY <1>2, <1>4, <1>5, <1>6, <1>7, <1>11, <2>2 DEF OuterLeft, InnerRight, Upper, v
  <1>12. CASE C(2) /\ ~C(1) /\ ~C(4)
    <2>1. {i \in DOMAIN v : C(i)} = {2}
      <3>1. ~C(1) /\ C(2) /\ ~C(3) /\ ~C(4)
        BY <1>2, <1>4, <1>5, <1>6, <1>7, <1>12 DEF Upper
      <3> QED BY <1>8, <1>9, <3>1
    <2>2. Contains(v, x, y, width, height)
      <3>1. Cardinality({i \in DOMAIN v : C(i)}) % 2 = 1
        BY <2>1, ParityOfFew
      <3> QED BY <3>1 DEF Contains, C
    <2> QED BY <1>2, <1>4, <1>5, <1>6, <1>7, <1>12, <2>2 DEF OuterLeft, InnerRight, Upper, v
  <1>13. CASE ~C(2)
    <2>1. {i \in DOMAIN v : C(i)} = {}
      <3>1. ~C(1) /\ ~C(2) /\ ~C(3) /\ ~C(4)
        BY <1>2, <1>4, <1>5, <1>6, <1>7, <1>13 DEF Upper
      <3> QED BY <1>8, <1>9, <3>1
    <2>2. ~Contains(v, x, y, width, height)
      <3>1. Cardinality({i \in DOMAIN v : C(i)}) % 2 = 0
        BY <2>1, ParityOfFew
      <3> QED BY <3>1 DEF Contains, C
    <2> QED BY <1>2, <1>4, <1>5, <1>6, <1>7, <1>13, <2>2 DEF OuterLeft, InnerRight, Upper, v
  <1> QED BY <1>2, <1>4, <1>5, <1>6, <1>7, <1>10, <1>11, <1>12, <1>13 DEF Upper

LEMMA RightFrontContains ==
    ASSUME NEW width \in Nat, NEW height \in Nat,
           NEW x \in 0 .. width - 1, NEW y \in 0 .. height - 1,
           NEW p, p = Across(x, height), NEW q, q = Down(y, width),
           NEW area, area = Area(width, height)
    PROVE  Contains(G560Layout["RightFront"], x, y, width, height)
               <=> ~(p < area) /\ InnerRight(p, q, area)
  <1> DEFINE v == G560Layout["RightFront"]
             C(i) == Crosses(Previous(v, i), v[i], x, y, width, height)
  <1>1. /\ Len(v) = 4 /\ DOMAIN v = 1..4
        /\ v[1] = At(50, 0) /\ v[2] = At(83, 70) /\ v[3] = At(86, 100) /\ v[4] = At(50, 100)
    BY DEF G560Layout
  <1>2. p \in Nat /\ q \in Nat /\ area \in Nat /\ 0 < p /\ p < 2 * area /\ 0 < q /\ q < 2 * area
    BY CentreIsInside
  <1>3. \A px, py, cx, cy \in Int : Crosses(At(px, py), At(cx, cy), x, y, width, height)
                                      <=> Crossed(px, py, cx, cy, p, q, area)
    BY EdgeCrossed
  <1> HIDE DEF v
  <1>4. C(1) <=> p < area
    <2>1. C(1) <=> Crosses(At(50, 100), At(50, 0), x, y, width, height)
      BY <1>1 DEF Previous
    <2>2. C(1) <=> Crossed(50, 100, 50, 0, p, q, area)
      <3>1. Crosses(At(50, 100), At(50, 0), x, y, width, height)
              <=> Crossed(50, 100, 50, 0, p, q, area)
        BY <1>3
      <3> QED BY <2>1, <3>1
    <2> QED BY <1>2, <2>2 DEF Crossed, Upper
  <1>5. C(2) <=> Upper(q, area) /\ 70 * p < 70 * area + 33 * q
    <2>1. C(2) <=> Crosses(At(50, 0), At(83, 70), x, y, width, height)
      BY <1>1 DEF Previous
    <2>2. C(2) <=> Crossed(50, 0, 83, 70, p, q, area)
      <3>1. Crosses(At(50, 0), At(83, 70), x, y, width, height)
              <=> Crossed(50, 0, 83, 70, p, q, area)
        BY <1>3
      <3> QED BY <2>1, <3>1
    <2> QED BY <1>2, <2>2 DEF Crossed, Upper
  <1>6. C(3) <=> ~Upper(q, area) /\ 100 * p < 152 * area + 10 * q
    <2>1. C(3) <=> Crosses(At(83, 70), At(86, 100), x, y, width, height)
      BY <1>1 DEF Previous
    <2>2. C(3) <=> Crossed(83, 70, 86, 100, p, q, area)
      <3>1. Crosses(At(83, 70), At(86, 100), x, y, width, height)
              <=> Crossed(83, 70, 86, 100, p, q, area)
        BY <1>3
      <3> QED BY <2>1, <3>1
    <2> QED BY <1>2, <2>2 DEF Crossed, Upper
  <1>7. ~C(4)
    <2>1. C(4) <=> Crosses(At(86, 100), At(50, 100), x, y, width, height)
      BY <1>1 DEF Previous
    <2>2. C(4) <=> Crossed(86, 100, 50, 100, p, q, area)
      <3>1. Crosses(At(86, 100), At(50, 100), x, y, width, height)
              <=> Crossed(86, 100, 50, 100, p, q, area)
        BY <1>3
      <3> QED BY <2>1, <3>1
    <2> QED BY <1>2, <2>2 DEF Crossed, Upper
  <1> HIDE DEF C
  <1>8. \A i \in DOMAIN v : i = 1 \/ i = 2 \/ i = 3 \/ i = 4
    BY <1>1
  <1>9. 1 \in DOMAIN v /\ 2 \in DOMAIN v /\ 3 \in DOMAIN v
    BY <1>1
  <1>10. CASE C(1) /\ C(2)
    <2>1. {i \in DOMAIN v : C(i)} = {1, 2}
      <3>1. C(1) /\ C(2) /\ ~C(3) /\ ~C(4)
        BY <1>2, <1>4, <1>5, <1>6, <1>7, <1>10 DEF Upper
      <3> QED BY <1>8, <1>9, <3>1
    <2>2. ~Contains(v, x, y, width, height)
      <3>1. Cardinality({i \in DOMAIN v : C(i)}) % 2 = 0
        <4>1. 1 # 2
          OBVIOUS
        <4>2. Cardinality({1, 2}) % 2 = 0
          BY <4>1, ParityOfFew, Zenon
        <4> QED BY <2>1, <4>2
      <3> QED BY <3>1 DEF Contains, C
    <2> QED BY <1>2, <1>4, <1>5, <1>6, <1>7, <1>10, <2>2 DEF OuterLeft, InnerRight, Upper, v
  <1>11. CASE C(1) /\ C(3)
    <2>1. {i \in DOMAIN v : C(i)} = {1, 3}
      <3>1. C(1) /\ ~C(2) /\ C(3) /\ ~C(4)
        BY <1>2, <1>4, <1>5, <1>6, <1>7, <1>11 DEF Upper
      <3> QED BY <1>8, <1>9, <3>1
    <2>2. ~Contains(v, x, y, width, height)
      <3>1. Cardinality({i \in DOMAIN v : C(i)}) % 2 = 0
        <4>1. 1 # 3
          OBVIOUS
        <4>2. Cardinality({1, 3}) % 2 = 0
          BY <4>1, ParityOfFew, Zenon
        <4> QED BY <2>1, <4>2
      <3> QED BY <3>1 DEF Contains, C
    <2> QED BY <1>2, <1>4, <1>5, <1>6, <1>7, <1>11, <2>2 DEF OuterLeft, InnerRight, Upper, v
  <1>12. CASE ~C(1) /\ C(2)
    <2>1. {i \in DOMAIN v : C(i)} = {2}
      <3>1. ~C(1) /\ C(2) /\ ~C(3) /\ ~C(4)
        BY <1>2, <1>4, <1>5, <1>6, <1>7, <1>12 DEF Upper
      <3> QED BY <1>8, <1>9, <3>1
    <2>2. Contains(v, x, y, width, height)
      <3>1. Cardinality({i \in DOMAIN v : C(i)}) % 2 = 1
        BY <2>1, ParityOfFew
      <3> QED BY <3>1 DEF Contains, C
    <2> QED BY <1>2, <1>4, <1>5, <1>6, <1>7, <1>12, <2>2 DEF OuterLeft, InnerRight, Upper, v
  <1>13. CASE ~C(1) /\ C(3)
    <2>1. {i \in DOMAIN v : C(i)} = {3}
      <3>1. ~C(1) /\ ~C(2) /\ C(3) /\ ~C(4)
        BY <1>2, <1>4, <1>5, <1>6, <1>7, <1>13 DEF Upper
      <3> QED BY <1>8, <1>9, <3>1
    <2>2. Contains(v, x, y, width, height)
      <3>1. Cardinality({i \in DOMAIN v : C(i)}) % 2 = 1
        BY <2>1, ParityOfFew
      <3> QED BY <3>1 DEF Contains, C
    <2> QED BY <1>2, <1>4, <1>5, <1>6, <1>7, <1>13, <2>2 DEF OuterLeft, InnerRight, Upper, v
  <1>14. CASE ~C(2) /\ ~C(3)
    <2>1. {i \in DOMAIN v : C(i)} = {}
      <3>1. ~C(1) /\ ~C(2) /\ ~C(3) /\ ~C(4)
        BY <1>2, <1>4, <1>5, <1>6, <1>7, <1>14 DEF Upper
      <3> QED BY <1>8, <1>9, <3>1
    <2>2. ~Contains(v, x, y, width, height)
      <3>1. Cardinality({i \in DOMAIN v : C(i)}) % 2 = 0
        BY <2>1, ParityOfFew
      <3> QED BY <3>1 DEF Contains, C
    <2> QED BY <1>2, <1>4, <1>5, <1>6, <1>7, <1>14, <2>2 DEF OuterLeft, InnerRight, Upper, v
  <1> QED BY <1>2, <1>4, <1>5, <1>6, <1>7, <1>10, <1>11, <1>12, <1>13, <1>14 DEF Upper

LEMMA RightRearContains ==
    ASSUME NEW width \in Nat, NEW height \in Nat,
           NEW x \in 0 .. width - 1, NEW y \in 0 .. height - 1,
           NEW p, p = Across(x, height), NEW q, q = Down(y, width),
           NEW area, area = Area(width, height)
    PROVE  Contains(G560Layout["RightRear"], x, y, width, height)
               <=> ~InnerRight(p, q, area)
  <1> DEFINE v == G560Layout["RightRear"]
             C(i) == Crosses(Previous(v, i), v[i], x, y, width, height)
  <1>1. /\ Len(v) = 5 /\ DOMAIN v = 1..5
        /\ v[1] = At(50, 0) /\ v[2] = At(100, 0) /\ v[3] = At(100, 100) /\ v[4] = At(86, 100) /\ v[5] = At(83, 70)
    BY DEF G560Layout
  <1>2. p \in Nat /\ q \in Nat /\ area \in Nat /\ 0 < p /\ p < 2 * area /\ 0 < q /\ q < 2 * area
    BY CentreIsInside
  <1>3. \A px, py, cx, cy \in Int : Crosses(At(px, py), At(cx, cy), x, y, width, height)
                                      <=> Crossed(px, py, cx, cy, p, q, area)
    BY EdgeCrossed
  <1> HIDE DEF v
  <1>4. C(1) <=> Upper(q, area) /\ 70 * p < 70 * area + 33 * q
    <2>1. C(1) <=> Crosses(At(83, 70), At(50, 0), x, y, width, height)
      BY <1>1 DEF Previous
    <2>2. C(1) <=> Crossed(83, 70, 50, 0, p, q, area)
      <3>1. Crosses(At(83, 70), At(50, 0), x, y, width, height)
              <=> Crossed(83, 70, 50, 0, p, q, area)
        BY <1>3
      <3> QED BY <2>1, <3>1
    <2> QED BY <1>2, <2>2 DEF Crossed, Upper
  <1>5. ~C(2)
    <2>1. C(2) <=> Crosses(At(50, 0), At(100, 0), x, y, width, height)
      BY <1>1 DEF Previous
    <2>2. C(2) <=> Crossed(50, 0, 100, 0, p, q, area)
      <3>1. Crosses(At(50, 0), At(100, 0), x, y, width, height)
              <=> Crossed(50, 0, 100, 0, p, q, area)
        BY <1>3
      <3> QED BY <2>1, <3>1
    <2> QED BY <1>2, <2>2 DEF Crossed, Upper
  <1>6. C(3)
    <2>1. C(3) <=> Crosses(At(100, 0), At(100, 100), x, y, width, height)
      BY <1>1 DEF Previous
    <2>2. C(3) <=> Crossed(100, 0, 100, 100, p, q, area)
      <3>1. Crosses(At(100, 0), At(100, 100), x, y, width, height)
              <=> Crossed(100, 0, 100, 100, p, q, area)
        BY <1>3
      <3> QED BY <2>1, <3>1
    <2> QED BY <1>2, <2>2 DEF Crossed, Upper
  <1>7. ~C(4)
    <2>1. C(4) <=> Crosses(At(100, 100), At(86, 100), x, y, width, height)
      BY <1>1 DEF Previous
    <2>2. C(4) <=> Crossed(100, 100, 86, 100, p, q, area)
      <3>1. Crosses(At(100, 100), At(86, 100), x, y, width, height)
              <=> Crossed(100, 100, 86, 100, p, q, area)
        BY <1>3
      <3> QED BY <2>1, <3>1
    <2> QED BY <1>2, <2>2 DEF Crossed, Upper
  <1>8. C(5) <=> ~Upper(q, area) /\ 100 * p < 152 * area + 10 * q
    <2>1. C(5) <=> Crosses(At(86, 100), At(83, 70), x, y, width, height)
      BY <1>1 DEF Previous
    <2>2. C(5) <=> Crossed(86, 100, 83, 70, p, q, area)
      <3>1. Crosses(At(86, 100), At(83, 70), x, y, width, height)
              <=> Crossed(86, 100, 83, 70, p, q, area)
        BY <1>3
      <3> QED BY <2>1, <3>1
    <2> QED BY <1>2, <2>2 DEF Crossed, Upper
  <1> HIDE DEF C
  <1>9. \A i \in DOMAIN v : i = 1 \/ i = 2 \/ i = 3 \/ i = 4 \/ i = 5
    BY <1>1
  <1>10. 1 \in DOMAIN v /\ 3 \in DOMAIN v /\ 5 \in DOMAIN v
    BY <1>1
  <1>11. CASE C(1)
    <2>1. {i \in DOMAIN v : C(i)} = {1, 3}
      <3>1. C(1) /\ ~C(2) /\ C(3) /\ ~C(4) /\ ~C(5)
        BY <1>2, <1>4, <1>5, <1>6, <1>7, <1>8, <1>11 DEF Upper
      <3> QED BY <1>9, <1>10, <3>1
    <2>2. ~Contains(v, x, y, width, height)
      <3>1. Cardinality({i \in DOMAIN v : C(i)}) % 2 = 0
        <4>1. 1 # 3
          OBVIOUS
        <4>2. Cardinality({1, 3}) % 2 = 0
          BY <4>1, ParityOfFew, Zenon
        <4> QED BY <2>1, <4>2
      <3> QED BY <3>1 DEF Contains, C
    <2> QED BY <1>2, <1>4, <1>5, <1>6, <1>7, <1>8, <1>11, <2>2 DEF OuterLeft, InnerRight, Upper, v
  <1>12. CASE C(5)
    <2>1. {i \in DOMAIN v : C(i)} = {3, 5}
      <3>1. ~C(1) /\ ~C(2) /\ C(3) /\ ~C(4) /\ C(5)
        BY <1>2, <1>4, <1>5, <1>6, <1>7, <1>8, <1>12 DEF Upper
      <3> QED BY <1>9, <1>10, <3>1
    <2>2. ~Contains(v, x, y, width, height)
      <3>1. Cardinality({i \in DOMAIN v : C(i)}) % 2 = 0
        <4>1. 3 # 5
          OBVIOUS
        <4>2. Cardinality({3, 5}) % 2 = 0
          BY <4>1, ParityOfFew, Zenon
        <4> QED BY <2>1, <4>2
      <3> QED BY <3>1 DEF Contains, C
    <2> QED BY <1>2, <1>4, <1>5, <1>6, <1>7, <1>8, <1>12, <2>2 DEF OuterLeft, InnerRight, Upper, v
  <1>13. CASE ~C(1) /\ ~C(5)
    <2>1. {i \in DOMAIN v : C(i)} = {3}
      <3>1. ~C(1) /\ ~C(2) /\ C(3) /\ ~C(4) /\ ~C(5)
        BY <1>2, <1>4, <1>5, <1>6, <1>7, <1>8, <1>13 DEF Upper
      <3> QED BY <1>9, <1>10, <3>1
    <2>2. Contains(v, x, y, width, height)
      <3>1. Cardinality({i \in DOMAIN v : C(i)}) % 2 = 1
        BY <2>1, ParityOfFew
      <3> QED BY <3>1 DEF Contains, C
    <2> QED BY <1>2, <1>4, <1>5, <1>6, <1>7, <1>8, <1>13, <2>2 DEF OuterLeft, InnerRight, Upper, v
  <1> QED BY <1>2, <1>4, <1>5, <1>6, <1>7, <1>8, <1>11, <1>12, <1>13 DEF Upper

(* The mirror image of a centre.                                             *)
LEMMA CentreIsMirrored ==
    ASSUME NEW width \in Nat, NEW height \in Nat, NEW x \in 0 .. width - 1
    PROVE  /\ width - 1 - x \in 0 .. width - 1
           /\ Across(width - 1 - x, height) = 2 * Area(width, height) - Across(x, height)
  <1>1. \A a, w, h \in Int : h * (2 * (w - 1 - a) + 1) = 2 * (w * h) - h * (2 * a + 1)
    BY SMT
  <1> QED BY <1>1 DEF Across, Area

(* The integer rule of the built-in layout.                                  *)
RuleZone(p, q, area) ==
    IF p < area THEN IF OuterLeft(p, q, area) THEN "LeftRear" ELSE "LeftFront"
    ELSE IF OuterLeft(2 * area - p, q, area) THEN "RightRear" ELSE "RightFront"

LEMMA RuleIsLinear ==
    ASSUME NEW width \in Nat, NEW height \in Nat,
           NEW x \in 0 .. width - 1, NEW y \in 0 .. height - 1
    PROVE  G560ZoneAtPixel(x, y, width, height)
               = RuleZone(Across(x, height), Down(y, width), Area(width, height))
  <1> DEFINE p == Across(x, height)
             q == Down(y, width)
             area == Area(width, height)
             m == Across(LeftX(x, width), height)
  <1>1. /\ p \in Nat /\ q \in Nat /\ area \in Nat /\ 0 < p /\ p < 2 * area /\ 0 < q /\ q < 2 * area
        /\ 2 * x + 1 < width <=> p < area
        /\ 70 * height < 50 * (2 * y + 1) <=> 70 * area < 50 * q
    <2>1. /\ p \in Nat /\ q \in Nat /\ area \in Nat /\ 0 < p /\ p < 2 * area /\ 0 < q /\ q < 2 * area
          /\ 2 * x + 1 < width <=> p < area
      BY CentreIsInside
    <2>2. \A n \in Int : n * height < 50 * (2 * y + 1) <=> n * area < 50 * q
      BY CentreIsInside
    <2>3. 70 * height < 50 * (2 * y + 1) <=> 70 * area < 50 * q
      BY <2>2
    <2> QED BY <2>1, <2>3
  <1>2. RightHalf(x, width) <=> ~(p < area)
    BY <1>1 DEF RightHalf
  <1>3. m = IF p < area THEN p ELSE 2 * area - p
    <2>1. Across(width - 1 - x, height) = 2 * area - p
      BY CentreIsMirrored
    <2>2. CASE 2 * x + 1 < width
      BY <1>1, <2>2 DEF LeftX
    <2>3. CASE 2 * x + 1 = width
      <3>1. width - 1 - x = x /\ LeftX(x, width) = x
        BY <2>3 DEF LeftX
      <3>2. ~(p < area)
        BY <1>1, <2>3
      <3> QED BY <2>1, <3>1, <3>2
    <2>4. CASE 2 * x + 1 > width
      <3>1. LeftX(x, width) = width - 1 - x
        BY <2>4 DEF LeftX
      <3>2. ~(p < area)
        BY <1>1, <2>4
      <3> QED BY <2>1, <3>1, <3>2
    <2> QED BY <2>2, <2>3, <2>4
  <1>4. AboveKnee(y, height) <=> 50 * q <= 70 * area
    <2>1. AboveKnee(y, height) <=> ~(70 * height < 50 * (2 * y + 1))
      BY DEF AboveKnee, DoubledYCentre
    <2> QED BY <1>1, <2>1
  <1>5. Front(x, y, width, height)
          <=> IF AboveKnee(y, height) THEN 70 * (area - m) <= 33 * q ELSE 100 * m + 10 * q >= 48 * area
    <2>1. height * DoubledXCentre(x, width) = m /\ width * DoubledYCentre(y) = q /\ width * height = area
      BY DEF DoubledXCentre, DoubledYCentre, Across, Down, Area
    <2>2. \A a, w, h \in Int : h * (w - a) = w * h - h * a
      BY SMT
    <2>3. DoubledXCentre(x, width) \in Int /\ width \in Int /\ height \in Int
      BY DEF DoubledXCentre, LeftX
    <2>4. height * (width - DoubledXCentre(x, width)) = area - m
      BY <2>1, <2>2, <2>3
    <2> HIDE DEF m, q, area
    <2> QED BY <2>1, <2>4 DEF Front
  <1>6. m \in Int
    BY <1>1, <1>3
  <1> HIDE DEF p, q, area, m
  <1>7. Front(x, y, width, height) <=> ~OuterLeft(m, q, area)
    <2>1. CASE 50 * q < 70 * area
      BY <1>1, <1>4, <1>5, <1>6, <2>1 DEF OuterLeft, Upper
    <2>2. CASE 50 * q = 70 * area
      BY <1>1, <1>4, <1>5, <1>6, <2>2 DEF OuterLeft, Upper
    <2>3. CASE 50 * q > 70 * area
      BY <1>1, <1>4, <1>5, <1>6, <2>3 DEF OuterLeft, Upper
    <2> QED BY <1>1, <2>1, <2>2, <2>3
  <1> QED BY <1>2, <1>3, <1>7 DEF G560ZoneAtPixel, RuleZone, p, q, area

(* The polygons.                                                             *)
PolygonsZone(p, q, area) ==
    IF p < area THEN IF OuterLeft(p, q, area) THEN "LeftRear" ELSE "LeftFront"
    ELSE IF InnerRight(p, q, area) THEN "RightFront" ELSE "RightRear"

LEMMA PolygonsAreLinear ==
    ASSUME NEW width \in Nat, NEW height \in Nat,
           NEW x \in 0 .. width - 1, NEW y \in 0 .. height - 1
    PROVE  PolygonZone(G560Layout, x, y, width, height)
               = PolygonsZone(Across(x, height), Down(y, width), Area(width, height))
  <1> DEFINE p == Across(x, height)
             q == Down(y, width)
             area == Area(width, height)
             containing == {i \in 1..4 : Contains(G560Layout[ZONES[i]], x, y, width, height)}
  <1>1. p \in Nat /\ q \in Nat /\ area \in Nat /\ 0 < p /\ p < 2 * area /\ 0 < q /\ q < 2 * area
    BY CentreIsInside
  <1>2. /\ ZONES[1] = "LeftRear" /\ ZONES[2] = "LeftFront"
        /\ ZONES[3] = "RightFront" /\ ZONES[4] = "RightRear"
    BY DEF ZONES
  <1>3. /\ 1 \in containing <=> OuterLeft(p, q, area)
        /\ 2 \in containing <=> p < area /\ ~OuterLeft(p, q, area)
        /\ 3 \in containing <=> ~(p < area) /\ InnerRight(p, q, area)
        /\ 4 \in containing <=> ~InnerRight(p, q, area)
    BY <1>2, LeftRearContains, LeftFrontContains, RightFrontContains, RightRearContains
  <1>4. \A i \in containing : i = 1 \/ i = 2 \/ i = 3 \/ i = 4
    OBVIOUS
  <1>5. PolygonZone(G560Layout, x, y, width, height)
          = IF containing = {} THEN FallbackZone(x, y, width, height)
            ELSE ZONES[CHOOSE i \in containing : \A j \in containing : i <= j]
    BY DEF PolygonZone
  <1> HIDE DEF p, q, area, containing
  <1>6. /\ OuterLeft(p, q, area) => p < area
        /\ ~InnerRight(p, q, area) => ~(p < area)
    BY <1>1 DEF OuterLeft, InnerRight, Upper
  <1>7. ASSUME NEW n \in 1..4, containing = {n}
        PROVE  PolygonZone(G560Layout, x, y, width, height) = ZONES[n]
    <2>1. (CHOOSE i \in containing : \A j \in containing : i <= j) = n
      BY <1>7
    <2> QED BY <1>5, <1>7, <2>1
  <1>8. CASE OuterLeft(p, q, area)
    <2>1. containing = {1}
      BY <1>3, <1>4, <1>6, <1>8
    <2> QED BY <1>2, <1>6, <1>7, <1>8, <2>1 DEF PolygonsZone, p, q, area
  <1>9. CASE p < area /\ ~OuterLeft(p, q, area)
    <2>1. containing = {2}
      BY <1>3, <1>4, <1>6, <1>9
    <2> QED BY <1>2, <1>7, <1>9, <2>1 DEF PolygonsZone, p, q, area
  <1>10. CASE ~(p < area) /\ InnerRight(p, q, area)
    <2>1. containing = {3}
      BY <1>3, <1>4, <1>6, <1>10
    <2> QED BY <1>2, <1>7, <1>10, <2>1 DEF PolygonsZone, p, q, area
  <1>11. CASE ~InnerRight(p, q, area)
    <2>1. containing = {4}
      BY <1>3, <1>4, <1>6, <1>11
    <2> QED BY <1>2, <1>6, <1>7, <1>11, <2>1 DEF PolygonsZone, p, q, area
  <1> QED BY <1>6, <1>8, <1>9, <1>10, <1>11

(* The rule for a centre that no polygon contains says the same.              *)
LEMMA FallbackIsLinear ==
    ASSUME NEW width \in Nat, NEW height \in Nat,
           NEW x \in 0 .. width - 1, NEW y \in 0 .. height - 1
    PROVE  FallbackZone(x, y, width, height)
               = PolygonsZone(Across(x, height), Down(y, width), Area(width, height))
  <1> DEFINE p == Across(x, height)
             q == Down(y, width)
             area == Area(width, height)
             a == 2 * x + 1
             b == 2 * y + 1
  <1>1. /\ p \in Nat /\ q \in Nat /\ area \in Nat /\ 0 < p /\ p < 2 * area /\ 0 < q /\ q < 2 * area
        /\ a < width <=> p < area
        /\ 70 * height < 50 * b <=> 70 * area < 50 * q
    <2>1. /\ p \in Nat /\ q \in Nat /\ area \in Nat /\ 0 < p /\ p < 2 * area /\ 0 < q /\ q < 2 * area
          /\ a < width <=> p < area
      BY CentreIsInside
    <2>2. \A n \in Int : n * height < 50 * b <=> n * area < 50 * q
      BY CentreIsInside
    <2>3. 70 * height < 50 * b <=> 70 * area < 50 * q
      BY <2>2
    <2> QED BY <2>1, <2>3
  <1>2. a \in Int /\ b \in Int /\ width \in Int /\ height \in Int
    OBVIOUS
  <1>3. p = height * a /\ q = width * b /\ area = width * height
    BY DEF Across, Down, Area
  <1> HIDE DEF p, q, area, a, b
  <1>4. \A s, t, u \in Int : /\ a * (s * height) = s * p
                             /\ (t * height + u * b) * (2 * width) = 2 * t * area + 2 * u * q
    BY <1>2, <1>3, SMT
  <1>5. /\ LeftOf(70 * height - 33 * b, 140 * height, a, 2 * width) <=> 140 * p < 140 * area - 66 * q
        /\ LeftOf(140 * height - (70 * height - 33 * b), 140 * height, a, 2 * width)
             <=> 140 * p < 140 * area + 66 * q
        /\ LeftOf(48 * height - 10 * b, 200 * height, a, 2 * width) <=> 200 * p < 96 * area - 20 * q
        /\ LeftOf(200 * height - (48 * height - 10 * b), 200 * height, a, 2 * width)
             <=> 200 * p < 304 * area + 20 * q
    <2>1. /\ 70 * height - 33 * b = 70 * height + (-33) * b
          /\ 140 * height - (70 * height - 33 * b) = 70 * height + 33 * b
          /\ 48 * height - 10 * b = 48 * height + (-10) * b
          /\ 200 * height - (48 * height - 10 * b) = 152 * height + 10 * b
      BY <1>2
    <2>2. /\ a * (140 * height) = 140 * p /\ a * (200 * height) = 200 * p
          /\ (70 * height + (-33) * b) * (2 * width) = 140 * area - 66 * q
          /\ (70 * height + 33 * b) * (2 * width) = 140 * area + 66 * q
          /\ (48 * height + (-10) * b) * (2 * width) = 96 * area - 20 * q
          /\ (152 * height + 10 * b) * (2 * width) = 304 * area + 20 * q
      BY <1>2, <1>3, SMT
    <2> QED BY <2>1, <2>2 DEF LeftOf
  <1>6. 10 * b <= 7 * (2 * height) <=> 50 * q <= 70 * area
    BY <1>1, <1>2
  <1>7. FallbackZone(x, y, width, height) =
            LET upper == 10 * b <= 7 * (2 * height)
                num == IF upper THEN 70 * height - 33 * b ELSE 48 * height - 10 * b
                den == IF upper THEN 140 * height ELSE 200 * height
            IN IF a < width
               THEN IF LeftOf(num, den, a, 2 * width) THEN "LeftRear" ELSE "LeftFront"
               ELSE IF LeftOf(den - num, den, a, 2 * width) THEN "RightFront" ELSE "RightRear"
    BY Zenon DEF FallbackZone, a, b
  <1>8. CASE 10 * b <= 7 * (2 * height)
    <2>1. FallbackZone(x, y, width, height) =
             IF p < area
             THEN IF 140 * p < 140 * area - 66 * q THEN "LeftRear" ELSE "LeftFront"
             ELSE IF 140 * p < 140 * area + 66 * q THEN "RightFront" ELSE "RightRear"
      BY <1>1, <1>5, <1>7, <1>8
    <2>2. /\ 140 * p < 140 * area - 66 * q <=> OuterLeft(p, q, area)
          /\ 140 * p < 140 * area + 66 * q <=> InnerRight(p, q, area)
      <3>1. CASE 50 * q < 70 * area
        BY <1>1, <3>1 DEF OuterLeft, InnerRight, Upper
      <3>2. CASE 50 * q = 70 * area
        BY <1>1, <3>2 DEF OuterLeft, InnerRight, Upper
      <3> QED BY <1>1, <1>6, <1>8, <3>1, <3>2
    <2> QED BY <2>1, <2>2 DEF PolygonsZone, p, q, area
  <1>9. CASE ~(10 * b <= 7 * (2 * height))
    <2>1. FallbackZone(x, y, width, height) =
             IF p < area
             THEN IF 200 * p < 96 * area - 20 * q THEN "LeftRear" ELSE "LeftFront"
             ELSE IF 200 * p < 304 * area + 20 * q THEN "RightFront" ELSE "RightRear"
      BY <1>1, <1>5, <1>7, <1>9
    <2>2. /\ 200 * p < 96 * area - 20 * q <=> OuterLeft(p, q, area)
          /\ 200 * p < 304 * area + 20 * q <=> InnerRight(p, q, area)
      BY <1>1, <1>6, <1>9 DEF OuterLeft, InnerRight, Upper
    <2> QED BY <2>1, <2>2 DEF PolygonsZone, p, q, area
  <1> QED BY <1>8, <1>9

(* A centre on the boundary that a rear and a front zone share.              *)
LEMMA DiagonalIsLinear ==
    ASSUME NEW width \in Nat, NEW height \in Nat,
           NEW x \in 0 .. width - 1, NEW y \in 0 .. height - 1,
           NEW m, m = IF 2 * x < width THEN Across(x, height)
                      ELSE 2 * Area(width, height) - Across(x, height),
           NEW q, q = Down(y, width), NEW area, area = Area(width, height)
    PROVE  OnDiagonal(x, y, width, height)
             <=> \/ 50 * q <= 70 * area /\ 70 * m + 33 * q = 70 * area
                 \/ 50 * q >= 70 * area /\ 100 * m + 10 * q = 48 * area
  <1> DEFINE dx == IF 2 * x < width THEN x ELSE width - 1 - x
             b == 2 * y + 1
  <1>1. q \in Nat /\ area \in Nat /\ 0 < q /\ q < 2 * area
    BY CentreIsInside
  <1>2. /\ \A n \in Int : n * height > 50 * b <=> n * area > 50 * q
        /\ \A n \in Int : n * height < 50 * b <=> n * area < 50 * q
    BY CentreIsInside
  <1>3. m = Across(dx, height) /\ dx \in Int /\ height \in Int /\ width \in Int
    BY CentreIsMirrored
  <1>4. m \in Int
    <2>1. Across(x, height) \in Nat
      BY CentreIsInside
    <2> QED BY <1>1, <2>1
  <1>5. /\ q = width * b /\ area = width * height /\ b \in Int
        /\ m = height * (2 * dx + 1) /\ 2 * dx + 1 \in Int
    BY <1>3 DEF Down, Area, Across
  <1> HIDE DEF dx, b
  <1>6. ASSUME NEW px \in Int, NEW py \in Int, NEW cx \in Int, NEW cy \in Int
        PROVE  OnSegment(At(px, py), At(cx, cy), dx, y, width, height)
                 <=> /\ py * area <= 50 * q /\ 50 * q <= cy * area
                     /\ (py - cy) * (50 * m - cx * area) = (px - cx) * (50 * q - cy * area)
    <2>1. OnSegment(At(px, py), At(cx, cy), dx, y, width, height)
            <=> /\ py * height <= 50 * b /\ 50 * b <= cy * height
                /\ (50 * (2 * dx + 1) - cx * width) * height * (py - cy)
                     = (px - cx) * (50 * b - cy * height) * width
      BY DEF OnSegment, At, b
    <2>2. /\ py * height \in Int /\ cy * height \in Int /\ 50 * b \in Int
          /\ py * area \in Int /\ cy * area \in Int /\ 50 * q \in Int
      BY <1>1, <1>3, <1>5, SMT
    <2>3. py * height <= 50 * b <=> py * area <= 50 * q
      <3>1. py * height > 50 * b <=> py * area > 50 * q
        BY <1>2
      <3> QED BY <2>2, <3>1
    <2>4. 50 * b <= cy * height <=> 50 * q <= cy * area
      <3>1. cy * height < 50 * b <=> cy * area < 50 * q
        BY <1>2
      <3> QED BY <2>2, <3>1
    <2>5. (50 * (2 * dx + 1) - cx * width) * height * (py - cy) = (py - cy) * (50 * m - cx * area)
      <3>1. py - cy \in Int
        OBVIOUS
      <3> QED BY <1>3, <1>5, <3>1, ProductsOfCentre
    <2>6. (px - cx) * (50 * b - cy * height) * width = (px - cx) * (50 * q - cy * area)
      <3>1. px - cx \in Int
        OBVIOUS
      <3> QED BY <1>3, <1>5, <3>1, ProductsOfCentre
    <2> QED BY <2>1, <2>3, <2>4, <2>5, <2>6
  <1>7. OnSegment(At(50, 0), At(17, 70), dx, y, width, height)
          <=> /\ 0 * area <= 50 * q /\ 50 * q <= 70 * area
              /\ (0 - 70) * (50 * m - 17 * area) = (50 - 17) * (50 * q - 70 * area)
    BY <1>6
  <1>8. OnSegment(At(17, 70), At(14, 100), dx, y, width, height)
          <=> /\ 70 * area <= 50 * q /\ 50 * q <= 100 * area
              /\ (70 - 100) * (50 * m - 14 * area) = (17 - 14) * (50 * q - 100 * area)
    BY <1>6
  <1>9. OnDiagonal(x, y, width, height)
          <=> \/ OnSegment(At(50, 0), At(17, 70), dx, y, width, height)
              \/ OnSegment(At(17, 70), At(14, 100), dx, y, width, height)
    BY DEF OnDiagonal, dx
  <1> QED BY <1>1, <1>4, <1>7, <1>8, <1>9

(* The index of a pixel gives it back.                                       *)
LEMMA PixelOfIndex ==
    ASSUME NEW width \in Nat, NEW x \in 0 .. width - 1, NEW y \in Nat
    PROVE  (y * width + x) % width = x /\ (y * width + x) \div width = y
  <1> DEFINE index == y * width + x
             row == index \div width
  <1>1. width \in Nat \ {0} /\ x \in Nat /\ x < width
    OBVIOUS
  <1>2. y * width \in Nat /\ index \in Nat
    BY <1>1, ProductIsNat
  <1>3. row \in Nat /\ index % width \in Nat /\ index = row * width + (index % width) /\ index % width < width
    <2> HIDE DEF index
    <2> QED BY <1>1, <1>2, Division
  <1>4. row * width \in Nat
    BY <1>1, <1>3, ProductIsNat
  <1> HIDE DEF row, index
  <1>5. row = y
    <2>1. ASSUME row < y PROVE FALSE
      <3>1. (row + 1) * width <= y * width
        BY <1>1, <1>3, <2>1, ProductsGrow
      <3>2. (row + 1) * width = row * width + width
        BY <1>1, <1>3, SMT
      <3> QED BY <1>1, <1>2, <1>3, <1>4, <3>1, <3>2 DEF index
    <2>2. ASSUME y < row PROVE FALSE
      <3>1. (y + 1) * width <= row * width
        BY <1>1, <1>3, <2>2, ProductsGrow
      <3>2. (y + 1) * width = y * width + width
        BY <1>1, SMT
      <3>3. row * width <= index
        BY <1>2, <1>3, <1>4
      <3>4. index = y * width + x
        BY DEF index
      <3> QED BY <1>1, <1>2, <1>4, <3>1, <3>2, <3>3, <3>4
    <2> QED BY <1>3, <2>1, <2>2
  <1>6. index % width = x
    BY <1>1, <1>2, <1>3, <1>5 DEF index
  <1> QED BY <1>5, <1>6 DEF row, index

(* At every size of screen, the integer rule that compiles the built-in      *)
(* masks puts each pixel where the polygons do, and where the rule for       *)
(* centres outside every polygon does; a centre on the edge of a front and a *)
(* rear zone is in the front one, on both sides (src/frame.rs,               *)
(* docs/color-pipeline.md:33-39).                                            *)
THEOREM MasksFollowThePolygons ==
    ASSUME NEW width \in Nat, NEW height \in Nat
    PROVE  FollowsPolygons(Compile(G560Layout, width, height), width, height)
  <1> DEFINE masks == Compile(G560Layout, width, height)
  <1>1. ASSUME NEW x \in 0 .. width - 1, NEW y \in 0 .. height - 1
        PROVE  IF OnDiagonal(x, y, width, height)
               THEN ZoneAt(masks, x, y) = IF 2 * x + 1 < width THEN "LeftFront" ELSE "RightFront"
               ELSE /\ ZoneAt(masks, x, y) = PolygonZone(G560Layout, x, y, width, height)
                    /\ ZoneAt(masks, x, y) = FallbackZone(x, y, width, height)
    <2> DEFINE p == Across(x, height)
               q == Down(y, width)
               area == Area(width, height)
               m == IF 2 * x < width THEN p ELSE 2 * area - p
    <2>1. ZoneAt(masks, x, y) = RuleZone(p, q, area)
      <3>1. ZoneAt(masks, x, y) = ZoneOf(G560Layout, y * width + x, width, height)
        BY MasksShareTheScreen
      <3>2. (y * width + x) % width = x /\ (y * width + x) \div width = y
        BY PixelOfIndex
      <3>3. ZoneAt(masks, x, y) = G560ZoneAtPixel(x, y, width, height)
        BY <3>1, <3>2 DEF ZoneOf
      <3> QED BY <3>3, RuleIsLinear
    <2>2. /\ PolygonZone(G560Layout, x, y, width, height) = PolygonsZone(p, q, area)
          /\ FallbackZone(x, y, width, height) = PolygonsZone(p, q, area)
      BY PolygonsAreLinear, FallbackIsLinear
    <2>3. OnDiagonal(x, y, width, height)
             <=> \/ 50 * q <= 70 * area /\ 70 * m + 33 * q = 70 * area
                 \/ 50 * q >= 70 * area /\ 100 * m + 10 * q = 48 * area
      BY DiagonalIsLinear
    <2>4. /\ p \in Nat /\ q \in Nat /\ area \in Nat /\ 0 < p /\ p < 2 * area /\ 0 < q /\ q < 2 * area
          /\ 2 * x + 1 < width <=> p < area
      BY CentreIsInside
    <2>5. 2 * x < width <=> (p < area \/ 2 * x + 1 = width)
      BY <2>4
    <2>6. 2 * x + 1 = width => p = area
      <3>1. \A a, w, h \in Int : a = w => h * a = w * h
        BY SMT
      <3> QED BY <3>1 DEF Across, Area
    <2> HIDE DEF masks, p, q, area
    <2>7. m = IF p < area THEN p ELSE 2 * area - p
      BY <2>4, <2>5, <2>6
    <2> HIDE DEF m
    <2>8. ASSUME OnDiagonal(x, y, width, height)
          PROVE  RuleZone(p, q, area) = IF p < area THEN "LeftFront" ELSE "RightFront"
      <3>1. ~OuterLeft(m, q, area)
        BY <2>3, <2>4, <2>7, <2>8 DEF OuterLeft, Upper
      <3> QED BY <2>7, <3>1 DEF RuleZone
    <2>9. ASSUME ~OnDiagonal(x, y, width, height)
          PROVE  RuleZone(p, q, area) = PolygonsZone(p, q, area)
      <3>1. ASSUME ~(p < area) PROVE OuterLeft(m, q, area) <=> ~InnerRight(p, q, area)
        BY <2>3, <2>4, <2>7, <2>9, <3>1 DEF OuterLeft, InnerRight, Upper
      <3> QED BY <2>7, <3>1 DEF RuleZone, PolygonsZone
    <2> QED BY <2>1, <2>2, <2>4, <2>8, <2>9
  <1> QED BY <1>1 DEF FollowsPolygons

(* Whatever the sizes of the frames that reach the coordinator, it samples   *)
(* them as the polygons of the built-in layout say: zone_masks compiles the  *)
(* masks by the integer rule (src/frame.rs:197).                             *)
THEOREM SampledAsDrawn == Spec => []MasksFollowPolygons
  <1>1. ASSUME NEW size \in ScreenSizes
        PROVE  FollowsPolygons(Compile(G560Layout, size[1], size[2]), size[1], size[2])
    <2>1. size[1] \in Nat /\ size[2] \in Nat
      BY ScreenSizesAssumption
    <2> QED BY <2>1, MasksFollowThePolygons
  <1>2. MasksFollowPolygons
    BY <1>1 DEF MasksFollowPolygons, MasksAreDrawn
  <1> QED BY <1>2, PTL

-----------------------------------------------------------------------------
(* The bin that wins a zone does not depend on the order in which the map of *)
(* bins is walked (docs/color-pipeline.md:95): no two bins are both above    *)
(* all the others, weights and counts that tie included.                     *)
THEOREM DominantIsUnique ==
    ASSUME NEW bins, DOMAIN bins \subseteq Int \X Int \X Int,
           \A key \in DOMAIN bins : bins[key].weight \in Int /\ bins[key].count \in Int,
           NEW a, IsDominant(bins, a), NEW b, IsDominant(bins, b)
    PROVE  a = b
  <1>1. SUFFICES ASSUME a # b PROVE FALSE
    OBVIOUS
  <1>2. a \in DOMAIN bins /\ b \in DOMAIN bins
    BY DEF IsDominant
  <1>3. Below(bins, a, b) /\ Below(bins, b, a)
    BY <1>1, <1>2 DEF IsDominant
  <1>4. PICK a1 \in Int, a2 \in Int, a3 \in Int : a = <<a1, a2, a3>>
    BY <1>2
  <1>5. PICK b1 \in Int, b2 \in Int, b3 \in Int : b = <<b1, b2, b3>>
    BY <1>2
  <1>6. ~(KeyBelow(a, b) /\ KeyBelow(b, a))
    BY <1>4, <1>5, SMT DEF KeyBelow
  <1>. QED  BY <1>2, <1>3, <1>6, SMT DEF Below

(* smoothstep stays in the unit interval and keeps its ends, so a presence,  *)
(* a dominance and a visibility are fractions.                               *)
LEMMA SmoothstepIsFraction ==
    ASSUME NEW d \in Nat, NEW n \in 0..d
    PROVE  /\ Smoothstep(n, d) \in 0 .. Cube(d)
           /\ Smoothstep(0, d) = 0 /\ Smoothstep(d, d) = Cube(d)
  <1>1. PICK r \in Nat : d = n + r
    <2>1. d - n \in Nat /\ d = n + (d - n)
      OBVIOUS
    <2>. QED  BY <2>1
  <1>2. /\ n * n * (3 * d - 2 * n) = n * n * n + 3 * (n * n * r)
        /\ d * d * d - n * n * (3 * d - 2 * n) = 3 * (n * r * r) + r * r * r
    BY <1>1, SMT
  <1>3. /\ n * n * n \in Nat /\ n * n * r \in Nat
        /\ n * r * r \in Nat /\ r * r * r \in Nat
    BY ProductIsNat
  <1>4. Smoothstep(n, d) \in 0 .. Cube(d)
    BY <1>2, <1>3, SMT DEF Smoothstep, Cube
  <1>5. Smoothstep(0, d) = 0 /\ Smoothstep(d, d) = Cube(d)
    BY SMT DEF Smoothstep, Cube
  <1>. QED  BY <1>4, <1>5

(* pack_dimensions tells every two sizes apart, and no size from a closed    *)
(* gate: a frame passes the gate exactly when its size is the expected one.  *)
THEOREM PackedSizesDiffer ==
    ASSUME NEW w \in 1 .. U32Max, NEW h \in 0 .. U32Max,
           NEW v \in 0 .. U32Max, NEW k \in 0 .. U32Max
    PROVE  /\ PackDimensions(<<w, h>>) # 0
           /\ PackDimensions(<<w, h>>) = PackDimensions(<<v, k>>) => w = v /\ h = k
  <1> DEFINE m == U32Max + 1
  <1>1. /\ m \in Nat \ {0} /\ w \in Nat \ {0} /\ v \in Nat
        /\ h \in Nat /\ h < m /\ k \in Nat /\ k < m
    BY WidthsAssumption
  <1> HIDE DEF m
  <1>2. w * m \in Nat /\ v * m \in Nat
    BY <1>1, ProductIsNat
  <1>3. w * m >= m
    <2>1. 1 * m <= w * m  BY <1>1, ProductsGrow
    <2>. QED  BY <1>1, <2>1
  <1>4. ASSUME w * m + h = v * m + k PROVE w = v
    <2>1. ASSUME w < v PROVE FALSE
      <3>1. (w + 1) * m <= v * m  BY <1>1, <2>1, ProductsGrow
      <3>2. (w + 1) * m = w * m + m  BY <1>1
      <3>. QED  BY <1>1, <1>2, <1>4, <3>1, <3>2
    <2>2. ASSUME v < w PROVE FALSE
      <3>1. (v + 1) * m <= w * m  BY <1>1, <2>2, ProductsGrow
      <3>2. (v + 1) * m = v * m + m  BY <1>1
      <3>. QED  BY <1>1, <1>2, <1>4, <3>1, <3>2
    <2>. QED  BY <1>1, <2>1, <2>2
  <1>5. PackDimensions(<<w, h>>) = w * m + h /\ PackDimensions(<<v, k>>) = v * m + k
    BY DEF PackDimensions, m
  <1>6. w * m + h # 0
    BY <1>1, <1>2, <1>3
  <1>7. w * m + h = v * m + k => w = v /\ h = k
    BY <1>1, <1>2, <1>4
  <1>. QED  BY <1>5, <1>6, <1>7
-----------------------------------------------------------------------------
(* A frame taken late moves the deadline past the present by one interval at *)
(* most and keeps it on its grid, however many intervals were missed: no     *)
(* burst of frames makes up for a stalled stream.                            *)
THEOREM DeadlineAdvances ==
    ASSUME NEW due \in Nat, NEW now \in Nat, NEW interval \in Nat \ {0}, due <= now
    PROVE  LET next == AdvanceFrameDeadline(due, now, interval)
           IN /\ now < next /\ next <= now + interval
              /\ \E k \in Nat : next = due + k * interval
  <1> DEFINE k == (now - due) \div interval + 1
             next == AdvanceFrameDeadline(due, now, interval)
  <1>1. /\ (now - due) \div interval \in Nat /\ (now - due) % interval \in Nat
        /\ now - due = ((now - due) \div interval) * interval + ((now - due) % interval)
        /\ (now - due) % interval < interval
    <2>1. now - due \in Nat  OBVIOUS
    <2>. QED  BY <2>1, Division
  <1>2. k * interval = ((now - due) \div interval) * interval + interval
        /\ ((now - due) \div interval) * interval \in Nat
    BY <1>1, SMT
  <1>3. next = due + k * interval
    BY DEF AdvanceFrameDeadline, Passed, NotDue
  <1>4. k \in Nat
    BY <1>1
  <1> HIDE DEF next, k
  <1>5. now < next /\ next <= now + interval
    BY <1>1, <1>2, <1>3
  <1>. QED  BY <1>3, <1>4, <1>5 DEF next
=============================================================================
