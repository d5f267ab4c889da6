------------------------------- MODULE Engine -------------------------------
(***************************************************************************)
(* The lighting engine of src/engine.rs                                     *)
(* (run_engine_with_sampler_and_metrics): three tokio tasks and the         *)
(* channels between them.                                                   *)
(*                                                                          *)
(*   capture      pulls frames from a FrameSource, tags each with the       *)
(*                capture generation it reads, and sends it on;             *)
(*   coordinator  watches for capture stalls, samples the newest frame on a *)
(*                blocking thread, and hands the colours to the writer;     *)
(*   writer       owns the light sink: renders the current update at its    *)
(*                write deadlines, and serves safety blackouts, which       *)
(*                preempt a write under way.                                *)
(*                                                                          *)
(* The generation is even while captured work may be shown and odd while a  *)
(* blackout is owed.  Frames and updates travel in latest-value slots (see  *)
(* LatestChannel), the blackout requests in a queue that holds at most one: *)
(* the coordinator waits for the answer to each.                            *)
(*                                                                          *)
(* Abstracted: a frame is its number and its tag; a colour on the lights is *)
(* the frame it comes from, NoFrame being black.  Time is a free choice: a  *)
(* timer that is armed may be due in any state.  The sink is what the       *)
(* LightSink trait promises: a write that is given up or fails may or may   *)
(* not have reached the lights.  The displayed colour the writer remembers  *)
(* for its fades, and the latency histogram, are left out.                  *)
(***************************************************************************)
EXTENDS Integers

CONSTANTS
    MaxFrames,   \* bound: frames the source delivers
    MaxStalls    \* bound: capture stalls detected

ASSUME BoundsAssumption == MaxFrames \in Nat /\ MaxStalls \in Nat

Frame   == [id : 1..MaxFrames, gen : Nat]
NoFrame == [id |-> 0, gen |-> 0]
INSTANCE SlotOps WITH Item <- Frame, NoItem <- NoFrame

VARIABLES
    \* shared
    stop,          \* the caller's `cancellation` future has completed
    cancel,        \* the watch<bool> every task listens to
    generation,    \* the AtomicU64 capture generation
    frames,        \* slot: capture -> coordinator
    updates,       \* slot: coordinator -> writer
    safety,        \* the queued SafetyBlackout: its resume generation, 0 = none
    ack,           \* its oneshot: "none", "pending", "ok", "error"
    light,         \* what the speakers show
    \* capture task
    cpc,           \* "next", "tag", "send", "shutdown", "done"
    held,          \* the frame it holds
    captured, replacements, captureFault,
    \* sampling coordinator
    spc, item, stalled, stalls, sampledDrops, samplingFault, teardownFault,
    \* writer task
    wpc,           \* "loop", "write", "blackout", "done"
    w,             \* LightingWriterState
    updatesOpen, safetyOpen, pendingSafety, staleDrops, writeFault,
    settled,       \* history: updates displaced after they had been shown
    result         \* what run_engine returned: "none", "ok", "error"

sharedVars  == <<stop, cancel, generation, frames, updates, safety, ack, light>>
captureVars == <<cpc, held, captured, replacements, captureFault>>
coordVars   == <<spc, item, stalled, stalls, sampledDrops, samplingFault,
                 teardownFault, result>>
writerVars  == <<wpc, w, updatesOpen, safetyOpen, pendingSafety, staleDrops,
                 writeFault, settled>>
vars == <<sharedVars, captureVars, coordVars, writerVars>>

Odd(g)  == g % 2 = 1
Even(g) == g % 2 = 0

WriterState == [current : Frame \cup {NoFrame}, rendered : BOOLEAN,
                active : BOOLEAN, armed : BOOLEAN, accepted : Nat]

CoordinatorPoints ==
    {"select", "sample", "stallRequest", "stallWait", "leave",
     "finalRequest", "finalWait", "joinCapture", "joinWriter", "done"}

SharedType ==
    /\ stop \in BOOLEAN /\ cancel \in BOOLEAN /\ generation \in Nat
    /\ frames \in Slots /\ updates \in Slots
    /\ safety \in Nat /\ Even(safety)
    /\ ack \in {"none", "pending", "ok", "error"}
    /\ light \in Frame \cup {NoFrame}

CaptureType ==
    /\ cpc \in {"next", "tag", "send", "shutdown", "done"}
    /\ IF cpc \in {"tag", "send"} THEN held \in Frame ELSE held = NoFrame
    /\ captured \in 0..MaxFrames /\ replacements \in Nat
    /\ captureFault \in BOOLEAN

CoordinatorType ==
    /\ spc \in CoordinatorPoints /\ item \in Frame \cup {NoFrame}
    /\ stalled \in BOOLEAN /\ stalls \in 0..MaxStalls /\ sampledDrops \in Nat
    /\ samplingFault \in BOOLEAN /\ teardownFault \in BOOLEAN
    /\ result \in {"none", "ok", "error"}

WriterType ==
    /\ wpc \in {"loop", "write", "blackout", "done"}
    /\ w \in WriterState /\ Even(w.accepted)
    /\ updatesOpen \in BOOLEAN /\ safetyOpen \in BOOLEAN
    /\ pendingSafety \in Nat /\ Even(pendingSafety)
    /\ staleDrops \in Nat /\ writeFault \in BOOLEAN /\ settled \in Nat

(* Every generation the writer has been told to accept is even, and so is     *)
(* the one a queued blackout announces: an odd one would accept frames tagged *)
(* while a blackout is owed.                                                  *)
TypeOK == SharedType /\ CaptureType /\ CoordinatorType /\ WriterType

InitialWriterState ==
    [current |-> NoFrame, rendered |-> FALSE, active |-> FALSE,
     armed |-> FALSE, accepted |-> 0]

Init ==
    /\ stop = FALSE /\ cancel = FALSE /\ generation = 0
    /\ frames = FreshSlot /\ updates = FreshSlot
    /\ safety = 0 /\ ack = "none" /\ light = NoFrame
    /\ cpc = "next" /\ held = NoFrame
    /\ captured = 0 /\ replacements = 0 /\ captureFault = FALSE
    /\ spc = "select" /\ item = NoFrame
    /\ stalled = FALSE /\ stalls = 0 /\ sampledDrops = 0
    /\ samplingFault = FALSE /\ teardownFault = FALSE
    /\ wpc = "loop" /\ w = InitialWriterState
    /\ updatesOpen = TRUE /\ safetyOpen = TRUE /\ pendingSafety = 0
    /\ staleDrops = 0 /\ writeFault = FALSE /\ settled = 0
    /\ result = "none"

\* The future handed to run_engine completes: Ctrl-C, or the service stops.
Stop ==
    /\ ~stop /\ stop' = TRUE
    /\ UNCHANGED <<cancel, generation, frames, updates, safety, ack, light,
                   captureVars, coordVars, writerVars>>

-----------------------------------------------------------------------------
(* The capture task.                                                         *)

CaptureFrame ==
    /\ cpc = "next" /\ ~cancel /\ captured < MaxFrames
    /\ captured' = captured + 1
    /\ held' = [id |-> captured + 1, gen |-> 0]
    /\ cpc' = "tag"
    /\ UNCHANGED <<sharedVars, replacements, captureFault, coordVars, writerVars>>

\* The generation is loaded before the frame is sent, not with it.
CaptureTag ==
    /\ cpc = "tag"
    /\ held' = [held EXCEPT !.gen = generation]
    /\ cpc' = "send"
    /\ UNCHANGED <<sharedVars, captured, replacements, captureFault, coordVars,
                   writerVars>>

CaptureSend ==
    /\ cpc = "send"
    /\ IF frames.rx
       THEN /\ replacements' = replacements + (IF HasItem(frames) THEN 1 ELSE 0)
            /\ frames' = Put(frames, held)
            /\ cpc' = "next"
       ELSE cpc' = "shutdown" /\ UNCHANGED <<frames, replacements>>
    /\ held' = NoFrame
    /\ UNCHANGED <<stop, cancel, generation, updates, safety, ack, light,
                   captured, captureFault, coordVars, writerVars>>

\* next_frame returned None (the stream ended) or an error.
CaptureEnds(failed) ==
    /\ cpc = "next" /\ ~cancel
    /\ captureFault' = failed
    /\ cancel' = (cancel \/ failed)
    /\ cpc' = "shutdown"
    /\ UNCHANGED <<stop, generation, frames, updates, safety, ack, light, held,
                   captured, replacements, coordVars, writerVars>>

CaptureCancelled ==
    /\ cpc = "next" /\ cancel
    /\ cpc' = "shutdown"
    /\ UNCHANGED <<sharedVars, held, captured, replacements, captureFault,
                   coordVars, writerVars>>

\* source.shutdown(), after which the task ends and drops the frame sender.
CaptureShutdown(failed) ==
    /\ cpc = "shutdown"
    /\ captureFault' = (captureFault \/ failed)
    /\ cancel' = (cancel \/ failed)
    /\ frames' = WithoutTx(frames)
    /\ cpc' = "done"
    /\ UNCHANGED <<stop, generation, updates, safety, ack, light, held, captured,
                   replacements, coordVars, writerVars>>

-----------------------------------------------------------------------------
(* The sampling coordinator.                                                 *)

\* request_safety_blackout makes the generation odd ...
BlackoutGeneration(g) == IF Even(g) THEN g + 1 ELSE g
\* ... and announces the even one that follows.
ResumeGeneration(g) == g + 1

Current(f) == f.gen = generation /\ ~Odd(f.gen)

Leave(fault) ==
    /\ spc' = "leave"
    /\ cancel' = TRUE
    /\ samplingFault' = fault
    /\ item' = NoFrame

\* Cancelled from outside, or by another task: both selects ask this first.
CoordinatorCancelled ==
    /\ spc \in {"select", "sample"} /\ (stop \/ cancel)
    /\ Leave(FALSE)
    /\ UNCHANGED <<stop, generation, frames, updates, safety, ack, light,
                   captureVars, stalled, stalls, sampledDrops, teardownFault,
                   result, writerVars>>

\* No current-generation frame for CAPTURE_STALL_TIMEOUT.
StallDetected ==
    /\ spc = "select" /\ ~stop /\ ~cancel /\ ~stalled
    /\ stalls < MaxStalls
    /\ stalled' = TRUE /\ stalls' = stalls + 1
    /\ generation' = BlackoutGeneration(generation)
    /\ spc' = "stallRequest"
    /\ UNCHANGED <<stop, cancel, frames, updates, safety, ack, light, captureVars,
                   item, sampledDrops, samplingFault, teardownFault, result,
                   writerVars>>

FramesEnded ==
    /\ spc = "select" /\ ~stop /\ ~cancel /\ Ended(frames)
    /\ Leave(FALSE)
    /\ UNCHANGED <<stop, generation, frames, updates, safety, ack, light,
                   captureVars, stalled, stalls, sampledDrops, teardownFault,
                   result, writerVars>>

\* Mutant: samples, and ends the stall for, whatever frame arrives.
ReceiveAnyFrame ==
    /\ spc = "select" /\ ~stop /\ ~cancel /\ HasItem(frames)
    /\ frames' = Taken(frames)
    /\ item' = frames.val /\ stalled' = FALSE
    /\ spc' = "sample"
    /\ UNCHANGED <<stop, cancel, generation, updates, safety, ack, light,
                   captureVars, stalls, sampledDrops, samplingFault,
                   teardownFault, result, writerVars>>

\* A frame of another generation is dropped and does not end a stall.
ReceiveFrame ==
    /\ spc = "select" /\ ~stop /\ ~cancel /\ HasItem(frames)
    /\ frames' = Taken(frames)
    /\ IF Current(frames.val)
       THEN /\ item' = frames.val /\ stalled' = FALSE
            /\ spc' = "sample"
            /\ UNCHANGED sampledDrops
       ELSE sampledDrops' = sampledDrops + 1 /\ UNCHANGED <<item, stalled, spc>>
    /\ UNCHANGED <<stop, cancel, generation, updates, safety, ack, light,
                   captureVars, stalls, samplingFault, teardownFault, result,
                   writerVars>>

\* No zone mask for the frame's size, or the sampler panicked.
SamplingFails ==
    /\ spc = "sample" /\ ~stop /\ ~cancel
    /\ Leave(TRUE)
    /\ UNCHANGED <<stop, generation, frames, updates, safety, ack, light,
                   captureVars, stalled, stalls, sampledDrops, teardownFault,
                   result, writerVars>>

\* The colours go to the writer; once it is gone the coordinator leaves too.
SamplingDone ==
    /\ spc = "sample" /\ ~stop /\ ~cancel
    /\ IF ~Current(item)
       THEN /\ sampledDrops' = sampledDrops + 1
            /\ item' = NoFrame /\ spc' = "select"
            /\ UNCHANGED <<updates, cancel, samplingFault>>
       ELSE IF updates.rx
       THEN /\ sampledDrops' = sampledDrops + (IF HasItem(updates) THEN 1 ELSE 0)
            /\ updates' = Put(updates, item)
            /\ item' = NoFrame /\ spc' = "select"
            /\ UNCHANGED <<cancel, samplingFault>>
       ELSE /\ Leave(FALSE)
            /\ UNCHANGED <<updates, sampledDrops>>
    /\ UNCHANGED <<stop, generation, frames, safety, ack, light, captureVars,
                   stalled, stalls, teardownFault, result, writerVars>>

\* Both uses of request_safety_blackout: for a stall and at teardown.
RequestFailed ==
    IF spc \in {"stallRequest", "stallWait"}
    THEN Leave(TRUE) /\ UNCHANGED teardownFault
    ELSE /\ teardownFault' = TRUE /\ spc' = "joinCapture"
         /\ UNCHANGED <<cancel, samplingFault, item>>

RequestBlackout ==
    /\ spc \in {"stallRequest", "finalRequest"}
    /\ IF wpc # "done"
       THEN /\ safety' = ResumeGeneration(generation) /\ ack' = "pending"
            /\ spc' = IF spc = "stallRequest" THEN "stallWait" ELSE "finalWait"
            /\ UNCHANGED <<cancel, samplingFault, item, teardownFault>>
       ELSE RequestFailed /\ UNCHANGED <<safety, ack>>
    /\ UNCHANGED <<stop, generation, frames, updates, light, captureVars,
                   stalled, stalls, sampledDrops, result, writerVars>>

\* Mutant: reopens the generation without waiting for the writer's answer.
BlackoutAssumed ==
    /\ spc \in {"stallWait", "finalWait"} /\ ack \in {"pending", "ok"}
    /\ generation' = ResumeGeneration(generation)
    /\ ack' = "none"
    /\ spc' = IF spc = "stallWait" THEN "select" ELSE "joinCapture"
    /\ UNCHANGED <<stop, cancel, frames, updates, safety, light, captureVars,
                   item, stalled, stalls, sampledDrops, samplingFault,
                   teardownFault, result, writerVars>>

BlackoutAcknowledged ==
    /\ spc \in {"stallWait", "finalWait"} /\ ack = "ok"
    /\ generation' = ResumeGeneration(generation)
    /\ ack' = "none"
    /\ spc' = IF spc = "stallWait" THEN "select" ELSE "joinCapture"
    /\ UNCHANGED <<stop, cancel, frames, updates, safety, light, captureVars,
                   item, stalled, stalls, sampledDrops, samplingFault,
                   teardownFault, result, writerVars>>

\* An error, or the writer is gone and the oneshot with it.
BlackoutRefused ==
    /\ spc \in {"stallWait", "finalWait"}
    /\ ack = "error" \/ (ack = "pending" /\ wpc = "done")
    /\ RequestFailed
    /\ ack' = "none"
    /\ UNCHANGED <<stop, generation, frames, updates, safety, light, captureVars,
                   stalled, stalls, sampledDrops, result, writerVars>>

\* Teardown: the frame receiver goes, and a last blackout is owed.
BeginTeardown ==
    /\ spc = "leave"
    /\ frames' = WithoutRx(frames)
    /\ generation' = BlackoutGeneration(generation)
    /\ spc' = "finalRequest"
    /\ UNCHANGED <<stop, cancel, updates, safety, ack, light, captureVars, item,
                   stalled, stalls, sampledDrops, samplingFault, teardownFault,
                   result, writerVars>>

\* Mutant: keeps the update sender alive while it waits for the writer.
JoinCaptureKeepsSender ==
    /\ spc = "joinCapture" /\ cpc = "done"
    /\ spc' = "joinWriter"
    /\ UNCHANGED <<sharedVars, captureVars, item, stalled, stalls, sampledDrops,
                   samplingFault, teardownFault, result, writerVars>>

\* Only now do the writer's two senders go.
JoinCapture ==
    /\ spc = "joinCapture" /\ cpc = "done"
    /\ updates' = WithoutTx(updates)
    /\ spc' = "joinWriter"
    /\ UNCHANGED <<stop, cancel, generation, frames, safety, ack, light,
                   captureVars, item, stalled, stalls, sampledDrops,
                   samplingFault, teardownFault, result, writerVars>>

\* Mutant: reports what broke the engine, not what broke while it stopped.
JoinWriterIgnored ==
    /\ spc = "joinWriter" /\ wpc = "done"
    /\ result' = IF samplingFault \/ captureFault
                 THEN "error" ELSE "ok"
    /\ spc' = "done"
    /\ UNCHANGED <<sharedVars, captureVars, item, stalled, stalls, sampledDrops,
                   samplingFault, teardownFault, writerVars>>

JoinWriter ==
    /\ spc = "joinWriter" /\ wpc = "done"
    /\ result' = IF samplingFault \/ captureFault \/ teardownFault \/ writeFault
                 THEN "error" ELSE "ok"
    /\ spc' = "done"
    /\ UNCHANGED <<sharedVars, captureVars, item, stalled, stalls, sampledDrops,
                   samplingFault, teardownFault, writerVars>>

-----------------------------------------------------------------------------
(* LightingWriterState, as operators on its record.                          *)

One(b) == IF b THEN 1 ELSE 0

Waiting(s) == s.current # NoFrame /\ ~s.rendered   \* accepted, never shown
Shown(s)   == s.current # NoFrame /\ s.rendered

Rejects(s, u) == u.gen # s.accepted

Accept(s, u) == [s EXCEPT !.current = u, !.rendered = FALSE,
                          !.active = TRUE, !.armed = TRUE]

\* Mutants of the operators that follow.
AcceptAlways(s, u) == Accept(s, u)
PrepareSafetyStillActive(s, g) ==
    [s EXCEPT !.accepted = g, !.current = NoFrame, !.rendered = FALSE,
              !.armed = FALSE]
ClearedKeepsUpdate(s) == [s EXCEPT !.active = FALSE, !.armed = FALSE]

AcceptUpdate(s, u) == IF Rejects(s, u) THEN s ELSE Accept(s, u)

PrepareSafety(s, g) == [current |-> NoFrame, rendered |-> FALSE,
                        active |-> FALSE, armed |-> FALSE, accepted |-> g]

MarkDisplayed(s) == [s EXCEPT !.rendered = TRUE]

Cleared(s) == [s EXCEPT !.current = NoFrame, !.rendered = FALSE,
                        !.active = FALSE, !.armed = FALSE]

\* The drop a call of accept_update reports: u itself, or what it displaces.
DropsOnAccept(s, u) == One(Rejects(s, u) \/ Waiting(s))
SettlesOnAccept(s, u) == One(~Rejects(s, u) /\ Shown(s))

-----------------------------------------------------------------------------
(* The writer task.                                                          *)

Runs == updatesOpen \/ safetyOpen \/ w.active
AtWake == wpc = "loop" /\ Runs /\ pendingSafety = 0

SafetyTxGone == spc \in {"joinWriter", "done"}
SafetyReady  == safetyOpen /\ (safety # 0 \/ SafetyTxGone)

TakeSafety ==
    IF safety # 0
    THEN pendingSafety' = safety /\ safety' = 0 /\ UNCHANGED safetyOpen
    ELSE safetyOpen' = FALSE /\ UNCHANGED <<pendingSafety, safety>>

\* The biased select of next_writer_wake asks for a blackout first ...
WakeSafety ==
    /\ AtWake /\ SafetyReady
    /\ TakeSafety
    /\ UNCHANGED <<stop, cancel, generation, frames, updates, ack, light,
                   captureVars, coordVars, wpc, w, updatesOpen, staleDrops,
                   writeFault, settled>>

\* ... then for the write deadline ...
WakeDeadline ==
    /\ AtWake /\ ~SafetyReady /\ w.armed
    /\ IF w.current = NoFrame
       THEN w' = [w EXCEPT !.active = FALSE, !.armed = FALSE] /\ UNCHANGED wpc
       ELSE wpc' = "write" /\ UNCHANGED w
    /\ UNCHANGED <<sharedVars, captureVars, coordVars, updatesOpen, safetyOpen,
                   pendingSafety, staleDrops, writeFault, settled>>

\* ... and for an update last.
WakeUpdate ==
    /\ AtWake /\ ~SafetyReady /\ updatesOpen /\ HasItem(updates)
    /\ updates' = Taken(updates)
    /\ w' = AcceptUpdate(w, updates.val)
    /\ staleDrops' = staleDrops + DropsOnAccept(w, updates.val)
    /\ settled' = settled + SettlesOnAccept(w, updates.val)
    /\ UNCHANGED <<stop, cancel, generation, frames, safety, ack, light,
                   captureVars, coordVars, wpc, updatesOpen, safetyOpen,
                   pendingSafety, writeFault>>

WakeUpdatesEnded ==
    /\ AtWake /\ ~SafetyReady /\ updatesOpen /\ Ended(updates)
    /\ updatesOpen' = FALSE
    /\ UNCHANGED <<sharedVars, captureVars, coordVars, wpc, w, safetyOpen,
                   pendingSafety, staleDrops, writeFault, settled>>

\* Mutant: a write under way is finished before a blackout is looked at.
WritePreemptedOnlyAtEnd ==
    /\ wpc = "write" /\ SafetyReady /\ safety = 0
    /\ safetyOpen' = FALSE
    /\ UNCHANGED <<sharedVars, captureVars, coordVars, wpc, w, updatesOpen,
                   pendingSafety, staleDrops, writeFault, settled>>

\* The write future is dropped for the blackout; it may have got through.
WritePreempted ==
    /\ wpc = "write" /\ SafetyReady
    /\ TakeSafety
    /\ wpc' = IF safety # 0 THEN "loop" ELSE "write"
    /\ light' \in {light, w.current}
    /\ UNCHANGED <<stop, cancel, generation, frames, updates, ack, captureVars,
                   coordVars, w, updatesOpen, staleDrops, writeFault, settled>>

\* Mutant: the next deadline is waited for without a look at the channel.
AfterWriteOnly(s, stale, final) ==
    /\ w' = IF s.current = NoFrame THEN s
            ELSE [s EXCEPT !.active = ~final, !.armed = ~final]
    /\ staleDrops' = stale
    /\ UNCHANGED <<updates, settled>>

\* What follows a write that returned: a waiting update at once, or the rest
\* of the transition, unless the write was its final target.
AfterWrite(s, stale, final) ==
    IF HasItem(updates)
    THEN /\ updates' = Taken(updates)
         /\ w' = AcceptUpdate(s, updates.val)
         /\ staleDrops' = stale + DropsOnAccept(s, updates.val)
         /\ settled' = settled + SettlesOnAccept(s, updates.val)
    ELSE /\ w' = IF s.current = NoFrame THEN s
                 ELSE [s EXCEPT !.active = ~final, !.armed = ~final]
         /\ staleDrops' = stale
         /\ UNCHANGED <<updates, settled>>

\* Rendered (the lights changed) or Unchanged.
WriteDone(final) ==
    /\ wpc = "write" /\ ~SafetyReady
    /\ light' \in {light, w.current}
    /\ wpc' = "loop"
    /\ AfterWrite(MarkDisplayed(w), staleDrops, final)
    /\ UNCHANGED <<stop, cancel, generation, frames, safety, ack, captureVars,
                   coordVars, updatesOpen, safetyOpen, pendingSafety, writeFault>>

\* Expired: the sink found the update too old and wrote black in its place.
WriteExpired ==
    /\ wpc = "write" /\ ~SafetyReady
    /\ light' \in {light, NoFrame}
    /\ wpc' = "loop"
    /\ AfterWrite(Cleared(w), staleDrops + 1, TRUE)
    /\ UNCHANGED <<stop, cancel, generation, frames, safety, ack, captureVars,
                   coordVars, updatesOpen, safetyOpen, pendingSafety, writeFault>>

\* RecoveryCancelled: the sink gave up reconnecting; the engine goes on.
WriteGivenUp ==
    /\ wpc = "write" /\ ~SafetyReady
    /\ light' \in {light, w.current, NoFrame}
    /\ wpc' = "loop"
    /\ w' = Cleared(w)
    /\ staleDrops' = staleDrops + One(Waiting(w))
    /\ settled' = settled + One(Shown(w))
    /\ UNCHANGED <<stop, cancel, generation, frames, updates, safety, ack,
                   captureVars, coordVars, updatesOpen, safetyOpen,
                   pendingSafety, writeFault>>

\* The writer ends: its receivers go, and with them a blackout still queued.
WriterLeaves(fault) ==
    /\ wpc' = "done"
    /\ writeFault' = fault
    /\ cancel' = (cancel \/ fault)
    /\ updates' = WithoutRx(updates)
    /\ safety' = 0

WriteFails ==
    /\ wpc = "write" /\ ~SafetyReady
    /\ light' \in {light, w.current, NoFrame}
    /\ WriterLeaves(TRUE)
    /\ UNCHANGED <<stop, generation, frames, ack, captureVars, coordVars, w,
                   updatesOpen, safetyOpen, pendingSafety, staleDrops, settled>>

BeginBlackout ==
    /\ wpc = "loop" /\ Runs /\ pendingSafety # 0
    /\ w' = PrepareSafety(w, pendingSafety)
    /\ staleDrops' = staleDrops + One(Waiting(w))
    /\ settled' = settled + One(Shown(w))
    /\ wpc' = "blackout"
    /\ UNCHANGED <<sharedVars, captureVars, coordVars, updatesOpen, safetyOpen,
                   pendingSafety, writeFault>>

BlackoutDone ==
    /\ wpc = "blackout"
    /\ light' = NoFrame
    /\ ack' = "ok"
    /\ pendingSafety' = 0
    /\ wpc' = "loop"
    /\ UNCHANGED <<stop, cancel, generation, frames, updates, safety, captureVars,
                   coordVars, w, updatesOpen, safetyOpen, staleDrops, writeFault,
                   settled>>

\* The sink failed, or did not answer within SAFETY_BLACKOUT_TIMEOUT.
BlackoutFails ==
    /\ wpc = "blackout"
    /\ light' \in {light, NoFrame}
    /\ ack' = "error"
    /\ pendingSafety' = 0
    /\ WriterLeaves(TRUE)
    /\ UNCHANGED <<stop, generation, frames, captureVars, coordVars, w,
                   updatesOpen, safetyOpen, staleDrops, settled>>

WriterEnds ==
    /\ wpc = "loop" /\ ~Runs
    /\ WriterLeaves(FALSE)
    /\ UNCHANGED <<stop, generation, frames, ack, light, captureVars, coordVars,
                   w, updatesOpen, safetyOpen, pendingSafety, staleDrops, settled>>

-----------------------------------------------------------------------------
\* What the tasks do by themselves; frames, and the end of a write, depend on
\* the compositor and the device.
CaptureSteps ==
    \/ CaptureTag \/ CaptureSend \/ CaptureCancelled
    \/ \E failed \in BOOLEAN : CaptureShutdown(failed)

CoordinatorSteps ==
    \/ CoordinatorCancelled \/ StallDetected \/ FramesEnded \/ ReceiveFrame
    \/ SamplingFails \/ SamplingDone
    \/ RequestBlackout \/ BlackoutAcknowledged \/ BlackoutRefused
    \/ BeginTeardown \/ JoinCapture \/ JoinWriter

WriterSteps ==
    \/ WakeSafety \/ WakeDeadline \/ WakeUpdate \/ WakeUpdatesEnded
    \/ WritePreempted \/ BeginBlackout \/ BlackoutDone \/ BlackoutFails
    \/ WriterEnds

SourceSteps == CaptureFrame \/ \E failed \in BOOLEAN : CaptureEnds(failed)

SinkSteps ==
    \/ \E final \in BOOLEAN : WriteDone(final)
    \/ WriteExpired \/ WriteGivenUp \/ WriteFails

Returned == result # "none" /\ UNCHANGED vars

Next ==
    \/ Stop \/ CaptureSteps \/ CoordinatorSteps \/ WriterSteps
    \/ SourceSteps \/ SinkSteps \/ Returned

Spec == Init /\ [][Next]_vars

FairSpec ==
    Spec /\ WF_vars(CaptureSteps) /\ WF_vars(CoordinatorSteps) /\ WF_vars(WriterSteps)

-----------------------------------------------------------------------------
(* Properties.                                                               *)

(* After a blackout has been acknowledged the lights stay black until they   *)
(* are given a frame that was tagged in the generation the blackout opened:  *)
(* nothing captured, sampled or queued before it is ever shown again.        *)
OnlyCurrentWorkIsShown ==
    Even(generation) => (light = NoFrame \/ light.gen = generation)

(* Once the teardown blackout is acknowledged the lights are black and stay  *)
(* black, whatever is still in the channels and whatever the capture task    *)
(* does while it is joined; an engine that returns Ok leaves them black.     *)
DarkAfterTeardown ==
    (spc \in {"joinCapture", "joinWriter", "done"} /\ ~teardownFault)
        => light = NoFrame

Waits  == {"stallWait", "finalWait"}
Joins  == {"joinCapture", "joinWriter", "done"}
NoRequest == safety = 0 /\ pendingSafety = 0 /\ ack = "none" /\ wpc # "blackout"

\* Where the coordinator is tells whether a blackout is owed, and to whom.
CoordinatorPart ==
    /\ spc \notin Waits => NoRequest
    /\ spc \in {"select", "sample"} => Even(generation)
    /\ spc \in {"stallRequest", "finalRequest"} \cup Waits => Odd(generation)
    /\ spc \in {"leave"} \cup Joins => (Even(generation) \/ wpc = "done")
    /\ teardownFault => spc \in Joins /\ wpc = "done"
    /\ spc \notin {"joinWriter", "done"} => safetyOpen

\* A request is in one place at a time, from the queue to its answer.
RequestPart ==
    /\ safety # 0 => /\ safety = generation + 1 /\ ack = "pending"
                     /\ pendingSafety = 0 /\ wpc \in {"loop", "write"}
    /\ pendingSafety # 0 => /\ pendingSafety = generation + 1 /\ ack = "pending"
                            /\ wpc \in {"loop", "blackout"}
    /\ wpc = "blackout" => /\ pendingSafety # 0 /\ w.current = NoFrame
                           /\ w.accepted = generation + 1
    /\ ack = "ok" => /\ safety = 0 /\ pendingSafety = 0 /\ wpc = "loop"
                     /\ light = NoFrame /\ w.current = NoFrame
                     /\ w.accepted = generation + 1
    /\ ack = "error" => wpc = "done"

\* What the writer holds is of the generation it accepts, and what it accepts
\* is the current generation whenever that one is open.
WriterPart ==
    /\ w.current # NoFrame => w.current.gen = w.accepted
    /\ w.active = w.armed /\ (w.armed => w.current # NoFrame)
    /\ Even(generation) => w.accepted = generation

\* Updates are tagged with an even generation, and after the teardown blackout
\* with an earlier one.
UpdatePart ==
    /\ Even(updates.val.gen) /\ updates.val.gen <= generation
    /\ (spc \in Joins /\ ~teardownFault) =>
          /\ Even(generation) /\ light = NoFrame /\ w.current = NoFrame
          /\ HasItem(updates) => updates.val.gen # generation

(* The protocol between the coordinator's generation and the writer: a        *)
(* request is in one place at a time, the generation is odd exactly while one *)
(* is owed, and an answer of Ok leaves a writer that holds nothing and accepts*)
(* only what is captured next.  Inductive: EngineProofs rests on it.          *)
BlackoutProtocol ==
    /\ CoordinatorPart /\ RequestPart /\ WriterPart /\ UpdatePart
    /\ OnlyCurrentWorkIsShown

InFlight ==
    One(held # NoFrame) + One(HasItem(frames)) + One(item # NoFrame)
        + One(HasItem(updates)) + One(w.current # NoFrame)

Dropped == replacements + sampledDrops + staleDrops

(* The statistics are exact: until cancellation loses frames uncounted, each *)
(* captured frame is in flight, was dropped and counted once, or was shown;  *)
(* and at no time are more frames reported dropped than were captured.       *)
FramesAccountedFor ==
    /\ TypeOK
    /\ ~cancel => captured = InFlight + Dropped + settled
    /\ Dropped + settled <= captured

(* The writer never awaits a select! whose every branch is disabled (tokio   *)
(* panics on it): a transition under way always has a write deadline.        *)
NeverAnEmptySelect ==
    (AtWake /\ ~updatesOpen /\ ~safetyOpen) => w.armed

(* A stall ends only with a frame the writer will still accept; a frame from *)
(* before the blackout cannot silence the stall monitor.                     *)
StallEndsWithAcceptableFrame ==
    [][stalled /\ ~stalled' => item'.gen = w.accepted]_vars

(* The generation reopens (turns even) only while the lights are black.      *)
GenerationReopensInTheDark ==
    [][generation' # generation /\ Even(generation') => light = NoFrame]_vars

(* The oldest of the frames at the writer and of those still to come to it,  *)
(* from the back of the pipeline to its front.                               *)
OldestOf(frame, later) == IF frame # NoFrame THEN frame.id ELSE later
FromCapture  == OldestOf(held, captured + 1)
FromFrames   == OldestOf(frames.val, FromCapture)
FromSampling == OldestOf(item, FromFrames)
FromUpdates  == OldestOf(updates.val, FromSampling)
Oldest       == OldestOf(w.current, FromUpdates)

Phase ==
    IF Odd(generation) THEN IF ack = "ok" THEN "dark" ELSE "closing"
    ELSE IF spc \in Joins THEN "over" ELSE "open"
Epoch == IF Odd(generation) THEN generation - 1 ELSE generation

(* Three tasks and their channels, to someone who watches the lights, are    *)
(* LightShow: frames of one generation at a time, never an older one after a *)
(* newer one, and the next generation only after darkness.                   *)
Lights == INSTANCE LightShow WITH oldest <- Oldest, phase <- Phase, epoch <- Epoch
ImplementsLightShow == Lights!ShowSpec

(* A stall turns the lights black, even during a write the device is sitting *)
(* on, unless the blackout fails and the engine reports it.                  *)
StallGoesDark ==
    (spc = "stallRequest") ~> (light = NoFrame \/ result = "error")

(* The engine returns once its caller has asked it to stop.                  *)
StopsWhenAsked == stop ~> result # "none"

(* A transition whose deadlines are due again and again does not starve the  *)
(* updates that wait behind it: as long as the sink answers, the writer gets *)
(* to each, although its select asks for a deadline before an update.        *)
UpdatesAreNotStarved ==
    ([]<>(wpc # "write")) => (HasItem(updates) ~> (~HasItem(updates) \/ wpc = "done"))

(* The engine does not outlive its writer: a sink that fails for good ends   *)
(* it with an error, although no frame may ever arrive again.                *)
WriterFailureIsReported == writeFault ~> result = "error"
=============================================================================
