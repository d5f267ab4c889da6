------------------------------- MODULE Service -------------------------------
(***************************************************************************)
(* The lighting service (src/service/runtime.rs) with its controller model   *)
(* (src/control/model.rs) and the proxy sink between the service and the     *)
(* engine (src/service/proxy_sink.rs).                                       *)
(*                                                                          *)
(*   service   one task: serves client commands and the engine's proxied     *)
(*             writes and blackouts, owns the light sink, starts and stops   *)
(*             the engine.  While it waits for an engine it stopped, or for  *)
(*             the sink, it serves nothing else;                             *)
(*   engine    Engine's writer, as seen through the proxy: it sends a        *)
(*             command and awaits the answer, gives a write up for a         *)
(*             blackout, and ends in error when a blackout is not answered   *)
(*             in time.                                                      *)
(*                                                                          *)
(* The engine's colours are one value, Scene; a manual target is one colour. *)
(* The sink is what Light promises: a write returns once it went through,    *)
(* or fails after cancellation; a target that got stale turns black; a       *)
(* blackout may fail.  Snapshots, the revision, setup_complete and the       *)
(* restore token are left out.                                               *)
(***************************************************************************)
EXTENDS Naturals, Sequences

CONSTANTS
    ProxyLength,      \* mpsc::channel(8)
    ManualColours,    \* the colours a client asks for
    Black, Scene,
    RestartAtWill     \* whether clients restart a capture that is not wanted

ASSUME ProxyAssumption   == ProxyLength \in Nat \ {0}
ASSUME RestartAssumption == RestartAtWill \in BOOLEAN
ASSUME LightsAssumption  == Black \notin ManualColours /\ Scene \notin ManualColours \cup {Black}

Lights == ManualColours \cup {Black, Scene}
Config == [mode : {"manual", "content"}, enabled : BOOLEAN, manual : ManualColours]

(* A proxied command.  live: the engine awaits the answer; stale: it was     *)
(* captured CAPTURE_STALL_TIMEOUT ago or more.                               *)
ProxyCommand == [kind : {"write", "blackout"}, live : BOOLEAN, stale : BOOLEAN]
NoCommand    == [kind |-> "none", live |-> FALSE, stale |-> FALSE]

VARIABLES
    config,       \* ControllerModel.config
    confirmed, pending, health,     \* the rest of the controller model
    saved,        \* the configuration file
    shutdown,     \* the service's CancellationToken
    pc,           \* where the service task is
    after,        \* what it does when the engine it stopped has ended
    inHand,       \* the proxied command it is dispatching
    queue,        \* the proxy channel
    lights,       \* what the speaker shows
    engine,       \* "none", "running", "stalled", "ending", "ended"
    cancelled,    \* the engine's CancellationToken (a child of shutdown)
    sinkCall,     \* the engine's sink call: "none", "write", "sending", "blackout"
    reply,        \* its answer: "none", "ok", "error"
    failed        \* the engine ends, or ended, with an error

modelVars   == <<config, confirmed, pending, health, saved>>
serviceVars == <<pc, after, inHand, shutdown>>
engineVars  == <<engine, cancelled, sinkCall, reply, failed>>
vars == <<modelVars, serviceVars, queue, lights, engineVars>>

TypeOK ==
    /\ config \in Config /\ saved \in Config
    /\ confirmed \in Lights /\ pending \in BOOLEAN
    /\ health \in {"unknown", "ready", "failed"}
    /\ shutdown \in BOOLEAN
    /\ pc \in {"open", "loop", "dispatch", "write", "blackout", "engineBlackout",
               "join", "finalJoin", "final", "done"}
    /\ after \in {"none", "write", "blackout", "restart"}
    /\ inHand \in ProxyCommand \cup {NoCommand}
    /\ queue \in Seq(ProxyCommand) /\ Len(queue) <= ProxyLength
    /\ lights \in Lights
    /\ engine \in {"none", "running", "stalled", "ending", "ended"}
    /\ cancelled \in BOOLEAN /\ failed \in BOOLEAN
    /\ sinkCall \in {"none", "write", "sending", "blackout"}
    /\ reply \in {"none", "ok", "error"}

Init ==
    /\ config \in Config /\ saved = config
    /\ confirmed = Black /\ pending = FALSE /\ health = "unknown"
    /\ shutdown = FALSE
    /\ pc = "open" /\ after = "none" /\ inHand = NoCommand
    /\ queue = <<>> /\ lights \in Lights
    /\ engine = "none" /\ cancelled = FALSE /\ sinkCall = "none"
    /\ reply = "none" /\ failed = FALSE

-----------------------------------------------------------------------------
(* ControllerModel.                                                          *)
ManualTarget(c) == IF c.enabled THEN c.manual ELSE Black

ConfirmWrite(colour) == confirmed' = colour /\ pending' = FALSE /\ health' = "ready"
RecordFailure        == health' = "failed" /\ UNCHANGED <<confirmed, pending>>
MarkPending          == pending' = TRUE /\ UNCHANGED <<confirmed, health>>
ModelUnchanged       == UNCHANGED <<confirmed, pending, health>>

(* A change of configuration is kept in memory and then saved; a save that   *)
(* fails is only logged.                                                     *)
Configure(c) == config' = c /\ saved' \in {saved, c}

(* start_engine.                                                             *)
StartEngine ==
    /\ engine' = "running" /\ cancelled' = FALSE /\ failed' = FALSE
    /\ sinkCall' = "none" /\ reply' = "none"
EngineUnchanged == UNCHANGED engineVars
EngineGone == /\ engine' = "none" /\ UNCHANGED <<cancelled, sinkCall, reply, failed>>

(* The lights a write of the sink leaves.                                    *)
Shows(colour) == lights' = colour

-----------------------------------------------------------------------------
(* run_service up to its loop: the initial blackout, then what the saved     *)
(* configuration asks for.                                                   *)
Opened ==
    /\ pc = "open" /\ Shows(Black)
    /\ confirmed' = Black /\ health' = "ready"
    /\ pending' = (config.enabled /\ config.mode = "manual")
    /\ pc' = IF config.enabled /\ config.mode = "manual" THEN "write" ELSE "loop"
    /\ IF config.enabled /\ config.mode = "content" THEN StartEngine ELSE EngineUnchanged
    /\ UNCHANGED <<config, saved, after, inHand, shutdown, queue>>

OpenCancelled ==
    /\ pc = "open" /\ shutdown
    /\ pc' = "done"
    /\ UNCHANGED <<modelVars, after, inHand, shutdown, queue, lights, engineVars>>

Shutdown ==
    /\ ~shutdown /\ shutdown' = TRUE
    /\ UNCHANGED <<modelVars, pc, after, inHand, queue, lights, engineVars>>

(* The loop's select is biased: shutdown, proxied commands, client commands, *)
(* the end of the engine.                                                    *)
Idle == pc = "loop" /\ ~shutdown

TakeProxyCommand ==
    /\ Idle /\ queue # <<>>
    /\ inHand' = Head(queue) /\ queue' = Tail(queue)
    /\ pc' = "dispatch"
    /\ UNCHANGED <<modelVars, after, shutdown, lights, engineVars>>

(* dispatch_proxy_command.                                                   *)
Answer(value) == reply' = IF inHand.live THEN value ELSE reply
Dispatched    == /\ pc' = "loop" /\ inHand' = NoCommand
                 /\ UNCHANGED <<config, saved, after, shutdown, queue, engine,
                                cancelled, sinkCall, failed>>

DispatchWrite ==
    /\ pc = "dispatch" /\ inHand.kind = "write" /\ ~inHand.stale
    /\ Shows(Scene) /\ ConfirmWrite(Scene) /\ Answer("ok")
    /\ Dispatched

DispatchExpired ==
    /\ pc = "dispatch" /\ inHand.kind = "write"
    /\ Shows(Black) /\ ModelUnchanged /\ Answer("ok")
    /\ Dispatched

DispatchCancelled ==
    /\ pc = "dispatch" /\ inHand.kind = "write" /\ shutdown
    /\ RecordFailure /\ Answer("error")
    /\ Dispatched /\ UNCHANGED lights

DispatchBlackout ==
    /\ pc = "dispatch" /\ inHand.kind = "blackout"
    /\ \/ Shows(Black) /\ ConfirmWrite(Black) /\ Answer("ok")
       \/ UNCHANGED lights /\ ModelUnchanged /\ Answer("error")
    /\ Dispatched

-----------------------------------------------------------------------------
(* handle_client_command: the model's effect, and what the service does.     *)
ClientTurn == Idle /\ queue = <<>>
NothingElse == UNCHANGED <<inHand, shutdown, queue, lights>>

BeginWrite == pc' = "write" /\ after' = "none" /\ MarkPending /\ EngineUnchanged
NoWrite    == pc' = "loop" /\ after' = "none" /\ ModelUnchanged /\ EngineUnchanged

(* engine.take(), cancel, then wait for the task.                            *)
StopThen(next) ==
    /\ pc' = "join" /\ after' = next
    /\ cancelled' = TRUE
    /\ ModelUnchanged /\ UNCHANGED <<engine, sinkCall, reply, failed>>

BeginBlackout == pc' = "blackout" /\ after' = "none" /\ MarkPending /\ EngineUnchanged

StartContentAware ==
    /\ pc' = "loop" /\ after' = "none" /\ ModelUnchanged
    /\ IF engine = "none" THEN StartEngine ELSE EngineUnchanged
StopContentAwareAndWrite == IF engine # "none" THEN StopThen("write") ELSE BeginWrite
PriorityBlackoutAlone == BeginBlackout   \* mutant: the engine is not stopped
PriorityBlackout == IF engine # "none" THEN StopThen("blackout") ELSE BeginBlackout

SetManualZones(colour) ==
    /\ ClientTurn /\ config.mode = "manual"
    /\ Configure([config EXCEPT !.manual = colour])
    /\ IF config.enabled THEN BeginWrite ELSE NoWrite
    /\ NothingElse

SetMode(mode) ==
    /\ ClientTurn /\ config.mode # mode
    /\ Configure([config EXCEPT !.mode = mode])
    /\ IF ~config.enabled THEN NoWrite
       ELSE IF mode = "content" THEN StartContentAware
       ELSE StopContentAwareAndWrite
    /\ NothingElse

SetLightsEnabled(enabled) ==
    /\ ClientTurn /\ config.enabled # enabled
    /\ Configure([config EXCEPT !.enabled = enabled])
    /\ IF ~enabled THEN PriorityBlackout
       ELSE IF config.mode = "content" THEN StartContentAware
       ELSE BeginWrite
    /\ NothingElse

(* RestartCapture, and ChooseDesktopDisplay on the portal backend.  The      *)
(* service serves them in every mode, lights on or off.                      *)
ContentWanted == config.mode = "content" /\ config.enabled
RestartCapture ==
    /\ ClientTurn /\ (RestartAtWill \/ ContentWanted)
    /\ IF engine # "none" THEN StopThen("restart")
       ELSE pc' = "loop" /\ after' = "none" /\ ModelUnchanged /\ StartEngine
    /\ NothingElse /\ UNCHANGED <<config, saved>>

(* handle.task.await, and what comes after it.                               *)
Joined ==
    /\ pc = "join" /\ engine = "ended"
    /\ after' = "none"
    /\ CASE after = "write"    -> pc' = "write" /\ MarkPending /\ EngineGone
         [] after = "blackout" -> pc' = "blackout" /\ MarkPending /\ EngineGone
         [] OTHER              -> pc' = "loop" /\ ModelUnchanged
                                  /\ IF shutdown THEN EngineGone ELSE StartEngine
    /\ UNCHANGED <<config, saved, inHand, shutdown, queue, lights>>

ServiceRests == pc' = "loop" /\ UNCHANGED <<config, saved, after, inHand, shutdown, queue, engineVars>>

(* apply_manual_write.                                                       *)
ManualWritten ==
    /\ pc = "write"
    /\ Shows(ManualTarget(config)) /\ ConfirmWrite(ManualTarget(config))
    /\ ServiceRests

ManualWriteCancelled ==
    /\ pc = "write" /\ shutdown
    /\ RecordFailure /\ UNCHANGED lights
    /\ ServiceRests

BlackoutWritten ==
    /\ pc = "blackout"
    /\ Shows(Black) /\ ConfirmWrite(Black)
    /\ ServiceRests

(* mutant: a failed blackout is confirmed all the same *)
BlackoutFailedConfirmed ==
    /\ pc = "blackout"
    /\ ConfirmWrite(Black) /\ UNCHANGED lights
    /\ ServiceRests

BlackoutFailed ==
    /\ pc = "blackout"
    /\ RecordFailure /\ UNCHANGED lights
    /\ ServiceRests

(* The loop notices that the engine ended.  Its error matters only while     *)
(* content-aware lighting is wanted.                                         *)
EngineEndNoticed ==
    /\ ClientTurn /\ engine = "ended"
    /\ pc' = IF failed /\ ContentWanted THEN "engineBlackout" ELSE "loop"
    /\ EngineGone
    /\ UNCHANGED <<modelVars, after, inHand, shutdown, queue, lights>>

EngineErrorHandled ==
    /\ pc = "engineBlackout"
    /\ Shows(Black) \/ UNCHANGED lights
    /\ RecordFailure
    /\ ServiceRests

(* run_service after its loop.                                               *)
LeaveLoop ==
    /\ pc = "loop" /\ shutdown
    /\ pc' = IF engine # "none" THEN "finalJoin" ELSE "final"
    /\ cancelled' = (cancelled \/ engine # "none")
    /\ UNCHANGED <<modelVars, after, inHand, shutdown, queue, lights, engine,
                   sinkCall, reply, failed>>

FinalJoined ==
    /\ pc = "finalJoin" /\ engine = "ended"
    /\ pc' = "final" /\ EngineGone
    /\ UNCHANGED <<modelVars, after, inHand, shutdown, queue, lights>>

FinalBlackout ==
    /\ pc = "final"
    /\ Shows(Black) \/ UNCHANGED lights
    /\ pc' = "done"
    /\ UNCHANGED <<modelVars, after, inHand, shutdown, queue, engineVars>>

-----------------------------------------------------------------------------
(* The engine.  The answer to a call it gave up goes nowhere.                *)
Unawaited(command) == IF command.kind = "none" THEN command ELSE [command EXCEPT !.live = FALSE]
GiveUpCall ==
    /\ queue' = [k \in DOMAIN queue |-> Unawaited(queue[k])]
    /\ inHand' = Unawaited(inHand)
    /\ reply' = "none"

Send(command) == Len(queue) < ProxyLength /\ queue' = Append(queue, command)

EngineWrite ==
    /\ engine = "running" /\ sinkCall = "none"
    /\ Send([kind |-> "write", live |-> TRUE, stale |-> FALSE])
    /\ sinkCall' = "write"
    /\ UNCHANGED <<modelVars, serviceVars, lights, engine, cancelled, reply, failed>>

EngineWriteAnswered ==
    /\ sinkCall = "write" /\ reply # "none"
    /\ sinkCall' = "none" /\ reply' = "none"
    /\ IF reply = "ok" THEN UNCHANGED <<engine, failed>>
       ELSE engine' = "ended" /\ failed' = TRUE
    /\ UNCHANGED <<modelVars, serviceVars, queue, lights, cancelled>>

(* A stall, the end of the capture, or cancellation: the writer gives its    *)
(* write up and blacks out.  The coordinator looks for cancellation first.   *)
EngineStall ==
    /\ engine = "running" /\ ~cancelled /\ ~shutdown
    /\ engine' = "stalled" /\ sinkCall' = "sending" /\ GiveUpCall
    /\ UNCHANGED <<modelVars, pc, after, shutdown, lights, cancelled, failed>>

EngineLeave ==
    /\ engine = "running"
    /\ failed' \in BOOLEAN
    /\ engine' = "ending" /\ sinkCall' = "sending" /\ GiveUpCall
    /\ UNCHANGED <<modelVars, pc, after, shutdown, lights, cancelled>>

EngineSendBlackout ==
    /\ sinkCall = "sending"
    /\ Send([kind |-> "blackout", live |-> TRUE, stale |-> FALSE])
    /\ sinkCall' = "blackout"
    /\ UNCHANGED <<modelVars, serviceVars, lights, engine, cancelled, reply, failed>>

EngineBlackoutAnswered ==
    /\ sinkCall = "blackout" /\ reply # "none"
    /\ sinkCall' = "none" /\ reply' = "none"
    /\ engine' = IF reply = "ok" /\ engine = "stalled" THEN "running" ELSE "ended"
    /\ failed' = (failed \/ reply # "ok")
    /\ UNCHANGED <<modelVars, serviceVars, queue, lights, cancelled>>

(* SAFETY_BLACKOUT_TIMEOUT (1 s) after the blackout was begun.  That is more *)
(* than CAPTURE_STALL_TIMEOUT (500 ms): every write the engine had sent      *)
(* before is stale by then.                                                  *)
StaleNever(command) == command   \* mutant: a timeout within the freshness bound
Stale(command) == IF command.kind = "write" THEN [command EXCEPT !.stale = TRUE] ELSE command

(* mutant: the writer awaits its blackout without a timeout *)
EngineBlackoutWaits == FALSE /\ UNCHANGED vars

EngineBlackoutTimeout ==
    /\ sinkCall = "blackout" \/ (sinkCall = "sending" /\ Len(queue) = ProxyLength)
    /\ reply = "none"
    /\ engine' = "ended" /\ failed' = TRUE /\ sinkCall' = "none"
    /\ queue' = [k \in DOMAIN queue |-> Stale(Unawaited(queue[k]))]
    /\ inHand' = Unawaited(inHand)
    /\ UNCHANGED <<modelVars, pc, after, shutdown, lights, cancelled, reply>>

-----------------------------------------------------------------------------
Client ==
    \/ \E colour \in ManualColours : SetManualZones(colour)
    \/ \E mode \in {"manual", "content"} : SetMode(mode)
    \/ \E enabled \in BOOLEAN : SetLightsEnabled(enabled)
    \/ RestartCapture

Boot == Opened \/ OpenCancelled
Writes ==
    \/ DispatchWrite \/ DispatchExpired \/ DispatchCancelled
    \/ ManualWritten \/ ManualWriteCancelled
Blackouts ==
    DispatchBlackout \/ BlackoutWritten \/ BlackoutFailed \/ EngineErrorHandled \/ FinalBlackout
Loop == TakeProxyCommand \/ Joined \/ EngineEndNoticed \/ LeaveLoop \/ FinalJoined
EngineCalls == EngineWriteAnswered \/ EngineSendBlackout \/ EngineBlackoutAnswered
EngineStops == (cancelled \/ shutdown) /\ EngineLeave

Next ==
    \/ Client \/ Shutdown \/ Boot \/ Writes \/ Blackouts \/ Loop
    \/ EngineWrite \/ EngineStall \/ EngineLeave
    \/ EngineCalls \/ EngineBlackoutTimeout
Spec == Init /\ [][Next]_vars

(* The tasks are scheduled, time passes, and a cancelled engine leaves its   *)
(* loop.  A blackout returns whatever the speaker does.  A write need not    *)
(* return while the speaker is missing, unless the service is cancelled.     *)
FairSpec ==
    /\ Spec
    /\ WF_vars(Loop) /\ WF_vars(Blackouts)
    /\ WF_vars(OpenCancelled) /\ WF_vars(shutdown /\ Writes)
    /\ WF_vars(EngineCalls) /\ WF_vars(EngineStops) /\ WF_vars(EngineBlackoutTimeout)

-----------------------------------------------------------------------------
(* Between two commands, when the last write or blackout went through: with  *)
(* the lights off the speaker is dark, and in manual mode it shows the       *)
(* client's colour or nothing, never a scene.  What an engine that was       *)
(* stopped left in the proxy channel must not light the speaker again.       *)
LightsFollowConfig ==
    pc = "loop" /\ health = "ready" =>
        /\ ~config.enabled => lights = Black
        /\ config.enabled /\ config.mode = "manual" => lights \in {config.manual, Black}

(* What the service tells its clients is confirmed is what the speaker shows *)
(* or, when a stale write turned it black or the engine's end did, darkness. *)
(* Checked with the types.                                                   *)
ConfirmedOrDark ==
    /\ TypeOK
    /\ pc = "loop" /\ health = "ready" /\ ~pending => lights \in {confirmed, Black}

(* Between two commands an engine runs only in content-aware mode with the   *)
(* lights on, and the engine that runs was not told to stop.                 *)
EngineOnlyWhenWanted ==
    pc = "loop" /\ ~shutdown /\ engine # "none" =>
        ContentWanted /\ ~cancelled

(* The service does stop when asked: no engine waits for an answer the       *)
(* service will not give, nor the service for an engine whose last blackout  *)
(* it does not serve meanwhile, beyond the timeout.                          *)
Stops == shutdown ~> pc = "done" /\ engine = "none"

-----------------------------------------------------------------------------
(* What the repository says of the service, and the code does not do.        *)

(* README.md:80 names Manual mode "pick a color per zone", and the test at   *)
(* src/control/model.rs:402 asserts that switching to it must write the      *)
(* manual colours.  In manual mode, with the lights on and nothing left to   *)
(* do, the speaker shows the manual colour.                                  *)
ManualIsShown ==
    pc = "loop" /\ queue = <<>> /\ engine = "none" /\ health = "ready"
        /\ config.enabled /\ config.mode = "manual" => lights = config.manual

(* README.md:80 gives the GUI a "master power" switch, and the test at       *)
(* src/control/model.rs:385 says that lights off "targets black".  While     *)
(* the lights are off the speaker stays dark.                                *)
OffIsOff ==
    pc = "loop" /\ ~shutdown /\ ~config.enabled /\ health = "ready" => lights = Black
=============================================================================
