------------------------------ MODULE Control ------------------------------
(***************************************************************************)
(* The control path from a client's request to the configuration file and    *)
(* back: clients (ServiceClient), their connections (Ipc), the service's     *)
(* handling of a command with its saves and snapshots                        *)
(* (src/service/runtime.rs, src/control/model.rs), the engine's saves of     *)
(* restore tokens, and the file (ConfigStore), through crashes, losses of    *)
(* power and restarts.                                                       *)
(*                                                                          *)
(* Service models what the commands do to the lights.  Here a command is a   *)
(* change of the settings, a read, a refused change (a mode conflict), or    *)
(* the choice of another display.  What the lights' write adds, a wait for   *)
(* the sink and changes of the revision before and after, is the effect      *)
(* stage.  The engine appears as the task that opens the portal.             *)
(***************************************************************************)
EXTENDS ServiceClient, ConfigStore

CONSTANTS
    MaxStarts,       \* bound: how often the service is started
    MaxWork          \* bound: how many requests, grants, engine events, crashes, stops and
                     \*   closed windows there are in all

\* Each change is a request, so MaxSetting bounds nothing else.
ASSUME ControlAssumption ==
    /\ Writers = {"service", "engine"} /\ MaxStarts \in Nat \ {0} /\ MaxWork \in Nat
    /\ IsFiniteSet(Requests) /\ Cardinality(Requests) <= MaxSetting

VARIABLES
    service,      \* "down", "opening", "idle", "saving", "saved", "effect", "stopped"
    shutdown,     \* the service's CancellationToken
    epoch,        \* which run of the service this is
    setting,      \* model.config(): the settings
    token,        \* and the restore token, as read when the service started
    revision,     \* ControllerModel.revision
    inHand,       \* the request the service is handling, as a set of at most one
    engine,       \* the engine task: "none", "opening", "saving", "running"
    work,         \* how many of these there were, requests apart
    legacy,       \* what capture.toml gives when there is no config.toml
    runs,         \* history: how often each request was handled
    stored,       \* history: whether the settings in hand were saved
    promised      \* history: the last settings that were answered Ok, saved, and
                  \*   not undone by a save of the engine's that had begun before

serviceVars == <<service, shutdown, epoch, setting, token, revision, inHand, engine,
                 work, legacy>>
history == <<runs, stored, promised>>
vars == <<ipcVars, clientVars, storeVars, serviceVars, history>>

Running   == service \notin {"down", "stopped"}
Listening == Running /\ ~shutdown

Issued == Cardinality({r \in Requests : outcome[r] # "unsent"})
Room   == work + Issued < MaxWork
Spend  == Room /\ work' = work + 1

SnapshotOf(r, s) == [epoch |-> epoch, revision |-> r, setting |-> s]
NoSnapshot == [epoch |-> 0, revision |-> 0, setting |-> 0]

Init ==
    /\ IpcInit(NoSnapshot) /\ ClientInit /\ StoreInit
    /\ service = "down" /\ shutdown = FALSE /\ epoch = 0
    /\ setting = 0 /\ token = 0 /\ revision = 0 /\ inHand = {} /\ engine = "none"
    /\ work = 0
    /\ legacy = [Default EXCEPT !.token = MaxToken]
    /\ runs = [r \in Requests |-> 0] /\ stored = FALSE /\ promised = 0

-----------------------------------------------------------------------------
(* run_service, up to its loop.                                              *)
StoreUnchanged   == UNCHANGED storeVars
ClientsUnchanged == UNCHANGED clientVars

Start ==
    /\ service = "down" /\ epoch < MaxStarts
    /\ Load
    /\ service' = "opening" /\ epoch' = epoch + 1
    /\ setting' = Loaded(legacy).setting /\ token' = Loaded(legacy).token
    /\ revision' = 0
    /\ published' = [epoch |-> epoch + 1, revision |-> 0, setting |-> Loaded(legacy).setting]
    /\ ClientsUnchanged
    /\ UNCHANGED <<requests, replies, task, serving, unseen, wires, shutdown, inHand, engine,
                   work, legacy, history>>

(* load fails, or ControllerModel::new, or bind_listener: systemd starts it  *)
(* again.                                                                    *)
StartFails ==
    /\ service = "down" /\ epoch < MaxStarts - 1
    /\ epoch' = epoch + 1
    /\ ClientsUnchanged /\ StoreUnchanged
    /\ UNCHANGED <<ipcVars, service, shutdown, setting, token, revision, inHand, engine,
                   work, legacy, history>>

(* The first blackout and what the configuration asks for.  Clients are      *)
(* served from here on; they could connect before.                           *)
Opened ==
    /\ service = "opening" /\ service' = "idle"
    /\ revision' = revision + 1
    /\ Publish(SnapshotOf(revision', setting))
    /\ engine' \in {"none", "opening"}
    /\ ClientsUnchanged /\ StoreUnchanged
    /\ UNCHANGED <<requests, replies, task, serving, wires, shutdown, epoch, setting, token,
                   inHand, work, legacy, history>>

-----------------------------------------------------------------------------
(* handle_client_command.                                                    *)
Take == /\ service = "idle" /\ ~shutdown /\ requests # <<>>
        /\ requests' = Tail(requests)
        /\ runs' = [runs EXCEPT ![Head(requests).id] = @ + 1]
        /\ UNCHANGED <<task, serving, wires, shutdown, epoch, token, work, legacy>>
        /\ ClientsUnchanged

Ok(s)   == [outcome |-> "ok", setting |-> s]
Refused == [outcome |-> "error", setting |-> 0]

(* GetSnapshot, and a change the model refuses, are answered at once.        *)
HandleQuery ==
    /\ Take /\ Head(requests).kind = "query"
    /\ \E reply \in {Ok(setting), Refused} : Answer(Head(requests).client, reply)
    /\ Unpublished /\ StoreUnchanged
    /\ UNCHANGED <<service, setting, revision, inHand, engine, stored, promised>>

(* save begins, or fails at once: no directory, or no temporary file.        *)
SaveBegins(config) ==
    \/ CreateTemporary("service", config) /\ service' = "saving"
    \/ StoreUnchanged /\ service' = "saved"

(* A command that asks for what is set already is saved and published too,   *)
(* with the revision as it was; it is left out.                              *)
HandleChange ==
    /\ Take /\ Head(requests).kind = "change"
    /\ setting' = setting + 1 /\ revision' = revision + 1
    /\ inHand' = {Head(requests)}
    /\ SaveBegins([setting |-> setting', token |-> token])
    /\ stored' = FALSE
    /\ Unpublished /\ UNCHANGED <<replies, engine, promised>>

(* ChooseDesktopDisplay: clear_restore_token loads the file and saves it     *)
(* without a token, if it has one.                                           *)
HandleChoose ==
    /\ Take /\ Head(requests).kind = "choose"
    /\ inHand' = {Head(requests)}
    /\ IF Loaded(legacy).token = 0
       THEN StoreUnchanged /\ service' = "saved"
       ELSE SaveBegins([Loaded(legacy) EXCEPT !.token = 0])
    /\ Unpublished /\ UNCHANGED <<replies, setting, revision, engine, stored, promised>>

ServiceRest == UNCHANGED <<shutdown, epoch, setting, token, work, legacy>>
IpcRest     == UNCHANGED <<requests, task, serving, wires>>

ServiceSaves ==
    /\ SaveStep("service")
    /\ ClientsUnchanged /\ ServiceRest /\ IpcRest /\ Unpublished
    /\ UNCHANGED <<replies, service, revision, inHand, engine, history>>

(* A rename that puts older settings into the file undoes what was saved.    *)
NewSetting(w) == Temporary(w).file.config.setting
Undoes(w) ==
    IF NewSetting(w) < promised \/ (stored /\ NewSetting(w) < setting)
    THEN /\ stored' = FALSE
         /\ promised' = IF NewSetting(w) < promised THEN NewSetting(w) ELSE promised
    ELSE UNCHANGED <<stored, promised>>

ServiceReplaces ==
    /\ Replace("service")
    /\ ClientsUnchanged /\ ServiceRest /\ IpcRest /\ Unpublished
    /\ UNCHANGED <<replies, service, revision, inHand, engine, history>>

ServiceSaved ==
    /\ SyncDirectory("service") /\ service' = "saved"
    /\ stored' = (file.config.setting = setting)
    /\ ClientsUnchanged /\ ServiceRest /\ IpcRest /\ Unpublished
    /\ UNCHANGED <<replies, revision, inHand, engine, runs, promised>>

(* A save that fails is only logged.                                         *)
ServiceSaveFails ==
    /\ SaveFails("service") /\ service' = "saved"
    /\ ClientsUnchanged /\ ServiceRest /\ IpcRest /\ Unpublished
    /\ UNCHANGED <<replies, revision, inHand, engine, history>>

(* After a change the snapshot is published and the effect begins: the       *)
(* engine stops or starts, the lights are marked pending.  After a choice    *)
(* the engine is restarted.  An engine is waited for, and it cannot be       *)
(* stopped inside a save.                                                    *)
Stoppable == engine # "saving"
EffectBegins ==
    /\ service = "saved" /\ service' = "effect"
    /\ IF \E q \in inHand : q.kind = "change"
       THEN Publish(SnapshotOf(revision, setting)) ELSE Unpublished
    /\ ClientsUnchanged /\ StoreUnchanged /\ ServiceRest /\ IpcRest
    /\ UNCHANGED <<replies, revision, inHand, engine, history>>

(* mutant: the effect works on a copy of the model, made before the change   *)
EffectEndsOnCopy ==
    /\ service = "effect" /\ service' = "idle"
    /\ revision' = revision - 1
    /\ Publish(SnapshotOf(revision', setting))
    /\ \E q \in inHand : Answer(q.client, Ok(setting))
    /\ inHand' = {} /\ stored' = FALSE
    /\ ClientsUnchanged /\ StoreUnchanged /\ IpcRest
    /\ UNCHANGED <<engine, shutdown, epoch, setting, token, work, legacy, runs, promised>>

(* The sink answered, which changes the revision again, and the result is    *)
(* published and returned.                                                   *)
EffectEnds ==
    /\ service = "effect" /\ service' = "idle"
    /\ revision' = IF \E q \in inHand : q.kind = "change" THEN revision + 1 ELSE revision
    /\ Publish(SnapshotOf(revision', setting))
    /\ engine' \in {engine} \cup (IF Stoppable THEN {"none", "opening"} ELSE {})
    /\ \A q \in inHand : q.kind = "choose" => engine' = "opening" /\ Stoppable
    /\ \E q \in inHand :
          /\ Answer(q.client, Ok(setting))
          /\ promised' = IF q.kind = "change" /\ stored THEN setting ELSE promised
    /\ inHand' = {} /\ stored' = FALSE
    /\ ClientsUnchanged /\ StoreUnchanged /\ IpcRest
    /\ UNCHANGED <<shutdown, epoch, setting, token, work, legacy, runs>>

(* The loop handles a proxied command or the end of the engine.              *)
ServiceEvent ==
    /\ service = "idle" /\ ~shutdown /\ engine = "running" /\ Spend
    /\ revision' = revision + 1
    /\ Publish(SnapshotOf(revision', setting))
    /\ engine' \in {"running", "none"}
    /\ ClientsUnchanged /\ StoreUnchanged /\ IpcRest
    /\ UNCHANGED <<replies, service, shutdown, epoch, setting, token, inHand, legacy, history>>

-----------------------------------------------------------------------------
(* PortalFrameSourceFactory::open, in the engine's task.  The token loaded   *)
(* first only goes to the portal.  Its answer has a token or none; a new one *)
(* is put into the configuration as the file has it then.                    *)
Granted(t) ==
    /\ engine = "opening" /\ Spend
    /\ \/ /\ t \in 1..MaxToken /\ t # Loaded(legacy).token
          /\ CreateTemporary("engine", [Loaded(legacy) EXCEPT !.token = t])
          /\ engine' = "saving"
       \/ StoreUnchanged /\ engine' \in {"running", "none"}
    /\ ClientsUnchanged
    /\ UNCHANGED <<ipcVars, service, shutdown, epoch, setting, token, revision, inHand, legacy,
                   history>>

EngineRest == /\ ClientsUnchanged
              /\ UNCHANGED <<ipcVars, service, shutdown, epoch, setting, token, revision, inHand,
                             work, legacy, runs>>

EngineSaves    == SaveStep("engine") /\ EngineRest /\ UNCHANGED <<engine, stored, promised>>
EngineReplaces == /\ Replace("engine") /\ Undoes("engine")
                  /\ EngineRest /\ UNCHANGED engine
EngineSaved    == /\ SyncDirectory("engine") \/ SaveFails("engine")
                  /\ engine' = "running" /\ EngineRest /\ UNCHANGED <<stored, promised>>

(* The source failed and RecoveringFrameSource opens it again.               *)
EngineReopens == /\ engine = "running" /\ engine' = "opening"
                 /\ EngineRest /\ StoreUnchanged /\ UNCHANGED <<stored, promised>>

-----------------------------------------------------------------------------
(* The ends of the service.  After a stop nothing restarts it.               *)
Shutdown ==
    /\ Running /\ ~shutdown /\ shutdown' = TRUE /\ Spend
    /\ ClientsUnchanged /\ StoreUnchanged
    /\ UNCHANGED <<ipcVars, service, epoch, setting, token, revision, inHand, engine, legacy,
                   history>>

Gone == /\ ProcessEnds /\ published' = NoSnapshot
        /\ setting' = 0 /\ token' = 0 /\ revision' = 0 /\ inHand' = {}
        /\ engine' = "none" /\ stored' = FALSE
        /\ UNCHANGED <<legacy, epoch>>

Stops ==
    /\ service \in {"opening", "idle"} /\ shutdown /\ Stoppable
    /\ Gone /\ service' = "stopped"
    /\ ClientsUnchanged /\ StoreUnchanged
    /\ UNCHANGED <<toClient, shutdown, work, runs, promised>>

Crashes ==
    /\ Running /\ epoch < MaxStarts /\ Spend
    /\ Gone /\ Crash /\ service' = "down" /\ shutdown' = FALSE
    /\ ClientsUnchanged /\ UNCHANGED <<toClient, runs, promised>>

(* The power fails, and the clients go with it.                              *)
PowerFails ==
    /\ Running /\ epoch < MaxStarts /\ Spend
    /\ Gone /\ PowerLoss /\ service' = "down" /\ shutdown' = FALSE
    /\ link' = [c \in Clients |-> "gone"]
    /\ Resolve({r \in Requests : outcome[r] = "waiting"}, "lost")
    /\ outbound' = [c \in Clients |-> <<>>] /\ pending' = [c \in Clients |-> {}]
    /\ seen' = [c \in Clients |-> {}] /\ toClient' = [c \in Clients |-> <<>>]
    /\ UNCHANGED <<runs, promised>>

-----------------------------------------------------------------------------
ServiceStep ==
    \/ Opened \/ HandleQuery \/ HandleChange \/ HandleChoose
    \/ ServiceSaves \/ ServiceReplaces \/ ServiceSaved \/ EffectBegins \/ EffectEnds \/ Stops

StillService == UNCHANGED <<service, shutdown, epoch, setting, token, revision, inHand, engine,
                            legacy, storeVars, history>>
TaskStep(c) ==
    /\ UNCHANGED <<clientVars, work>> /\ StillService
    /\ \/ Ready(c, Open(c)) \/ Event(c, Open(c), shutdown) \/ ReadRequest(c, shutdown)
       \/ Respond(c, Open(c)) \/ TaskEnds(c, Open(c), shutdown)

LinkStep(c) ==
    /\ StillService /\ UNCHANGED work
    /\ ClientStep(c) \/ Connect(c, Listening)

UserStep(c) ==
    /\ StillService
    /\ \/ Exit(c) /\ Spend
       \/ Room /\ UNCHANGED work /\ \E r \in Requests, kind \in Kinds : Issue(c, r, kind)

Next ==
    \/ Start \/ StartFails \/ ServiceStep \/ ServiceSaveFails \/ ServiceEvent
    \/ \E t \in 0..MaxToken : Granted(t)
    \/ EngineSaves \/ EngineReplaces \/ EngineSaved \/ EngineReopens
    \/ Shutdown \/ Crashes \/ PowerFails
    \/ \E c \in Clients : TaskStep(c) \/ LinkStep(c) \/ UserStep(c)

(* Tasks that can go on are scheduled; systemd starts the service again      *)
(* after a crash; the speaker is there, so that the sink answers.            *)
EngineStep == EngineSaves \/ EngineReplaces \/ EngineSaved
Fairness ==
    /\ WF_vars(Start) /\ WF_vars(ServiceStep \/ ServiceSaveFails) /\ WF_vars(EngineStep)
    /\ \A c \in Clients : WF_vars(TaskStep(c)) /\ WF_vars(LinkStep(c))

Spec == Init /\ [][Next]_vars /\ Fairness

-----------------------------------------------------------------------------
TypeOK ==
    /\ StoreTypeOK
    /\ service \in {"down", "opening", "idle", "saving", "saved", "effect", "stopped"}
    /\ engine \in {"none", "opening", "saving", "running"}
    /\ task \in [Clients -> {"none", "accepted", "loop", "waiting"}]
    /\ link \in [Clients -> {"connecting", "connected", "gone"}]
    /\ outcome \in [Requests -> {"unsent", "waiting", "ok", "error", "lost"}]
    /\ setting \in 0..MaxSetting /\ stored \in BOOLEAN /\ promised \in 0..MaxSetting /\ Len(requests) <= RequestCapacity
    /\ ("service" \in Writers /\ service = "saving") = Saving("service")
    /\ (engine = "saving") = Saving("engine")

(* What was promised, the last change saved and answered Ok that no save of  *)
(* a restore token has undone since, is in the file, and is still there      *)
(* after a crash or a loss of power at any moment; and what a crash leaves   *)
(* is never a torn file, so that no load falls back to the defaults.  All    *)
(* this until a save whose directory sync failed removes the other task's    *)
(* temporary file, which took its name.  Checked with the types.             *)
AnsweredChangesSurvive ==
    /\ TypeOK
    /\ ~collided => \A f \in entries \cup {file} :
          /\ Settled(f).is # "torn"
          /\ promised > 0 => f.is = "whole" /\ f.config.setting >= promised

(* The extent of that exception: only the rename that ends a save of a       *)
(* restore token undoes a change that was answered, and only when the        *)
(* configuration it saves was loaded before that change was in the file.     *)
OnlyTokenSavesUndo ==
    [][ (promised' < promised /\ ~collided') =>
           EngineReplaces /\ saves["engine"].config.setting = promised' ]_vars

(* README.md:10: "Monitor authorization, mode, colors, and service state     *)
(* survive reboots": a change that was answered is not undone in the file.   *)
AnsweredChangesStay == [][promised' >= promised]_vars

(* docs/capture-backends.md:37: "create-new temporary file", "fsync", then   *)
(* "atomic rename", so that neither a reader nor a loss of power finds a     *)
(* file that is half written.                                                *)
FileStaysWhole == \A f \in entries \cup {file} : Settled(f).is # "torn"

(* A request is handled at most once, however often its connection is lost   *)
(* and made again, and an answer is that of a request that was handled.      *)
RequestsRunOnce ==
    \A r \in Requests :
        /\ runs[r] <= 1
        /\ outcome[r] \in {"ok", "error"} => runs[r] = 1

(* What a client shows never goes back in the revisions of one run of the    *)
(* service, nor to an earlier run.                                           *)
Before(s, t) == s.epoch < t.epoch \/ (s.epoch = t.epoch /\ s.revision <= t.revision)
SnapshotsGoForward ==
    [][\A c \in Clients : \A s \in seen[c], t \in seen'[c] : Before(s, t)]_vars

(* A request is answered, or given up because its connection ended, unless   *)
(* the service was stopped for good or is never served again.                *)
EveryRequestAnswered ==
    \A r \in Requests : outcome[r] = "waiting" ~> (outcome[r] # "waiting" \/ shutdown)

(* A client that stays connected gets to show the service's last snapshot.   *)
ClientsConverge ==
    \A c \in Clients : <>[](Listening /\ Open(c)) => <>[](seen[c] = {published})
=============================================================================
