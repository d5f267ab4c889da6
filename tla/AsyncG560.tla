------------------------------ MODULE AsyncG560 ------------------------------
(***************************************************************************)
(* AsyncG560 of src/usb/device.rs: the adapter that keeps the synchronous    *)
(* driver off the async threads.                                             *)
(*                                                                          *)
(*   client    one task, one call at a time (&mut self); it may abandon a    *)
(*             call, as the engine's writer abandons a write for a blackout; *)
(*   pool      tokio's blocking pool: each call hands its command to a pool  *)
(*             thread (spawn_blocking), which sends it on the queue.  A pool *)
(*             thread runs when it likes and goes on after its call was      *)
(*             abandoned;                                                    *)
(*   worker    the thread that owns the device and serves the queue.         *)
(*                                                                          *)
(* A call is its number; the commands' payload is kind and colours.  The     *)
(* device is DeviceOps', a command one step.                                 *)
(***************************************************************************)
EXTENDS DeviceOps, Sequences

CONSTANTS
    QueueLength,    \* sync_channel(32)
    MaxCalls        \* bound: calls the client makes

ASSUME QueueAssumption == QueueLength \in Nat \ {0}
ASSUME CallsAssumption == MaxCalls \in Nat

Calls  == 1..MaxCalls
NoCall == 0
Blackouts == [kind : {"blackout"}, colours : {AllBlack}]
Writes    == [kind : {"write"}, colours : Frames]
Commands  == Writes \cup Blackouts
Replies   == {"none", "rendered", "unchanged", "expired", "ok", "error"}

VARIABLES
    made,       \* calls made so far: 1..made
    command,    \* the command of each call made
    awaiting,   \* the call whose answer the client awaits
    open,       \* the adapter has not been dropped
    pool,       \* calls whose pool thread has not sent its command yet
    queue,      \* the sync_channel
    safety,     \* the AtomicBool
    wpc,        \* worker: "recv", "look", "work", "clear", "done"
    serving,    \* the call whose command the worker holds
    device,
    reply,      \* what was sent on each call's oneshot
    abandoned   \* history: calls the client gave up

clientVars == <<made, command, awaiting, open, abandoned>>
workerVars == <<wpc, serving, device, reply>>
vars == <<clientVars, pool, queue, safety, workerVars>>

TypeOK ==
    /\ made \in 0..MaxCalls
    /\ command \in [1..made -> Commands]
    /\ awaiting \in 0..made /\ open \in BOOLEAN /\ abandoned \subseteq 1..made
    /\ pool \subseteq 1..made
    /\ queue \in Seq(1..made) /\ Len(queue) <= QueueLength
    /\ safety \in BOOLEAN
    /\ wpc \in {"recv", "look", "work", "clear", "done"}
    /\ serving \in 0..made
    /\ device \in Devices
    /\ reply \in [1..made -> Replies]

Init ==
    /\ made = 0 /\ command = <<>> /\ awaiting = NoCall /\ open = TRUE
    /\ abandoned = {}
    /\ pool = {} /\ queue = <<>> /\ safety = FALSE
    /\ wpc = "recv" /\ serving = NoCall
    /\ device \in {Opened(lamps) : lamps \in Frames}
    /\ reply = <<>>

-----------------------------------------------------------------------------
(* The client.  A call is numbered and its command given to the pool; a      *)
(* blackout raises the safety flag before it does anything else.             *)
Call(c) ==
    /\ open /\ awaiting = NoCall /\ made < MaxCalls
    /\ made' = made + 1 /\ awaiting' = made + 1
    /\ command' = Append(command, c)
    /\ reply' = Append(reply, "none")
    /\ pool' = pool \cup {made + 1}
    /\ UNCHANGED <<open, abandoned, queue, wpc, serving, device>>

Write(colours) ==
    /\ Call([kind |-> "write", colours |-> colours])
    /\ UNCHANGED safety

Blackout ==
    /\ Call([kind |-> "blackout", colours |-> AllBlack])
    /\ safety' = TRUE

Answered ==
    /\ awaiting # NoCall /\ reply[awaiting] # "none"
    /\ awaiting' = NoCall
    /\ UNCHANGED <<made, command, open, abandoned, pool, queue, safety, workerVars>>

Abandon ==
    /\ awaiting # NoCall
    /\ abandoned' = abandoned \cup {awaiting}
    /\ awaiting' = NoCall
    /\ UNCHANGED <<made, command, open, pool, queue, safety, workerVars>>

Drop ==
    /\ open /\ awaiting = NoCall
    /\ open' = FALSE
    /\ UNCHANGED <<made, command, awaiting, abandoned, pool, queue, safety, workerVars>>

(* A pool thread: tx.send blocks while the queue is full.                    *)
Send(i) ==
    /\ i \in pool /\ Len(queue) < QueueLength
    /\ pool' = pool \ {i} /\ queue' = Append(queue, i)
    /\ UNCHANGED <<clientVars, safety, workerVars>>

-----------------------------------------------------------------------------
(* The worker.                                                               *)
Recv ==
    /\ wpc = "recv" /\ queue # <<>>
    /\ serving' = Head(queue) /\ queue' = Tail(queue)
    /\ wpc' = IF command[Head(queue)].kind = "write" THEN "look" ELSE "work"
    /\ UNCHANGED <<clientVars, pool, safety, device, reply>>

(* recv fails once every sender (the adapter's, the pool threads') is gone   *)
(* and the queue is empty: the thread ends and drops the device.             *)
Finish ==
    /\ wpc = "recv" /\ queue = <<>> /\ ~open /\ pool = {}
    /\ wpc' = "done"
    /\ UNCHANGED <<clientVars, pool, queue, safety, serving, device, reply>>

(* mutant: an expired write is skipped without an answer *)
ExpireSilently ==
    /\ wpc = "look" /\ safety
    /\ wpc' = "recv" /\ serving' = NoCall
    /\ UNCHANGED <<clientVars, pool, queue, safety, device, reply>>

Expire ==
    /\ wpc = "look" /\ safety
    /\ reply' = [reply EXCEPT ![serving] = "expired"]
    /\ wpc' = "recv" /\ serving' = NoCall
    /\ UNCHANGED <<clientVars, pool, queue, safety, device>>

Proceed ==
    /\ wpc = "look" /\ ~safety
    /\ wpc' = "work"
    /\ UNCHANGED <<clientVars, pool, queue, safety, serving, device, reply>>

WriteReply(outcome, colours) ==
    IF ~outcome.ok THEN "error"
    ELSE IF device.previous # colours THEN "rendered" ELSE "unchanged"

PerformWrite ==
    /\ wpc = "work" /\ command[serving].kind = "write"
    /\ \E o \in WriteOutcomes(device, command[serving].colours) :
           /\ device' = o.device
           /\ reply' = [reply EXCEPT ![serving] = WriteReply(o, command[serving].colours)]
    /\ wpc' = "recv" /\ serving' = NoCall
    /\ UNCHANGED <<clientVars, pool, queue, safety>>

(* mutant: a failed blackout leaves the flag raised *)
PerformBlackoutReturnsEarly ==
    /\ wpc = "work" /\ command[serving].kind = "blackout"
    /\ \E o \in BlackoutOutcomes(device) :
           /\ device' = o.device
           /\ reply' = [reply EXCEPT ![serving] = IF o.ok THEN "ok" ELSE "error"]
           /\ wpc' = IF o.ok THEN "clear" ELSE "recv"
           /\ serving' = IF o.ok THEN serving ELSE NoCall
    /\ UNCHANGED <<clientVars, pool, queue, safety>>

(* The answer to a blackout is sent before the flag is lowered.              *)
PerformBlackout ==
    /\ wpc = "work" /\ command[serving].kind = "blackout"
    /\ \E o \in BlackoutOutcomes(device) :
           /\ device' = o.device
           /\ reply' = [reply EXCEPT ![serving] = IF o.ok THEN "ok" ELSE "error"]
    /\ wpc' = "clear"
    /\ UNCHANGED <<clientVars, pool, queue, safety, serving>>

(* mutants: the flag stays raised; it is lowered once the queue is empty *)
FlagStaysRaised ==
    /\ wpc = "clear"
    /\ wpc' = "recv" /\ serving' = NoCall
    /\ UNCHANGED <<clientVars, pool, queue, safety, device, reply>>
LowerFlagWhenDrained ==
    /\ wpc = "clear" /\ queue = <<>>
    /\ safety' = FALSE
    /\ wpc' = "recv" /\ serving' = NoCall
    /\ UNCHANGED <<clientVars, pool, queue, device, reply>>

LowerFlag ==
    /\ wpc = "clear"
    /\ safety' = FALSE
    /\ wpc' = "recv" /\ serving' = NoCall
    /\ UNCHANGED <<clientVars, pool, queue, device, reply>>

Client == (\E colours \in Frames : Write(colours)) \/ Blackout \/ Answered \/ Abandon \/ Drop
Pool   == \E i \in Calls : Send(i)
Worker == Recv \/ Finish \/ Expire \/ Proceed \/ PerformWrite \/ PerformBlackout \/ LowerFlag

Next == Client \/ Pool \/ Worker
Spec == Init /\ [][Next]_vars

(* Pool threads and the worker are scheduled by the operating system; the    *)
(* client need not do anything.                                              *)
FairSpec == Spec /\ WF_vars(Worker) /\ \A i \in Calls : WF_vars(Send(i))

-----------------------------------------------------------------------------
Made == 1..made
IsBlackout(i) == command[i].kind = "blackout"
InFlight == {i \in Made : i \in pool \/ i = serving \/ \E k \in DOMAIN queue : queue[k] = i}

(* The flag is never stuck: while it is raised, a blackout is still on its   *)
(* way to the worker or being served, and the worker will lower it.  A flag  *)
(* without such a blackout would expire every later write.  Checked with the *)
(* types, the queue's bound among them.                                      *)
SafetyFlagHasOwner == TypeOK /\ (safety => \E i \in InFlight : IsBlackout(i))

(* Once the client's last call, a blackout, is answered Ok the speaker is    *)
(* dark, and stays dark until the next call: only a write the client had     *)
(* abandoned can light it again.                                             *)
DarkUntilNextWrite ==
    made # 0 /\ IsBlackout(made) /\ reply[made] = "ok" =>
        \/ device.lamps = AllBlack
        \/ \E i \in abandoned : ~IsBlackout(i) /\ reply[i] \in {"rendered", "error"}

(* A write is expired for a reason: a later blackout, for which the client   *)
(* gave the write up, or an earlier one the client did not wait for.         *)
ExpiryHasACause ==
    \A i \in Made : reply[i] = "expired" =>
        \E j \in Made :
            /\ IsBlackout(j)
            /\ (i < j /\ i \in abandoned) \/ (j < i /\ j \in abandoned)

(* Every call is answered, abandoned or not, whatever else is in flight and  *)
(* also when the adapter was dropped since: the worker ends only when no     *)
(* command is left.                                                          *)
EveryCallAnswered == \A i \in Calls : i \in Made ~> i \in Made /\ reply[i] # "none"

(* Once the adapter is dropped the worker ends and drops the device, which   *)
(* releases the USB interface.                                               *)
DeviceReleased == ~open ~> wpc = "done"

(* As long as the client has awaited every call, which the service always    *)
(* does, the adapter is the synchronous driver: every command takes effect   *)
(* on the device exactly once, in the order of the calls, none is expired,   *)
(* and the answers are the device's.                                         *)
Result(i) == CASE reply[i] \in {"rendered", "unchanged", "ok"} -> "ok"
               [] OTHER -> reply[i]
LastAnswer == IF made # 0 /\ reply[made] # "none" THEN Result(made)
              ELSE IF made > 1 THEN Result(made - 1) ELSE "none"
DeviceView == INSTANCE Device WITH answer <- LastAnswer
DeviceStep == DeviceView!Next \/ UNCHANGED <<device, LastAnswer>>
ImplementsDevice == DeviceView!Init /\ [][abandoned' = {} => DeviceStep]_vars
=============================================================================
