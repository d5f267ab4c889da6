--------------------------- MODULE RecoveringSink ---------------------------
(***************************************************************************)
(* RecoveringLightSink of src/engine.rs over the device factory of           *)
(* src/service/runtime.rs (claim the interface of UsbInterface, then an      *)
(* all-zone blackout, without an await): writes that are                     *)
(* retried with backoff, a device that is given up after three consecutive   *)
(* failed writes and opened again, targets that go stale meanwhile.          *)
(*                                                                          *)
(* The environment unplugs and plugs the speaker, fails any operation, and   *)
(* cancels the sink.  Its only caller, the service task, awaits every call   *)
(* to its end.  A handle to a speaker that was unplugged is dead for good.   *)
(* The lamps of a speaker that is plugged in again show anything.  Time is a *)
(* free choice but for one thing: a target is stale after a backoff of       *)
(* CAPTURE_STALL_TIMEOUT or more.  The metrics are left out.                 *)
(***************************************************************************)
EXTENDS DeviceOps, UsbInterface

VARIABLES
    device,      \* lamps, and the frame the current handle remembers
    link,        \* the handle open or being opened: "none", "live", "dead"
    plugged,
    cancelled,
    failures,    \* consecutive_write_failures
    attempts,    \* RetryBackoff.failures, up to where the delay is constant
    pc,          \* where the call under way is: Points
    call,        \* the write under way: its target, whether it was captured
    fresh,       \* captured_at.elapsed() < CAPTURE_STALL_TIMEOUT
    expiring,    \* the attempt under way writes black for a stale target
    answer,      \* what the last call returned, "none" while one is under way
    dark,        \* history: lamps all dark at some time since the device was lost
    ours         \* history: the sink opened the speaker, not unplugged since

envVars  == <<plugged, cancelled, usbVars>>
sinkVars == <<link, failures, attempts>>
callVars == <<pc, call, fresh, expiring>>
vars == <<device, envVars, sinkVars, callVars, answer, dark, ours>>

MAX_CONSECUTIVE_WRITE_FAILURES == 3
CAPTURE_STALL_TIMEOUT == 500    \* ms
INITIAL_RETRY_DELAY == 250
MAX_RETRY_DELAY == 5000

(* RetryBackoff::next_delay.                                                 *)
LongestDelayAt == 5   \* 250 ms * 2^5 exceeds the longest delay
Delay(n) == LET ms == INITIAL_RETRY_DELAY * 2^n
            IN IF ms > MAX_RETRY_DELAY THEN MAX_RETRY_DELAY ELSE ms
NextAttempt(n) == IF n = LongestDelayAt THEN n ELSE n + 1

Points == {"idle", "top", "found", "claim", "first", "send", "giveUp", "wait", "blackout"}
Answers == {"none", "rendered", "unchanged", "expired", "dark", "error"}

TypeOK ==
    /\ device \in Devices
    /\ link \in {"none", "live", "dead"}
    /\ plugged \in BOOLEAN /\ cancelled \in BOOLEAN /\ dark \in BOOLEAN /\ ours \in BOOLEAN
    /\ failures \in 0..MAX_CONSECUTIVE_WRITE_FAILURES
    /\ attempts \in 0..LongestDelayAt
    /\ pc \in Points /\ UsbTypeOK
    /\ call \in [frame : Frames, captured : BOOLEAN]
    /\ fresh \in BOOLEAN /\ expiring \in BOOLEAN
    /\ answer \in Answers

Init ==
    /\ device \in {Opened(lamps) : lamps \in Frames}
    /\ link = "none" /\ plugged \in BOOLEAN /\ cancelled = FALSE
    /\ holder = "nobody" /\ driver = plugged /\ debtor = "nobody"
    /\ failures = 0 /\ attempts = 0
    /\ pc = "idle" /\ call = [frame |-> AllBlack, captured |-> FALSE]
    /\ fresh = TRUE /\ expiring = FALSE
    /\ answer = "none" /\ dark = FALSE /\ ours = FALSE

-----------------------------------------------------------------------------
(* The environment.                                                          *)
Unplug ==
    /\ plugged /\ plugged' = FALSE
    /\ link' = IF link = "live" THEN "dead" ELSE link
    /\ UsbGone
    /\ dark' = FALSE /\ ours' = FALSE
    /\ UNCHANGED <<device, cancelled, failures, attempts, callVars, answer>>

Plug ==
    /\ ~plugged /\ plugged' = TRUE /\ UsbAppears
    /\ \E lamps \in Frames : device' = [device EXCEPT !.lamps = lamps]
    /\ UNCHANGED <<cancelled, sinkVars, callVars, answer, dark, ours>>

Cancel ==
    /\ ~cancelled /\ cancelled' = TRUE
    /\ UNCHANGED <<device, plugged, usbVars, sinkVars, callVars, answer, dark, ours>>

TargetAges ==
    /\ call.captured /\ fresh /\ pc # "idle"
    /\ fresh' = FALSE
    /\ UNCHANGED <<device, envVars, sinkVars, pc, call, expiring, answer, dark, ours>>

(* What reports do through the current handle: what the driver does, or,     *)
(* through a dead one, nothing, the first report failing.                    *)
Reached(outcomes) == IF link = "live" THEN outcomes ELSE {[device |-> device, ok |-> FALSE]}

SentBlackout == Reached(BlackoutOutcomes(device))

(* A write that the driver skips succeeds through a dead handle as well.     *)
SentWrite(frame) ==
    IF device.previous = frame THEN WriteOutcomes(device, frame)
    ELSE Reached(WriteOutcomes(device, frame))

-----------------------------------------------------------------------------
(* Calls.  A captured target may be stale by the time it arrives.            *)
Write(frame, captured, isFresh) ==
    /\ pc = "idle" /\ (isFresh \/ captured)
    /\ pc' = "top" /\ call' = [frame |-> frame, captured |-> captured]
    /\ fresh' = isFresh /\ expiring' = FALSE /\ answer' = "none"
    /\ UNCHANGED <<device, envVars, sinkVars, dark, ours>>

Blackout ==
    /\ pc = "idle" /\ link # "none"
    /\ pc' = "blackout" /\ answer' = "none"
    /\ UNCHANGED <<device, envVars, sinkVars, call, fresh, expiring, dark, ours>>

(* No sink is connected: blackout has nothing to do.                         *)
BlackoutNothing ==
    /\ pc = "idle" /\ link = "none"
    /\ answer' = "dark"
    /\ UNCHANGED <<device, envVars, sinkVars, callVars, dark, ours>>

BlackoutAnswered ==
    /\ pc = "blackout" /\ pc' = "idle"
    /\ \E o \in SentBlackout :
           /\ device' = o.device
           /\ answer' = IF o.ok THEN "dark" ELSE "error"
           /\ dark' = (o.ok \/ dark)
    /\ UNCHANGED <<envVars, sinkVars, call, fresh, expiring, ours>>

-----------------------------------------------------------------------------
(* connect.                                                                  *)
ConnectCancelled ==
    /\ pc = "top" /\ link = "none" /\ cancelled
    /\ pc' = "idle" /\ answer' = "error"
    /\ UNCHANGED <<device, envVars, sinkVars, call, fresh, expiring, dark, ours>>

FindDevice ==
    /\ pc = "top" /\ link = "none" /\ ~cancelled /\ plugged
    /\ link' = "live" /\ device' = Opened(device.lamps)
    /\ pc' = "found"
    /\ UNCHANGED <<envVars, failures, attempts, call, fresh, expiring, answer, dark, ours>>

(* The descriptors name a HID interface; its driver is detached.             *)
CheckInterface ==
    /\ pc = "found" /\ link = "live" /\ DetachDriver
    /\ pc' = "claim"
    /\ UNCHANGED <<device, plugged, cancelled, sinkVars, call, fresh, expiring, answer, dark, ours>>

Claim ==
    /\ pc = "claim" /\ link = "live" /\ ClaimInterface
    /\ pc' = "first"
    /\ UNCHANGED <<device, plugged, cancelled, sinkVars, call, fresh, expiring, answer, dark, ours>>

(* mutant: the factory does not begin with a blackout *)
OpenLit ==
    /\ pc = "first" /\ link = "live"
    /\ pc' = "top" /\ ours' = TRUE
    /\ UNCHANGED <<device, envVars, sinkVars, call, fresh, expiring, answer, dark>>

(* The first blackout goes through.                                          *)
FirstBlackout ==
    /\ pc = "first" /\ link = "live"
    /\ device' = [lamps |-> AllBlack, previous |-> AllBlack]
    /\ pc' = "top" /\ dark' = TRUE /\ ours' = TRUE
    /\ UNCHANGED <<envVars, sinkVars, call, fresh, expiring, answer>>

(* Any of it fails, which ends the handle at once.  An error of a plugged    *)
(* speaker before the claim leaves what a failing claim leaves.              *)
OpenFailed ==
    /\ link' = "none" /\ pc' = "wait"
    /\ UNCHANGED <<plugged, cancelled, failures, attempts, call, fresh, expiring,
                   answer, dark, ours>>

NotFound ==
    /\ pc = "top" /\ link = "none" /\ ~cancelled /\ ~plugged
    /\ OpenFailed /\ UNCHANGED <<device, usbVars>>

CheckFails == pc = "found" /\ link = "dead" /\ OpenFailed /\ UNCHANGED <<device, usbVars>>
ClaimFails == pc = "claim" /\ OpenFailed /\ ClaimFailed /\ UNCHANGED device

FirstBlackoutFails ==
    /\ pc = "first" /\ OpenFailed /\ Dropped
    /\ \E o \in SentBlackout : ~o.ok /\ device' = o.device

-----------------------------------------------------------------------------
(* write_recovering.  Whether the target is fresh is decided before each     *)
(* attempt; black is written for a stale one.                                *)
Attempt ==
    /\ pc = "top" /\ link # "none"
    /\ pc' = "send" /\ expiring' = ~fresh
    /\ UNCHANGED <<device, envVars, sinkVars, call, fresh, answer, dark, ours>>

(* mutant: a stale target is painted all the same *)
TargetOfAnyAge == call.frame

Target == IF expiring THEN AllBlack ELSE call.frame

(* mutant: the cache is not looked at *)
StatusBlind == IF expiring THEN "expired" ELSE "rendered"

Status == IF expiring THEN "expired"
          ELSE IF call.captured /\ device.previous = call.frame THEN "unchanged"
          ELSE "rendered"

SendOk ==
    /\ pc = "send"
    /\ \E o \in SentWrite(Target) : o.ok /\ device' = o.device
    /\ failures' = 0 /\ attempts' = 0
    /\ pc' = "idle" /\ answer' = Status
    /\ UNCHANGED <<envVars, link, call, fresh, expiring, dark, ours>>

SendFails ==
    /\ pc = "send" /\ failures + 1 < MAX_CONSECUTIVE_WRITE_FAILURES
    /\ \E o \in SentWrite(Target) : ~o.ok /\ device' = o.device
    /\ failures' = failures + 1
    /\ pc' = "wait"
    /\ UNCHANGED <<envVars, link, attempts, call, fresh, expiring, answer, dark, ours>>

(* The third failure in a row: the handle is taken out of the sink.  Its     *)
(* blackout is in flight while link still names what it reaches.             *)
SendFailsForGood ==
    /\ pc = "send" /\ failures + 1 >= MAX_CONSECUTIVE_WRITE_FAILURES
    /\ \E o \in SentWrite(Target) : ~o.ok /\ device' = o.device
    /\ failures' = MAX_CONSECUTIVE_WRITE_FAILURES
    /\ pc' = "giveUp"
    /\ UNCHANGED <<envVars, link, attempts, call, fresh, expiring, answer, dark, ours>>

(* mutant: the handle is kept *)
GiveUpKeepsHandle ==
    /\ pc = "giveUp"
    /\ \E o \in SentBlackout : device' = o.device /\ dark' = o.ok
    /\ failures' = 0
    /\ pc' = "wait"
    /\ UNCHANGED <<envVars, link, attempts, call, fresh, expiring, answer, ours>>

(* The handle is dropped, whether its blackout went through or not.          *)
GiveUp ==
    /\ pc = "giveUp"
    /\ \E o \in SentBlackout :
           /\ device' = [o.device EXCEPT !.previous = NoFrame]
           /\ dark' = o.ok
    /\ link' = "none" /\ failures' = 0 /\ Retired
    /\ pc' = "wait"
    /\ UNCHANGED <<plugged, cancelled, attempts, call, fresh, expiring, answer, ours>>

(* mutant: a cancelled wait begins the retries anew *)
WaitCancelledRetries ==
    /\ pc = "wait" /\ cancelled
    /\ attempts' = 0 /\ failures' = 0
    /\ pc' = "top"
    /\ UNCHANGED <<device, envVars, link, call, fresh, expiring, answer, dark, ours>>

(* backoff.wait: cancellation is looked at first.                            *)
WaitCancelled ==
    /\ pc = "wait" /\ cancelled
    /\ attempts' = NextAttempt(attempts)
    /\ pc' = "idle" /\ answer' = "error"
    /\ UNCHANGED <<device, envVars, link, failures, call, fresh, expiring, dark, ours>>

WaitOver ==
    /\ pc = "wait" /\ ~cancelled
    /\ attempts' = NextAttempt(attempts)
    /\ fresh' = (fresh /\ (call.captured => Delay(attempts) < CAPTURE_STALL_TIMEOUT))
    /\ pc' = "top"
    /\ UNCHANGED <<device, envVars, link, failures, call, expiring, answer, dark, ours>>

(* The worker thread of a retired handle, and the end of its handle.          *)
RetiredStep ==
    /\ Release \/ Reattach
    /\ UNCHANGED <<device, plugged, cancelled, sinkVars, callVars, answer, dark, ours>>

Environment == Unplug \/ Plug \/ Cancel \/ TargetAges
Calls ==
    \/ \E frame \in Frames, captured, isFresh \in BOOLEAN : Write(frame, captured, isFresh)
    \/ Blackout \/ BlackoutNothing
Steps ==
    \/ BlackoutAnswered \/ ConnectCancelled
    \/ FindDevice \/ CheckInterface \/ Claim \/ FirstBlackout
    \/ NotFound \/ CheckFails \/ ClaimFails \/ FirstBlackoutFails
    \/ Attempt \/ SendOk \/ SendFails \/ SendFailsForGood \/ GiveUp
    \/ WaitCancelled \/ WaitOver

Next == Environment \/ Calls \/ Steps \/ RetiredStep
Spec == Init /\ [][Next]_vars

(* Every step of the sink and of a worker thread is scheduled.  The          *)
(* environment's part: a speaker that is plugged in does not fail for ever.  *)
FairSpec ==
    /\ Spec /\ WF_vars(Steps) /\ WF_vars(RetiredStep)
    /\ SF_vars(Claim) /\ SF_vars(FirstBlackout) /\ SF_vars(SendOk)

-----------------------------------------------------------------------------
(* A captured update reported as rendered is what the lamps show at that     *)
(* moment, whatever failures and reopenings came before.                     *)
RenderedIsShown ==
    [][pc = "send" /\ pc' = "idle" /\ answer' = "rendered" /\ call.captured =>
           device'.lamps = call.frame]_vars

(* No scene is painted on a speaker that was given up, unplugged or never    *)
(* opened before all its lamps have been dark ("every future start begins    *)
(* black", docs/usb-and-safety.md:85).  Checked with the types.              *)
DarkBeforeAnyScene == []TypeOK /\
    [][pc = "send" /\ ~expiring /\ UNCHANGED envVars
           /\ device'.lamps # device.lamps => dark]_vars

(* What the caller of the sink sees is what Light promises: through retries, *)
(* reopenings and handles that died, a lamp only ever shows what it showed,  *)
(* the colour of the call under way or black, and an answer tells which.     *)
SpeakerIsOpen == link = "live" /\ pc \notin {"found", "claim", "first"}
Doing == IF pc = "idle" THEN "nothing" ELSE IF pc = "blackout" THEN "blackout" ELSE "write"

Sink == INSTANCE Light WITH
            lamps <- device.lamps, believed <- device.previous, open <- SpeakerIsOpen,
            doing <- Doing, target <- call
ImplementsLight == Sink!LightSpec

(* Cancellation ends the call under way, also one that waits for a missing   *)
(* speaker or retries a failing one.                                         *)
CancelEndsCall == cancelled ~> pc = "idle"

(* A call gets through once the speaker stays plugged in, also when its      *)
(* handle died with an earlier disconnection.                                *)
RecoversWithDevice == <>[]plugged => (pc # "idle" ~> pc = "idle")

-----------------------------------------------------------------------------
(* What the documentation says, and the code does not do.                    *)

(* docs/architecture.md:134: the sink "refuses to render a captured target   *)
(* older than the 500 ms freshness bound; it writes black instead".  A call  *)
(* that answers Expired leaves the lamps of a speaker that was not unplugged *)
(* dark.                                                                     *)
ExpiredIsDark ==
    [][pc = "send" /\ pc' = "idle" /\ answer' = "expired" /\ ours =>
           device'.lamps = AllBlack]_vars

(* README.md:112: "Ctrl-C, SIGTERM, and normal termination all end with an   *)
(* all-zone blackout".  Once a blackout returned Ok, a speaker that the sink *)
(* opened and that was not unplugged since is dark.                          *)
OkBlackoutIsDark ==
    pc = "idle" /\ answer = "dark" /\ ours => device.lamps = AllBlack
=============================================================================
