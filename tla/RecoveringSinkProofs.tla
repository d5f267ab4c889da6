------------------------ MODULE RecoveringSinkProofs ------------------------
(***************************************************************************)
(* The recovering sink, for any number of zones and any colours, through any *)
(* number of disconnections, failures and retries.                           *)
(***************************************************************************)
EXTENDS RecoveringSink, TLAPS

(* A handle that reaches a speaker has shown darkness on it before it is     *)
(* used for anything else.                                                   *)
OpenedDark == link = "live" /\ pc \notin {"found", "claim", "first"} => dark

SinkInv == TypeOK /\ OpenedDark

-----------------------------------------------------------------------------
(* What an operation of the driver leaves is a device.                       *)
LEMMA PaintedIsFrame ==
    ASSUME NEW lamps \in Frames, NEW frame \in Frames, NEW z, NEW hit
    PROVE  Painted(lamps, frame, z, hit) \in Frames
  BY DEF Painted, Frames

LEMMA PaintOutcomesTyped ==
    ASSUME NEW d \in Devices, NEW frame \in Frames, NEW o \in PaintOutcomes(d, frame)
    PROVE  o.device \in Devices /\ o.ok \in BOOLEAN
           /\ (o.ok => o.device = [lamps |-> frame, previous |-> frame])
  <1>1. CASE o = Done(frame, frame)
    BY <1>1 DEF Done, Devices
  <1>2. CASE o \in {Failed(Painted(d.lamps, frame, z, hit), d.previous) : z \in Zones, hit \in BOOLEAN}
    <2>1. PICK z \in Zones, hit \in BOOLEAN : o = Failed(Painted(d.lamps, frame, z, hit), d.previous)
      BY <1>2
    <2>2. d.lamps \in Frames /\ d.previous \in Frames \cup {NoFrame}
      BY DEF Devices
    <2>3. Painted(d.lamps, frame, z, hit) \in Frames
      BY <2>2, PaintedIsFrame
    <2> QED BY <2>1, <2>2, <2>3 DEF Failed, Devices
  <1> QED BY <1>1, <1>2 DEF PaintOutcomes

LEMMA AllBlackIsFrame == AllBlack \in Frames
  BY ColoursAssumption DEF AllBlack, Frames

(* A write or a blackout of the sink: a device again, changed only through a *)
(* handle that reaches the speaker.                                          *)
LEMMA SentTyped ==
    ASSUME SinkInv, NEW frame \in Frames, NEW o \in SentWrite(frame) \cup SentBlackout
    PROVE  /\ o.device \in Devices /\ o.ok \in BOOLEAN
           /\ link # "live" => o.device = device
  <1>1. device \in Devices /\ AllBlack \in Frames
    BY AllBlackIsFrame DEF SinkInv, TypeOK
  <1>2. \A f \in Frames : \A p \in PaintOutcomes(device, f) : p.device \in Devices /\ p.ok \in BOOLEAN
    BY <1>1, PaintOutcomesTyped
  <1>3. CASE o = [device |-> device, ok |-> TRUE] \/ o = [device |-> device, ok |-> FALSE]
    <2>1. o.device = device /\ o.ok \in BOOLEAN
      <3>1. CASE o = [device |-> device, ok |-> TRUE]
        BY <3>1
      <3>2. CASE o = [device |-> device, ok |-> FALSE]
        BY <3>2
      <3> QED BY <1>3, <3>1, <3>2
    <2> QED BY <1>1, <2>1
  <1>4. CASE link = "live" /\ (o \in PaintOutcomes(device, frame) \/ o \in PaintOutcomes(device, AllBlack))
    BY <1>1, <1>2, <1>4
  <1>5. \/ o \in {[device |-> device, ok |-> TRUE], [device |-> device, ok |-> FALSE]}
        \/ link = "live" /\ (o \in PaintOutcomes(device, frame) \/ o \in PaintOutcomes(device, AllBlack))
    BY Zenon DEF SentWrite, SentBlackout, Reached, WriteOutcomes, BlackoutOutcomes
  <1> QED BY <1>3, <1>4, <1>5

LEMMA TargetIsFrame == SinkInv => Target \in Frames /\ call.frame \in Frames
  BY AllBlackIsFrame DEF SinkInv, TypeOK, Target

LEMMA UsbTypes ==
    UsbTypeOK /\ (\/ UsbAppears \/ UsbGone \/ DetachDriver \/ ClaimInterface \/ ClaimFailed \/ Dropped
                  \/ Retired \/ Release \/ Reattach \/ UNCHANGED usbVars) => UsbTypeOK'
  <1> SUFFICES ASSUME UsbTypeOK PROVE
        (\/ UsbAppears \/ UsbGone \/ DetachDriver \/ ClaimInterface \/ ClaimFailed \/ Dropped
         \/ Retired \/ Release \/ Reattach \/ UNCHANGED usbVars) => UsbTypeOK'
    OBVIOUS
  <1>1. (driver \/ holder = "nobody") \in BOOLEAN
    BY Zenon
  <1>2. UsbAppears \/ UsbGone \/ DetachDriver \/ ClaimInterface \/ Dropped \/ Retired => UsbTypeOK'
    BY DEF UsbTypeOK, UsbAppears, UsbGone, DetachDriver, ClaimInterface, Dropped, Retired
  <1>3. ClaimFailed \/ Release \/ Reattach \/ UNCHANGED usbVars => UsbTypeOK'
    BY <1>1 DEF UsbTypeOK, ClaimFailed, Reattached, Release, Reattach, usbVars
  <1> QED BY <1>2, <1>3

LEMMA NextAttemptInRange ==
    ASSUME NEW n \in 0..LongestDelayAt PROVE NextAttempt(n) \in 0..LongestDelayAt
  BY DEF NextAttempt, LongestDelayAt

-----------------------------------------------------------------------------
LEMMA SinkInit == Init => SinkInv
  <1> SUFFICES ASSUME Init PROVE SinkInv
    OBVIOUS
  <1>1. device \in Devices
    BY DEF Init, Opened, Devices
  <1>2. call \in [frame : Frames, captured : BOOLEAN]
    BY AllBlackIsFrame DEF Init
  <1>3. failures \in 0..MAX_CONSECUTIVE_WRITE_FAILURES /\ attempts \in 0..LongestDelayAt
    BY DEF Init, MAX_CONSECUTIVE_WRITE_FAILURES, LongestDelayAt
  <1> QED BY <1>1, <1>2, <1>3 DEF Init, SinkInv, TypeOK, UsbTypeOK, OpenedDark, Points, Answers

LEMMA EnvironmentStep == SinkInv /\ (Environment \/ RetiredStep) => SinkInv'
  <1> SUFFICES ASSUME SinkInv, Environment \/ RetiredStep PROVE SinkInv'
    OBVIOUS
  <1>1. UsbTypeOK'
    BY UsbTypes DEF SinkInv, TypeOK, Environment, Unplug, Plug, Cancel, TargetAges, RetiredStep, envVars
  <1>2. CASE Unplug
    BY <1>1, <1>2 DEF Unplug, callVars, SinkInv, TypeOK, OpenedDark
  <1>3. CASE Plug
    <2>1. device' \in Devices
      BY <1>3 DEF Plug, SinkInv, TypeOK, Devices
    <2> QED BY <1>1, <1>3, <2>1 DEF Plug, sinkVars, callVars, SinkInv, TypeOK, OpenedDark
  <1>4. CASE Cancel
    BY <1>1, <1>4 DEF Cancel, sinkVars, callVars, SinkInv, TypeOK, OpenedDark
  <1>5. CASE TargetAges
    BY <1>1, <1>5 DEF TargetAges, envVars, sinkVars, SinkInv, TypeOK, OpenedDark
  <1>6. CASE RetiredStep
    BY <1>1, <1>6 DEF RetiredStep, sinkVars, callVars, SinkInv, TypeOK, OpenedDark
  <1> QED BY <1>2, <1>3, <1>4, <1>5, <1>6 DEF Environment

LEMMA CallsStep == SinkInv /\ Calls => SinkInv'
  <1> SUFFICES ASSUME SinkInv, Calls PROVE SinkInv'
    OBVIOUS
  <1>1. UsbTypeOK'
    BY UsbTypes DEF SinkInv, TypeOK, Calls, Write, Blackout, BlackoutNothing, envVars
  <1>2. ASSUME NEW frame \in Frames, NEW captured \in BOOLEAN, NEW isFresh \in BOOLEAN,
               Write(frame, captured, isFresh)
        PROVE  SinkInv'
    BY <1>1, <1>2 DEF Write, envVars, sinkVars, SinkInv, TypeOK, OpenedDark, Points, Answers
  <1>3. CASE Blackout \/ BlackoutNothing
    BY <1>1, <1>3 DEF Blackout, BlackoutNothing, envVars, sinkVars, callVars, SinkInv, TypeOK,
       OpenedDark, Points, Answers
  <1> QED BY <1>2, <1>3 DEF Calls

(* connect, and the factory's open.                                          *)
LEMMA ConnectStep ==
    SinkInv /\ (\/ ConnectCancelled \/ FindDevice \/ CheckInterface \/ Claim \/ FirstBlackout
                \/ NotFound \/ CheckFails \/ ClaimFails \/ FirstBlackoutFails) => SinkInv'
  <1> SUFFICES ASSUME SinkInv,
                      \/ ConnectCancelled \/ FindDevice \/ CheckInterface \/ Claim \/ FirstBlackout
                      \/ NotFound \/ CheckFails \/ ClaimFails \/ FirstBlackoutFails
               PROVE  SinkInv'
    OBVIOUS
  <1>1. UsbTypeOK'
    BY UsbTypes DEF SinkInv, TypeOK, ConnectCancelled, FindDevice, CheckInterface, Claim,
       FirstBlackout, NotFound, CheckFails, ClaimFails, FirstBlackoutFails, envVars
  <1>2. CASE ConnectCancelled \/ CheckInterface \/ Claim
    BY <1>1, <1>2 DEF ConnectCancelled, CheckInterface, Claim, envVars, sinkVars, SinkInv, TypeOK,
       OpenedDark, Points, Answers
  <1>3. CASE FindDevice
    <2>1. device' \in Devices
      BY <1>3 DEF FindDevice, Opened, SinkInv, TypeOK, Devices
    <2> QED BY <1>1, <1>3, <2>1 DEF FindDevice, envVars, SinkInv, TypeOK, OpenedDark, Points
  <1>4. CASE FirstBlackout
    <2>1. device' \in Devices
      BY <1>4, AllBlackIsFrame DEF FirstBlackout, Devices
    <2> QED BY <1>1, <1>4, <2>1 DEF FirstBlackout, envVars, sinkVars, SinkInv, TypeOK, OpenedDark,
           Points
  <1>5. CASE NotFound \/ CheckFails \/ ClaimFails
    BY <1>1, <1>5 DEF NotFound, CheckFails, ClaimFails, OpenFailed, SinkInv, TypeOK, OpenedDark,
       Points
  <1>6. CASE FirstBlackoutFails
    <2>1. device' \in Devices
      BY <1>6, SentTyped, AllBlackIsFrame DEF FirstBlackoutFails
    <2> QED BY <1>1, <1>6, <2>1 DEF FirstBlackoutFails, OpenFailed, SinkInv, TypeOK, OpenedDark,
           Points
  <1> QED BY <1>2, <1>3, <1>4, <1>5, <1>6

(* The driver's calls and the waits.                                         *)
LEMMA AttemptStep ==
    SinkInv /\ (\/ BlackoutAnswered \/ Attempt \/ SendOk \/ SendFails \/ SendFailsForGood \/ GiveUp
                \/ WaitCancelled \/ WaitOver) => SinkInv'
  <1> SUFFICES ASSUME SinkInv,
                      \/ BlackoutAnswered \/ Attempt \/ SendOk \/ SendFails \/ SendFailsForGood
                      \/ GiveUp \/ WaitCancelled \/ WaitOver
               PROVE  SinkInv'
    OBVIOUS
  <1>1. UsbTypeOK'
    BY UsbTypes DEF SinkInv, TypeOK, BlackoutAnswered, Attempt, SendOk, SendFails, SendFailsForGood,
       GiveUp, WaitCancelled, WaitOver, envVars
  <1>2. \A o \in SentWrite(Target) \cup SentBlackout :
            /\ o.device \in Devices /\ o.ok \in BOOLEAN
            /\ [o.device EXCEPT !.previous = NoFrame] \in Devices
    BY SentTyped, TargetIsFrame DEF Devices
  <1>3. CASE BlackoutAnswered
    BY <1>1, <1>2, <1>3 DEF BlackoutAnswered, envVars, sinkVars, SinkInv, TypeOK, OpenedDark, Points,
       Answers
  <1>4. CASE Attempt
    <2>1. (~fresh) \in BOOLEAN
      BY Zenon
    <2> QED BY <1>1, <1>4, <2>1 DEF Attempt, envVars, sinkVars, SinkInv, TypeOK, OpenedDark, Points
  <1>5. CASE SendOk
    <2>1. Status \in Answers
      BY DEF Status, Answers
    <2>2. device' \in Devices
      BY <1>2, <1>5 DEF SendOk
    <2>3. failures' \in 0..MAX_CONSECUTIVE_WRITE_FAILURES /\ attempts' \in 0..LongestDelayAt
      BY <1>5 DEF SendOk, MAX_CONSECUTIVE_WRITE_FAILURES, LongestDelayAt
    <2> QED BY <1>1, <1>5, <2>1, <2>2, <2>3 DEF SendOk, envVars, SinkInv, TypeOK, OpenedDark, Points
  <1>6. CASE SendFails \/ SendFailsForGood
    <2>1. device' \in Devices
      BY <1>2, <1>6 DEF SendFails, SendFailsForGood
    <2>2. failures' \in 0..MAX_CONSECUTIVE_WRITE_FAILURES
      BY <1>6 DEF SendFails, SendFailsForGood, SinkInv, TypeOK, MAX_CONSECUTIVE_WRITE_FAILURES
    <2> QED BY <1>1, <1>6, <2>1, <2>2 DEF SendFails, SendFailsForGood, envVars, SinkInv, TypeOK,
           OpenedDark, Points
  <1>7. CASE GiveUp
    BY <1>1, <1>2, <1>7 DEF GiveUp, SinkInv, TypeOK, OpenedDark, Points,
       MAX_CONSECUTIVE_WRITE_FAILURES
  <1>8. CASE WaitCancelled
    BY <1>1, <1>8, NextAttemptInRange DEF WaitCancelled, envVars, SinkInv, TypeOK,
       OpenedDark, Points, Answers
  <1>9. CASE WaitOver
    <2>1. fresh' \in BOOLEAN
      BY <1>9, Zenon DEF WaitOver
    <2> QED BY <1>1, <1>9, <2>1, NextAttemptInRange DEF WaitOver, envVars, SinkInv, TypeOK,
           OpenedDark, Points
  <1> QED BY <1>3, <1>4, <1>5, <1>6, <1>7, <1>8, <1>9

LEMMA SinkStep == SinkInv /\ [Next]_vars => SinkInv'
  <1>1. SinkInv /\ UNCHANGED vars => SinkInv'
    BY DEF vars, envVars, usbVars, sinkVars, callVars, SinkInv, TypeOK, UsbTypeOK, OpenedDark
  <1> QED BY <1>1, EnvironmentStep, CallsStep, ConnectStep, AttemptStep DEF Next, Steps

LEMMA SinkInvariant == Spec => []SinkInv
  BY SinkInit, SinkStep, PTL DEF Spec

-----------------------------------------------------------------------------
(* Which steps take the device from a write under way.                       *)
LEMMA SendingSteps ==
    ASSUME SinkInv, [Next]_vars, pc = "send"
    PROVE  \/ SendOk
           \/ /\ pc' # "idle"
              /\ \E o \in SentWrite(Target) : device' = o.device
           \/ pc' = pc /\ (UNCHANGED envVars => UNCHANGED device)
  <1>1. CASE SendFails \/ SendFailsForGood
    BY <1>1 DEF SendFails, SendFailsForGood
  <1>2. CASE Environment \/ RetiredStep \/ UNCHANGED vars
    BY <1>2 DEF Environment, Unplug, Plug, Cancel, TargetAges, RetiredStep, vars, envVars, callVars
  <1>3. ~(Calls \/ BlackoutAnswered \/ ConnectCancelled \/ FindDevice \/ CheckInterface \/ Claim
          \/ FirstBlackout \/ NotFound \/ CheckFails \/ ClaimFails \/ FirstBlackoutFails
          \/ Attempt \/ GiveUp \/ WaitCancelled \/ WaitOver)
    BY DEF Calls, Write, Blackout, BlackoutNothing, BlackoutAnswered, ConnectCancelled, FindDevice,
       CheckInterface, Claim, FirstBlackout, NotFound, CheckFails, ClaimFails, FirstBlackoutFails,
       Attempt, GiveUp, WaitCancelled, WaitOver
  <1> QED BY <1>1, <1>2, <1>3 DEF Next, Steps

(* A captured update that is answered Rendered is on the lamps at that       *)
(* moment: a skipped write is answered Unchanged, and an Ok through a handle *)
(* that reaches no speaker is a skipped one.                                 *)
THEOREM RenderedMeansShown == Spec => RenderedIsShown
  <1>1. ASSUME SinkInv, [Next]_vars
        PROVE  [pc = "send" /\ pc' = "idle" /\ answer' = "rendered" /\ call.captured =>
                   device'.lamps = call.frame]_vars
    <2> SUFFICES ASSUME pc = "send", pc' = "idle", answer' = "rendered", call.captured
                 PROVE  device'.lamps = call.frame
      OBVIOUS
    <2>1. SendOk
      BY <1>1, SendingSteps
    <2>2. ~expiring /\ device.previous # call.frame
      BY <2>1 DEF SendOk, Status
    <2>3. PICK o \in Reached(WriteOutcomes(device, call.frame)) : o.ok /\ device' = o.device
      BY <2>1, <2>2 DEF SendOk, SentWrite, Target
    <2>4. o \in PaintOutcomes(device, call.frame)
      BY <2>2, <2>3 DEF Reached, WriteOutcomes
    <2>5. device' = [lamps |-> call.frame, previous |-> call.frame]
      BY <1>1, <2>3, <2>4, PaintOutcomesTyped, TargetIsFrame DEF SinkInv, TypeOK
    <2> QED BY <2>5
  <1> QED BY <1>1, SinkInvariant, PTL DEF Spec, RenderedIsShown

(* No scene is painted on a speaker before all its lamps have been dark      *)
(* since it was opened, given up or unplugged; and every state is well-typed.*)
THEOREM StartsBlack == Spec => DarkBeforeAnyScene
  <1>1. SinkInv => TypeOK
    BY DEF SinkInv
  <1>2. ASSUME SinkInv, [Next]_vars
        PROVE  [pc = "send" /\ ~expiring /\ UNCHANGED envVars
                   /\ device'.lamps # device.lamps => dark]_vars
    <2> SUFFICES ASSUME pc = "send", UNCHANGED envVars, device'.lamps # device.lamps
                 PROVE  dark
      OBVIOUS
    <2>1. \E o \in SentWrite(Target) : device' = o.device
      BY <1>2, SendingSteps DEF SendOk
    <2>2. link = "live"
      BY <1>2, <2>1, SentTyped, TargetIsFrame
    <2> QED BY <1>2, <2>2 DEF SinkInv, OpenedDark
  <1> QED BY <1>1, <1>2, SinkInvariant, PTL DEF Spec, DarkBeforeAnyScene

-----------------------------------------------------------------------------
(* The sink as a light.  What the abstraction leaves out is told by two more *)
(* facts: a handle remembers nothing until it has shown darkness, and only a *)
(* captured target gets stale.                                               *)
LightInv ==
    /\ SinkInv
    /\ link = "live" => plugged
    /\ link = "none" \/ pc \in {"found", "claim", "first"} => device.previous = NoFrame
    /\ ~fresh \/ expiring => call.captured

Mixed(d, frame) ==
    /\ d.previous = device.previous
    /\ \A z \in Zones : d.lamps[z] \in {device.lamps[z], frame[z]}

LEMMA PaintedIsMixed ==
    ASSUME NEW frame \in Frames, device \in Devices, NEW o \in PaintOutcomes(device, frame)
    PROVE  \/ o.ok /\ o.device = [lamps |-> frame, previous |-> frame]
           \/ ~o.ok /\ Mixed(o.device, frame)
  <1>1. CASE o = Done(frame, frame)
    BY <1>1 DEF Done
  <1>2. ASSUME NEW z \in Zones, NEW hit \in BOOLEAN,
               o = Failed(Painted(device.lamps, frame, z, hit), device.previous)
        PROVE  ~o.ok /\ Mixed(o.device, frame)
    BY <1>2 DEF Failed, Painted, Mixed
  <1> QED BY <1>1, <1>2 DEF PaintOutcomes

(* The three ends of a write: skipped or without effect, whole, or in part.  *)
LEMMA WriteEnds ==
    ASSUME SinkInv, NEW frame \in Frames, NEW o \in SentWrite(frame)
    PROVE  \/ o.device = device /\ (o.ok => device.previous = frame)
           \/ link = "live" /\ o.ok /\ o.device = [lamps |-> frame, previous |-> frame]
           \/ link = "live" /\ ~o.ok /\ Mixed(o.device, frame)
  <1>1. CASE o \in {[device |-> device, ok |-> TRUE]} /\ device.previous = frame
    BY <1>1
  <1>2. CASE o \in {[device |-> device, ok |-> FALSE]}
    BY <1>2
  <1>3. CASE link = "live" /\ o \in PaintOutcomes(device, frame)
    BY <1>3, PaintedIsMixed DEF SinkInv, TypeOK
  <1> QED BY <1>1, <1>2, <1>3 DEF SentWrite, Reached, WriteOutcomes

(* And those of a blackout, which is never skipped.                          *)
LEMMA BlackoutEnds ==
    ASSUME SinkInv, NEW o \in SentBlackout
    PROVE  \/ o.device = device /\ ~o.ok
           \/ link = "live" /\ o.ok /\ o.device = [lamps |-> AllBlack, previous |-> AllBlack]
           \/ link = "live" /\ ~o.ok /\ Mixed(o.device, AllBlack)
  <1>1. CASE o \in {[device |-> device, ok |-> FALSE]}
    BY <1>1
  <1>2. CASE link = "live" /\ o \in PaintOutcomes(device, AllBlack)
    BY <1>2, PaintedIsMixed, AllBlackIsFrame DEF SinkInv, TypeOK
  <1> QED BY <1>1, <1>2 DEF SentBlackout, Reached, BlackoutOutcomes

LEMMA LightInit == Init => LightInv
  BY SinkInit DEF Init, LightInv, Opened

LEMMA LightStep == LightInv /\ [Next]_vars => LightInv'
  <1> SUFFICES ASSUME LightInv, [Next]_vars PROVE LightInv'
    OBVIOUS
  <1>1. SinkInv'
    BY SinkStep DEF LightInv
  <1>2. CASE UNCHANGED vars
    BY <1>1, <1>2 DEF vars, envVars, sinkVars, callVars, LightInv
  <1>3. CASE Environment \/ RetiredStep
    BY <1>1, <1>3 DEF Environment, Unplug, Plug, Cancel, TargetAges, RetiredStep, envVars, sinkVars,
       callVars, LightInv, SinkInv, TypeOK, Devices
  <1>4. CASE Calls
    BY <1>1, <1>4 DEF Calls, Write, Blackout, BlackoutNothing, envVars, sinkVars, callVars, LightInv
  <1>5. CASE \/ ConnectCancelled \/ FindDevice \/ CheckInterface \/ Claim \/ FirstBlackout
             \/ WaitCancelled
    BY <1>1, <1>5 DEF ConnectCancelled, FindDevice, CheckInterface, Claim, FirstBlackout,
       WaitCancelled, Opened, envVars, sinkVars, callVars, LightInv
  <1>6. CASE NotFound \/ CheckFails \/ ClaimFails
    BY <1>1, <1>6 DEF NotFound, CheckFails, ClaimFails, OpenFailed, LightInv
  <1>7. CASE Attempt
    <2>1. expiring' => ~fresh
      BY <1>7, Zenon DEF Attempt
    <2> QED BY <1>1, <1>7, <2>1 DEF Attempt, envVars, sinkVars, LightInv
  <1>8. CASE WaitOver
    BY <1>1, <1>8 DEF WaitOver, envVars, LightInv
  <1>9. CASE FirstBlackoutFails
    BY <1>1, <1>9, BlackoutEnds DEF FirstBlackoutFails, OpenFailed, Mixed, LightInv
  <1>10. CASE SendOk \/ SendFails \/ SendFailsForGood
    <2>1. \A o \in SentWrite(Target) : link # "live" => o.device = device
      BY SentTyped, TargetIsFrame DEF LightInv
    <2> QED BY <1>1, <1>10, <2>1 DEF SendOk, SendFails, SendFailsForGood, envVars, LightInv
  <1>11. CASE BlackoutAnswered
    <2>1. \A o \in SentBlackout : link # "live" => o.device = device
      BY SentTyped, TargetIsFrame DEF LightInv
    <2> QED BY <1>1, <1>11, <2>1 DEF BlackoutAnswered, envVars, sinkVars, LightInv
  <1>12. CASE GiveUp
    <2>1. device'.previous = NoFrame
      BY <1>1, <1>12, SentTyped, AllBlackIsFrame DEF GiveUp, LightInv, Devices
    <2> QED BY <1>1, <1>12, <2>1 DEF GiveUp, LightInv
  <1> QED BY <1>2, <1>3, <1>4, <1>5, <1>6, <1>7, <1>8, <1>9, <1>10, <1>11, <1>12
      DEF Next, Steps

LEMMA LightInvariant == Spec => []LightInv
  BY LightInit, LightStep, PTL DEF Spec

-----------------------------------------------------------------------------
LEMMA LightNames ==
    Sink!Zones = Zones /\ Sink!Frames = Frames /\ Sink!AllBlack = AllBlack
  BY DEF Sink!Zones, Zones, Sink!Frames, Frames, Sink!AllBlack, AllBlack

LEMMA LightStarts == Init => Sink!Init
  BY LightNames DEF Init, Sink!Init, Opened, SpeakerIsOpen, Doing

(* What surrounds the sink, and the calls it gets.                           *)
LEMMA OutsideStep ==
    ASSUME LightInv, Environment \/ Calls \/ RetiredStep \/ UNCHANGED vars
    PROVE  Sink!Next \/ UNCHANGED <<Sink!light, Sink!outside, Doing, call, answer>>
  <1> USE LightNames DEF SpeakerIsOpen, Doing
  <1>1. CASE Unplug
    <2>1. Sink!Vanishes
      BY <1>1 DEF Unplug, callVars, Sink!Vanishes
    <2> QED BY <2>1 DEF Sink!Next
  <1>2. CASE Plug
    <2>1. device'.lamps \in Frames /\ device'.previous = device.previous
      BY <1>2 DEF Plug, LightInv, SinkInv, TypeOK, Devices
    <2>2. Sink!Appears
      BY <1>2, <2>1 DEF Plug, sinkVars, callVars, Sink!Appears
    <2> QED BY <2>2 DEF Sink!Next
  <1>3. CASE Cancel
    <2>1. Sink!Cancel
      BY <1>3 DEF Cancel, sinkVars, callVars, Sink!Cancel, Sink!light
    <2> QED BY <2>1 DEF Sink!Next
  <1>4. CASE TargetAges \/ RetiredStep \/ UNCHANGED vars
    BY <1>4 DEF TargetAges, RetiredStep, envVars, sinkVars, callVars, vars, Sink!light, Sink!outside
  <1>5. ASSUME NEW frame \in Frames, NEW captured \in BOOLEAN, NEW isFresh \in BOOLEAN,
               Write(frame, captured, isFresh)
        PROVE  Sink!Next
    <2>1. Sink!Write
      BY <1>5 DEF Write, envVars, sinkVars, Sink!Write, Sink!Asks, Sink!light, Sink!outside
    <2> QED BY <2>1 DEF Sink!Next
  <1>6. CASE Blackout
    <2>1. Sink!Blackout
      BY <1>6 DEF Blackout, envVars, sinkVars, Sink!Blackout, Sink!Asks, Sink!light, Sink!outside
    <2> QED BY <2>1 DEF Sink!Next
  <1>7. CASE BlackoutNothing
    <2>1. Sink!NothingToDarken
      BY <1>7 DEF BlackoutNothing, envVars, sinkVars, callVars, Sink!NothingToDarken, Sink!Goes,
         Sink!Returns, Sink!light, Sink!outside
    <2> QED BY <2>1 DEF Sink!Next
  <1> QED BY <1>1, <1>2, <1>3, <1>4, <1>5, <1>6, <1>7 DEF Environment, Calls

(* Opening: only the first blackout shows.                                   *)
LEMMA OpeningStep ==
    ASSUME LightInv,
           \/ ConnectCancelled \/ FindDevice \/ CheckInterface \/ Claim \/ FirstBlackout
           \/ NotFound \/ CheckFails \/ ClaimFails \/ FirstBlackoutFails
    PROVE  Sink!Next \/ UNCHANGED <<Sink!light, Sink!outside, Doing, call, answer>>
  <1> USE LightNames DEF SpeakerIsOpen, Doing
  <1>1. CASE ConnectCancelled
    <2>1. Sink!Cancelled
      BY <1>1 DEF ConnectCancelled, envVars, sinkVars, Sink!Cancelled, Sink!Goes, Sink!Returns,
         Sink!light, Sink!outside
    <2> QED BY <2>1 DEF Sink!Next
  <1>2. CASE FindDevice
    <2>1. device' = Opened(device.lamps) /\ device.previous = NoFrame
      BY <1>2 DEF FindDevice, LightInv
    <2> QED BY <1>2, <2>1 DEF FindDevice, Opened, envVars, Sink!light, Sink!outside
  <1>3. CASE CheckInterface \/ Claim \/ NotFound \/ CheckFails \/ ClaimFails
    BY <1>3 DEF CheckInterface, Claim, NotFound, CheckFails, ClaimFails, OpenFailed, sinkVars,
       Sink!light, Sink!outside
  <1>4. CASE FirstBlackout
    <2>1. Sink!Opens
      BY <1>4 DEF FirstBlackout, envVars, sinkVars, LightInv, Sink!Opens, Sink!Goes, Sink!Wholly,
         Sink!Continues, Sink!outside
    <2> QED BY <2>1 DEF Sink!Next
  <1>5. CASE FirstBlackoutFails
    <2>1. PICK o \in SentBlackout : ~o.ok /\ device' = o.device
      BY <1>5 DEF FirstBlackoutFails
    <2>2. CASE device' = device
      BY <1>5, <2>2 DEF FirstBlackoutFails, OpenFailed, Sink!light, Sink!outside
    <2>3. CASE link = "live" /\ Mixed(device', AllBlack)
      <3>1. Sink!FailsToOpen
        BY <1>5, <2>3 DEF FirstBlackoutFails, OpenFailed, LightInv, Mixed, Sink!FailsToOpen, Sink!Goes,
           Sink!Partly, Sink!Reaches, Sink!Continues, Sink!outside
      <3> QED BY <3>1 DEF Sink!Next
    <2> QED BY <2>1, <2>2, <2>3, BlackoutEnds DEF LightInv
  <1> QED BY <1>1, <1>2, <1>3, <1>4, <1>5

(* Where a write or a blackout under way has a handle that reaches the       *)
(* speaker, the speaker is open.                                             *)
LEMMA SendingStep ==
    ASSUME LightInv, SendOk \/ SendFails \/ SendFailsForGood \/ BlackoutAnswered
    PROVE  Sink!Next \/ UNCHANGED <<Sink!light, Sink!outside, Doing, call, answer>>
  <1> USE LightNames DEF SpeakerIsOpen, Doing
  <1>1. Target \in Frames /\ Target \in Sink!Wanted
    BY TargetIsFrame DEF Target, LightInv, Sink!Wanted
  <1>2. CASE SendOk
    <2>1. PICK o \in SentWrite(Target) : o.ok /\ device' = o.device
      BY <1>2 DEF SendOk
    <2>2. \/ device' = device /\ device.previous = Target
          \/ link = "live" /\ device' = [lamps |-> Target, previous |-> Target]
      BY <1>1, <2>1, WriteEnds DEF LightInv
    <2>3. CASE expiring
      <3>1. Sink!Expired
        BY <1>2, <2>2, <2>3 DEF SendOk, envVars, Target, Status, LightInv, Sink!Expired, Sink!Goes,
           Sink!Wholly, Sink!Returns, Sink!light, Sink!outside
      <3> QED BY <3>1 DEF Sink!Next
    <2>4. CASE ~expiring /\ device.previous = call.frame
      <3>1. Sink!Skipped
        BY <1>2, <2>1, <2>4 DEF SendOk, envVars, Target, Status, SentWrite, WriteOutcomes, Sink!Skipped,
           Sink!Goes, Sink!Returns, Sink!light, Sink!outside
      <3> QED BY <3>1 DEF Sink!Next
    <2>5. CASE ~expiring /\ device.previous # call.frame
      <3>1. Sink!Rendered
        BY <1>2, <2>2, <2>5 DEF SendOk, envVars, Target, Status, Sink!Rendered, Sink!Goes,
           Sink!Wholly, Sink!Returns, Sink!outside
      <3> QED BY <3>1 DEF Sink!Next
    <2> QED BY <2>3, <2>4, <2>5
  <1>3. CASE SendFails \/ SendFailsForGood
    <2>1. PICK o \in SentWrite(Target) : ~o.ok /\ device' = o.device
      BY <1>3 DEF SendFails, SendFailsForGood
    <2>2. CASE device' = device
      BY <1>3, <2>2 DEF SendFails, SendFailsForGood, envVars, Sink!light, Sink!outside
    <2>3. CASE link = "live" /\ Mixed(device', Target)
      <3>1. Sink!FailsToPaint
        BY <1>1, <1>3, <2>3 DEF SendFails, SendFailsForGood, envVars, Mixed, Sink!FailsToPaint,
           Sink!Goes, Sink!Partly, Sink!Reaches, Sink!Continues, Sink!outside
      <3> QED BY <3>1 DEF Sink!Next
    <2> QED BY <1>1, <2>1, <2>2, <2>3, WriteEnds DEF LightInv
  <1>4. CASE BlackoutAnswered
    <2>1. PICK o \in SentBlackout : device' = o.device /\ answer' = IF o.ok THEN "dark" ELSE "error"
      BY <1>4 DEF BlackoutAnswered
    <2>2. CASE o.ok
      <3>1. Sink!Darkened
        BY <1>4, <2>1, <2>2, BlackoutEnds DEF BlackoutAnswered, envVars, sinkVars, LightInv,
           Sink!Darkened, Sink!Goes, Sink!Wholly, Sink!Returns, Sink!outside, Mixed
      <3> QED BY <3>1 DEF Sink!Next
    <2>3. CASE ~o.ok
      <3>1. device' = device \/ (link = "live" /\ Mixed(device', AllBlack))
        BY <2>1, <2>3, BlackoutEnds DEF LightInv
      <3>2. Sink!NotDarkened
        BY <1>4, <2>1, <2>3, <3>1 DEF BlackoutAnswered, envVars, sinkVars, Mixed, Sink!NotDarkened,
           Sink!Goes, Sink!Partly, Sink!Reaches, Sink!Returns, Sink!light, Sink!outside
      <3> QED BY <3>2 DEF Sink!Next
    <2> QED BY <2>2, <2>3
  <1> QED BY <1>2, <1>3, <1>4

(* Attempts begin and waits end unseen.                                      *)
LEMMA WaitingStep ==
    ASSUME LightInv, Attempt \/ WaitCancelled \/ WaitOver
    PROVE  Sink!Next \/ UNCHANGED <<Sink!light, Sink!outside, Doing, call, answer>>
  <1> USE LightNames DEF SpeakerIsOpen, Doing
  <1>1. CASE Attempt \/ WaitOver
    BY <1>1 DEF Attempt, WaitOver, envVars, sinkVars, Sink!light, Sink!outside
  <1>2. CASE WaitCancelled
    <2>1. Sink!Cancelled
      BY <1>2 DEF WaitCancelled, envVars, Sink!Cancelled, Sink!Goes, Sink!Returns, Sink!light,
         Sink!outside
    <2> QED BY <2>1 DEF Sink!Next
  <1> QED BY <1>1, <1>2

(* The handle is taken out of the sink, and dropped.                         *)
LEMMA RetiringStep ==
    ASSUME LightInv, GiveUp
    PROVE  Sink!Next \/ UNCHANGED <<Sink!light, Sink!outside, Doing, call, answer>>
  <1> USE LightNames DEF SpeakerIsOpen, Doing
  <1>1. PICK o \in SentBlackout : device' = [o.device EXCEPT !.previous = NoFrame]
    BY DEF GiveUp
  <1>2. o.device \in Devices /\ device \in Devices
    BY SentTyped, AllBlackIsFrame DEF LightInv, SinkInv, TypeOK
  <1>3. device'.lamps = o.device.lamps /\ device'.previous = NoFrame
    BY <1>1, <1>2 DEF Devices
  <1>4. \/ o.device = device
        \/ link = "live" /\ \A z \in Zones : o.device.lamps[z] \in {device.lamps[z], AllBlack[z]}
    BY BlackoutEnds DEF LightInv, Mixed
  <1>5. Sink!GivesUp
    BY <1>3, <1>4 DEF GiveUp, Sink!GivesUp, Sink!Reaches
  <1>6. Sink!LosesPatience
    BY <1>5 DEF GiveUp, Sink!LosesPatience, Sink!Goes, Sink!Continues, Sink!outside
  <1> QED BY <1>6 DEF Sink!Next

(* The recovering sink implements the light its callers see: every step is a *)
(* step of Light or invisible, whatever is unplugged or fails.               *)
THEOREM SinkImplementsLight == Spec => ImplementsLight
  <1>1. Init => Sink!Init
    BY LightStarts
  <1>2. LightInv /\ [Next]_vars =>
            [Sink!Next]_<<Sink!light, Sink!outside, Doing, call, answer>>
    BY OutsideStep, OpeningStep, SendingStep, WaitingStep, RetiringStep DEF Next, Steps
  <1> QED BY <1>1, <1>2, LightInvariant, PTL DEF Spec, ImplementsLight, Sink!LightSpec
=============================================================================
