---------------------------- MODULE EngineProofs ----------------------------
(***************************************************************************)
(* Proofs about Engine for every number of frames and stalls.               *)
(***************************************************************************)
EXTENDS Engine, Transition, TLAPS

-----------------------------------------------------------------------------
(* Parity of generations.                                                    *)

(* A generation is even or odd, never both.                                  *)
LEMMA EvenOrOdd ==
    ASSUME NEW g \in Nat
    PROVE  Odd(g) <=> ~Even(g)
BY DEF Odd, Even

(* A blackout is owed from an odd generation that is never below the current *)
(* one, and the generation it announces is the even successor of it.         *)
LEMMA BlackoutGenerationFacts ==
    ASSUME NEW g \in Nat
    PROVE  /\ BlackoutGeneration(g) \in Nat
           /\ Odd(BlackoutGeneration(g))
           /\ g <= BlackoutGeneration(g)
BY DEF BlackoutGeneration, Odd, Even

(* From an odd generation the sampling task resumes in its successor, which  *)
(* is even and not the initial one.                                          *)
LEMMA ResumeGenerationFacts ==
    ASSUME NEW g \in Nat, Odd(g)
    PROVE  /\ ResumeGeneration(g) \in Nat
           /\ Even(ResumeGeneration(g))
           /\ ResumeGeneration(g) # 0
           /\ ResumeGeneration(g) = g + 1
BY DEF ResumeGeneration, Odd, Even

-----------------------------------------------------------------------------
(* The operators the tasks are built from preserve their types.              *)

(* The operations of the latest-value slot keep it a slot, and change its    *)
(* value only as their names say.                                            *)
LEMMA SlotTypes ==
    ASSUME NEW s \in Slots, NEW f \in Frame \cup {NoFrame}
    PROVE  /\ Put(s, f) \in Slots /\ Taken(s) \in Slots
           /\ WithoutTx(s) \in Slots /\ WithoutRx(s) \in Slots
           /\ s.val \in Frame \cup {NoFrame}
           /\ Put(s, f).val = f /\ Taken(s).val = NoFrame
           /\ WithoutTx(s).val = s.val /\ WithoutRx(s).val = s.val
           /\ s.tx \in BOOLEAN /\ s.rx \in BOOLEAN
BY DEF Slots, Put, Taken, WithoutTx, WithoutRx

(* LightingWriterState stays one under each of its methods, and only         *)
(* PrepareSafety, the writer's answer to a blackout request, changes the     *)
(* generation it accepts.                                                    *)
LEMMA WriterTypes ==
    ASSUME NEW s \in WriterState, NEW f \in Frame \cup {NoFrame}, NEW g \in Nat
    PROVE  /\ AcceptUpdate(s, f) \in WriterState
           /\ AcceptUpdate(s, f).accepted = s.accepted
           /\ PrepareSafety(s, g) \in WriterState
           /\ PrepareSafety(s, g).accepted = g
           /\ MarkDisplayed(s) \in WriterState
           /\ MarkDisplayed(s).accepted = s.accepted
           /\ Cleared(s) \in WriterState
           /\ Cleared(s).accepted = s.accepted
BY DEF WriterState, AcceptUpdate, Accept, PrepareSafety, MarkDisplayed, Cleared

-----------------------------------------------------------------------------
(* Type correctness.                                                         *)

(* The engine starts well-typed.                                             *)
LEMMA InitTypes == Init => TypeOK
<1>1. /\ Even(0) /\ 0 \in Nat /\ NoFrame \in Frame \cup {NoFrame}
      /\ 0 \in 0..MaxFrames /\ 0 \in 0..MaxStalls
  BY BoundsAssumption DEF Even
<1>2. FreshSlot \in Slots
  BY DEF FreshSlot, Slots
<1>3. InitialWriterState \in WriterState /\ InitialWriterState.accepted = 0
  BY DEF InitialWriterState, WriterState
<1>4. Init => SharedType /\ CaptureType
  BY <1>1, <1>2, Zenon DEF Init, SharedType, CaptureType
<1>5. Init => CoordinatorType
  BY <1>1, Zenon DEF Init, CoordinatorType, CoordinatorPoints
<1>6. Init => WriterType
  BY <1>1, <1>3 DEF Init, WriterType
<1> QED
  BY <1>4, <1>5, <1>6 DEF TypeOK

(* A step that leaves a task's variables alone leaves their types alone.      *)
LEMMA TypeStutter ==
    ASSUME TypeOK
    PROVE  /\ UNCHANGED sharedVars => SharedType'
           /\ UNCHANGED captureVars => CaptureType'
           /\ UNCHANGED coordVars => CoordinatorType'
           /\ UNCHANGED writerVars => WriterType'
<1>1. UNCHANGED sharedVars => SharedType'
  BY DEF TypeOK, SharedType, sharedVars
<1>2. UNCHANGED captureVars => CaptureType'
  BY DEF TypeOK, CaptureType, captureVars
<1>3. UNCHANGED coordVars => CoordinatorType'
  BY DEF TypeOK, CoordinatorType, coordVars
<1>4. UNCHANGED writerVars => WriterType'
  BY DEF TypeOK, WriterType, writerVars
<1> QED BY <1>1, <1>2, <1>3, <1>4

(* The capture task, and the source that feeds it.                            *)
LEMMA CaptureTypes ==
    ASSUME TypeOK, CaptureSteps \/ SourceSteps
    PROVE  TypeOK'
<1> USE BoundsAssumption
<1>t. SharedType /\ CaptureType
  BY DEF TypeOK
<1>1. CASE CaptureFrame
  <2>1. held' \in Frame
    BY <1>1, <1>t DEF CaptureFrame, CaptureType, Frame
  <2>9. CaptureType'
    BY <1>1, <1>t, <2>1 DEF CaptureFrame, CaptureType
  <2> QED BY <1>1, TypeStutter, <2>9 DEF CaptureFrame, TypeOK
<1>2. CASE CaptureTag
  <2>1. held' \in Frame
    BY <1>2, <1>t DEF CaptureTag, CaptureType, SharedType, Frame
  <2>9. CaptureType'
    BY <1>2, <1>t, <2>1 DEF CaptureTag, CaptureType
  <2> QED BY <1>2, TypeStutter, <2>9 DEF CaptureTag, TypeOK
<1>3. CASE CaptureSend
  <2>1. frames' \in Slots
    BY <1>3, <1>t, SlotTypes DEF CaptureSend, CaptureType, SharedType
  <2>8. SharedType'
    BY <1>3, <1>t, <2>1 DEF CaptureSend, SharedType
  <2>9. CaptureType'
    BY <1>3, <1>t, <2>1 DEF CaptureSend, CaptureType
  <2> QED BY <1>3, TypeStutter, <2>8, <2>9 DEF CaptureSend, TypeOK
<1>4. CASE CaptureCancelled
  <2>9. CaptureType'
    BY <1>4, <1>t DEF CaptureCancelled, CaptureType
  <2> QED BY <1>4, TypeStutter, <2>9 DEF CaptureCancelled, TypeOK
<1>5. ASSUME NEW failed \in BOOLEAN, CaptureShutdown(failed)
      PROVE  TypeOK'
  <2>1. frames' \in Slots
    BY <1>5, <1>t, SlotTypes DEF CaptureShutdown, SharedType
  <2>8. SharedType'
    BY <1>5, <1>t, <2>1 DEF CaptureShutdown, SharedType
  <2>9. CaptureType'
    BY <1>5, <1>t, <2>1 DEF CaptureShutdown, CaptureType
  <2> QED BY <1>5, TypeStutter, <2>8, <2>9 DEF CaptureShutdown, TypeOK
<1>6. ASSUME NEW failed \in BOOLEAN, CaptureEnds(failed)
      PROVE  TypeOK'
  <2>8. SharedType'
    BY <1>6, <1>t DEF CaptureEnds, SharedType
  <2>9. CaptureType'
    BY <1>6, <1>t DEF CaptureEnds, CaptureType
  <2> QED BY <1>6, TypeStutter, <2>8, <2>9 DEF CaptureEnds, TypeOK
<1> QED
  BY <1>1, <1>2, <1>3, <1>4, <1>5, <1>6 DEF CaptureSteps, SourceSteps

(* The coordinator, which asks for blackouts at odd generations only.         *)
LEMMA CoordinatorTypes ==
    ASSUME TypeOK, CoordinatorPart, CoordinatorSteps
    PROVE  TypeOK'
<1> USE BoundsAssumption DEF CoordinatorPoints
<1>t. /\ SharedType /\ CoordinatorType
      /\ BlackoutGeneration(generation) \in Nat
      /\ ResumeGeneration(generation) \in Nat
      /\ NoFrame \in Frame \cup {NoFrame}
  BY BlackoutGenerationFacts DEF ResumeGeneration, TypeOK, SharedType
<1>1. CASE CoordinatorCancelled
  <2>8. SharedType'
    BY <1>1, <1>t DEF CoordinatorCancelled, Leave, SharedType
  <2>9. CoordinatorType'
    BY <1>1, <1>t DEF CoordinatorCancelled, Leave, CoordinatorType
  <2> QED BY <1>1, TypeStutter, <2>8, <2>9 DEF CoordinatorCancelled, TypeOK
<1>2. CASE StallDetected
  <2>8. SharedType'
    BY <1>2, <1>t DEF StallDetected, SharedType
  <2>9. CoordinatorType'
    BY <1>2, <1>t DEF StallDetected, CoordinatorType
  <2> QED BY <1>2, TypeStutter, <2>8, <2>9 DEF StallDetected, TypeOK
<1>3. CASE FramesEnded
  <2>8. SharedType'
    BY <1>3, <1>t DEF FramesEnded, Leave, SharedType
  <2>9. CoordinatorType'
    BY <1>3, <1>t DEF FramesEnded, Leave, CoordinatorType
  <2> QED BY <1>3, TypeStutter, <2>8, <2>9 DEF FramesEnded, TypeOK
<1>4. CASE ReceiveFrame
  <2>1. frames' \in Slots /\ frames.val \in Frame \cup {NoFrame}
    BY <1>4, <1>t, SlotTypes DEF ReceiveFrame, SharedType, CoordinatorType
  <2>8. SharedType'
    BY <1>4, <1>t, <2>1 DEF ReceiveFrame, SharedType
  <2>9. CoordinatorType'
    <3>1. CASE Current(frames.val)
      BY <1>4, <1>t, <2>1, <3>1 DEF ReceiveFrame, CoordinatorType
    <3>2. CASE ~Current(frames.val)
      BY <1>4, <1>t, <2>1, <3>2 DEF ReceiveFrame, CoordinatorType
    <3> QED BY <3>1, <3>2
  <2> QED BY <1>4, TypeStutter, <2>8, <2>9 DEF ReceiveFrame, TypeOK
<1>5. CASE SamplingFails
  <2>8. SharedType'
    BY <1>5, <1>t DEF SamplingFails, Leave, SharedType
  <2>9. CoordinatorType'
    BY <1>5, <1>t DEF SamplingFails, Leave, CoordinatorType
  <2> QED BY <1>5, TypeStutter, <2>8, <2>9 DEF SamplingFails, TypeOK
<1>6. CASE SamplingDone
  <2>1. updates' \in Slots /\ frames.val \in Frame \cup {NoFrame}
    <3>1. item \in Frame \cup {NoFrame} /\ updates \in Slots /\ frames \in Slots
      BY <1>t DEF SharedType, CoordinatorType
    <3>2. updates' = updates \/ updates' = Put(updates, item)
      BY <1>6 DEF SamplingDone
    <3> QED BY <3>1, <3>2, SlotTypes
  <2>8. SharedType'
    BY <1>6, <1>t, <2>1 DEF SamplingDone, Leave, SharedType
  <2>9. CoordinatorType'
    <3>1. CASE ~Current(item)
      BY <1>6, <1>t, <3>1 DEF SamplingDone, CoordinatorType
    <3>2. CASE Current(item) /\ updates.rx
      BY <1>6, <1>t, <3>2 DEF SamplingDone, CoordinatorType
    <3>3. CASE Current(item) /\ ~updates.rx
      BY <1>6, <1>t, <3>3 DEF SamplingDone, Leave, CoordinatorType
    <3> QED BY <3>1, <3>2, <3>3
  <2> QED BY <1>6, TypeStutter, <2>8, <2>9 DEF SamplingDone, TypeOK
<1>7. CASE RequestBlackout
  <2>1. Even(ResumeGeneration(generation))
    BY <1>7, <1>t, ResumeGenerationFacts
    DEF RequestBlackout, CoordinatorPart, SharedType
  <2>8. SharedType'
    BY <1>7, <1>t, <2>1 DEF RequestBlackout, RequestFailed, Leave, SharedType
  <2>9. CoordinatorType'
    BY <1>7, <1>t, <2>1 DEF RequestBlackout, RequestFailed, Leave, CoordinatorType
  <2> QED BY <1>7, TypeStutter, <2>8, <2>9 DEF RequestBlackout, TypeOK
<1>8. CASE BlackoutAcknowledged
  <2>8. SharedType'
    BY <1>8, <1>t DEF BlackoutAcknowledged, SharedType
  <2>9. CoordinatorType'
    BY <1>8, <1>t DEF BlackoutAcknowledged, CoordinatorType
  <2> QED BY <1>8, TypeStutter, <2>8, <2>9 DEF BlackoutAcknowledged, TypeOK
<1>9. CASE BlackoutRefused
  <2>8. SharedType'
    BY <1>9, <1>t DEF BlackoutRefused, RequestFailed, Leave, SharedType
  <2>9. CoordinatorType'
    BY <1>9, <1>t DEF BlackoutRefused, RequestFailed, Leave, CoordinatorType
  <2> QED BY <1>9, TypeStutter, <2>8, <2>9 DEF BlackoutRefused, TypeOK
<1>10. CASE BeginTeardown
  <2>1. frames' \in Slots /\ frames.val \in Frame \cup {NoFrame}
    BY <1>10, <1>t, SlotTypes DEF BeginTeardown, SharedType, CoordinatorType
  <2>8. SharedType'
    BY <1>10, <1>t, <2>1 DEF BeginTeardown, SharedType
  <2>9. CoordinatorType'
    BY <1>10, <1>t, <2>1 DEF BeginTeardown, CoordinatorType
  <2> QED BY <1>10, TypeStutter, <2>8, <2>9 DEF BeginTeardown, TypeOK
<1>11. CASE JoinCapture
  <2>1. updates' \in Slots /\ frames.val \in Frame \cup {NoFrame}
    BY <1>11, <1>t, SlotTypes DEF JoinCapture, SharedType, CoordinatorType
  <2>8. SharedType'
    BY <1>11, <1>t, <2>1 DEF JoinCapture, SharedType
  <2>9. CoordinatorType'
    BY <1>11, <1>t, <2>1 DEF JoinCapture, CoordinatorType
  <2> QED BY <1>11, TypeStutter, <2>8, <2>9 DEF JoinCapture, TypeOK
<1>12. CASE JoinWriter
  <2>9. CoordinatorType'
    BY <1>12, <1>t DEF JoinWriter, CoordinatorType
  <2> QED BY <1>12, TypeStutter, <2>9 DEF JoinWriter, TypeOK
<1> QED
  BY <1>1, <1>2, <1>3, <1>4, <1>5, <1>6, <1>7, <1>8, <1>9, <1>10, <1>11, <1>12
  DEF CoordinatorSteps

(* The writer and its sink.                                                   *)
LEMMA WriterStepTypes ==
    ASSUME TypeOK, WriterSteps \/ SinkSteps
    PROVE  TypeOK'
<1>t. /\ SharedType /\ WriterType
      /\ w.current \in Frame \cup {NoFrame} /\ NoFrame \in Frame \cup {NoFrame}
      /\ updates.val \in Frame \cup {NoFrame}
      /\ Taken(updates) \in Slots /\ WithoutRx(updates) \in Slots
      /\ Even(0)
  BY SlotTypes DEF TypeOK, SharedType, WriterType, WriterState, Even
<1>a. \A s \in WriterState, f \in Frame \cup {NoFrame} :
         /\ AcceptUpdate(s, f) \in WriterState
         /\ AcceptUpdate(s, f).accepted = s.accepted
         /\ DropsOnAccept(s, f) \in Nat /\ SettlesOnAccept(s, f) \in Nat
  BY WriterTypes DEF DropsOnAccept, SettlesOnAccept, One
<1>b. ASSUME NEW s \in WriterState, s.accepted = w.accepted,
             NEW n \in Nat, NEW b \in BOOLEAN, AfterWrite(s, n, b)
      PROVE  /\ w' \in WriterState /\ w'.accepted = w.accepted
             /\ staleDrops' \in Nat /\ settled' \in Nat /\ updates' \in Slots
  <2>1. CASE HasItem(updates)
    <3>1. w' \in WriterState /\ w'.accepted = w.accepted
      BY <2>1, <1>t, <1>a, <1>b DEF AfterWrite
    <3>2. staleDrops' \in Nat /\ settled' \in Nat /\ updates' \in Slots
      BY <2>1, <1>t, <1>a, <1>b DEF AfterWrite, WriterType
    <3> QED BY <3>1, <3>2
  <2>2. CASE ~HasItem(updates)
    <3>1. /\ [s EXCEPT !.active = ~b, !.armed = ~b] \in WriterState
          /\ [s EXCEPT !.active = ~b, !.armed = ~b].accepted = s.accepted
      BY DEF WriterState
    <3>2. w' \in WriterState /\ w'.accepted = w.accepted
      BY <2>2, <3>1, <1>b DEF AfterWrite
    <3>3. staleDrops' \in Nat /\ settled' \in Nat /\ updates' \in Slots
      BY <2>2, <1>t, <1>b DEF AfterWrite, WriterType, SharedType
    <3> QED BY <3>2, <3>3
  <2> QED BY <2>1, <2>2
<1>1. CASE WakeSafety
  <2>8. SharedType'
    BY <1>1, <1>t DEF WakeSafety, TakeSafety, SharedType
  <2>9. WriterType'
    <3>1. CASE safety # 0
      BY <1>1, <1>t, <3>1 DEF WakeSafety, TakeSafety, WriterType, SharedType
    <3>2. CASE safety = 0
      BY <1>1, <1>t, <3>2 DEF WakeSafety, TakeSafety, WriterType
    <3> QED BY <3>1, <3>2
  <2> QED BY <1>1, TypeStutter, <2>8, <2>9 DEF WakeSafety, TypeOK
<1>2. CASE WakeDeadline
  <2>1. w' \in WriterState /\ w'.accepted = w.accepted
    BY <1>2, <1>t DEF WakeDeadline, WriterType, WriterState
  <2>9. WriterType'
    BY <1>2, <1>t, <2>1 DEF WakeDeadline, WriterType
  <2> QED BY <1>2, TypeStutter, <2>9 DEF WakeDeadline, TypeOK
<1>3. CASE WakeUpdate
  <2>1. w' \in WriterState /\ w'.accepted = w.accepted
    BY <1>3, <1>t, <1>a DEF WakeUpdate, WriterType
  <2>8. SharedType'
    BY <1>3, <1>t, <1>a, <2>1 DEF WakeUpdate, SharedType
  <2>9. WriterType'
    BY <1>3, <1>t, <1>a, <2>1 DEF WakeUpdate, WriterType
  <2> QED BY <1>3, TypeStutter, <2>8, <2>9 DEF WakeUpdate, TypeOK
<1>4. CASE WakeUpdatesEnded
  <2>9. WriterType'
    BY <1>4, <1>t DEF WakeUpdatesEnded, WriterType
  <2> QED BY <1>4, TypeStutter, <2>9 DEF WakeUpdatesEnded, TypeOK
<1>5. CASE WritePreempted
  <2>8. SharedType'
    BY <1>5, <1>t DEF WritePreempted, TakeSafety, SharedType
  <2>9. WriterType'
    <3>1. CASE safety # 0
      BY <1>5, <1>t, <3>1 DEF WritePreempted, TakeSafety, WriterType, SharedType
    <3>2. CASE safety = 0
      BY <1>5, <1>t, <3>2 DEF WritePreempted, TakeSafety, WriterType
    <3> QED BY <3>1, <3>2
  <2> QED BY <1>5, TypeStutter, <2>8, <2>9 DEF WritePreempted, TypeOK
<1>6. CASE BeginBlackout
  <2>1. w' \in WriterState /\ w'.accepted = pendingSafety
    BY <1>6, <1>t, WriterTypes DEF BeginBlackout, WriterType
  <2>2. staleDrops' \in Nat /\ settled' \in Nat
    BY <1>6, <1>t DEF BeginBlackout, WriterType, Waiting, Shown, One
  <2>9. WriterType'
    BY <1>6, <1>t, <2>1, <2>2 DEF BeginBlackout, WriterType
  <2> QED BY <1>6, TypeStutter, <2>9 DEF BeginBlackout, TypeOK
<1>7. CASE BlackoutDone
  <2>8. SharedType'
    BY <1>7, <1>t DEF BlackoutDone, SharedType
  <2>9. WriterType'
    BY <1>7, <1>t DEF BlackoutDone, WriterType
  <2> QED BY <1>7, TypeStutter, <2>8, <2>9 DEF BlackoutDone, TypeOK
<1>8. CASE BlackoutFails
  <2>8. SharedType'
    BY <1>8, <1>t DEF BlackoutFails, WriterLeaves, SharedType
  <2>9. WriterType'
    BY <1>8, <1>t DEF BlackoutFails, WriterLeaves, WriterType
  <2> QED BY <1>8, TypeStutter, <2>8, <2>9 DEF BlackoutFails, TypeOK
<1>9. CASE WriterEnds
  <2>8. SharedType'
    BY <1>9, <1>t DEF WriterEnds, WriterLeaves, SharedType
  <2>9. WriterType'
    BY <1>9, <1>t DEF WriterEnds, WriterLeaves, WriterType
  <2> QED BY <1>9, TypeStutter, <2>8, <2>9 DEF WriterEnds, TypeOK
<1>10. ASSUME NEW final \in BOOLEAN, WriteDone(final)
       PROVE  TypeOK'
  <2>1. MarkDisplayed(w) \in WriterState /\ MarkDisplayed(w).accepted = w.accepted
    BY <1>t, WriterTypes DEF WriterType
  <2>2. /\ w' \in WriterState /\ w'.accepted = w.accepted
        /\ staleDrops' \in Nat /\ settled' \in Nat /\ updates' \in Slots
    BY <1>b, <1>10, <1>t, <2>1 DEF WriteDone, WriterType
  <2>8. SharedType'
    BY <1>10, <1>t, <2>2 DEF WriteDone, SharedType
  <2>9. WriterType'
    BY <1>10, <1>t, <2>2 DEF WriteDone, WriterType
  <2> QED BY <1>10, TypeStutter, <2>8, <2>9 DEF WriteDone, TypeOK
<1>11. CASE WriteExpired
  <2>1. Cleared(w) \in WriterState /\ Cleared(w).accepted = w.accepted
    BY <1>t, WriterTypes DEF WriterType
  <2>2. /\ w' \in WriterState /\ w'.accepted = w.accepted
        /\ staleDrops' \in Nat /\ settled' \in Nat /\ updates' \in Slots
    <3>1. staleDrops + 1 \in Nat
      BY <1>t DEF WriterType
    <3>2. AfterWrite(Cleared(w), staleDrops + 1, TRUE)
      BY <1>11, Zenon DEF WriteExpired
    <3> QED BY <1>b, <2>1, <3>1, <3>2
  <2>8. SharedType'
    BY <1>11, <1>t, <2>2 DEF WriteExpired, SharedType
  <2>9. WriterType'
    BY <1>11, <1>t, <2>2 DEF WriteExpired, WriterType
  <2> QED BY <1>11, TypeStutter, <2>8, <2>9 DEF WriteExpired, TypeOK
<1>12. CASE WriteGivenUp
  <2>1. w' \in WriterState /\ w'.accepted = w.accepted
    BY <1>12, <1>t, WriterTypes DEF WriteGivenUp, WriterType
  <2>2. staleDrops' \in Nat /\ settled' \in Nat
    BY <1>12, <1>t DEF WriteGivenUp, WriterType, Waiting, Shown, One
  <2>8. SharedType'
    BY <1>12, <1>t, <2>1, <2>2 DEF WriteGivenUp, SharedType
  <2>9. WriterType'
    BY <1>12, <1>t, <2>1, <2>2 DEF WriteGivenUp, WriterType
  <2> QED BY <1>12, TypeStutter, <2>8, <2>9 DEF WriteGivenUp, TypeOK
<1>13. CASE WriteFails
  <2>8. SharedType'
    BY <1>13, <1>t DEF WriteFails, WriterLeaves, SharedType
  <2>9. WriterType'
    BY <1>13, <1>t DEF WriteFails, WriterLeaves, WriterType
  <2> QED BY <1>13, TypeStutter, <2>8, <2>9 DEF WriteFails, TypeOK
<1> QED
  BY <1>1, <1>2, <1>3, <1>4, <1>5, <1>6, <1>7, <1>8, <1>9, <1>10, <1>11, <1>12,
     <1>13 DEF WriterSteps, SinkSteps

-----------------------------------------------------------------------------
(* The protocol of the safety blackouts is inductive.                        *)

(* The protocol holds when the engine starts: nothing is requested, held or  *)
(* shown, and generation 0 is even.                                          *)
LEMMA InitProtocol == Init => BlackoutProtocol
<1>1. Even(0)
  BY DEF Even
<1> QED
  BY <1>1 DEF Init, BlackoutProtocol, CoordinatorPart, RequestPart, WriterPart,
              UpdatePart, OnlyCurrentWorkIsShown, NoRequest, Waits, Joins,
              InitialWriterState, FreshSlot, NoFrame, HasItem

protocolVars == <<spc, teardownFault, generation, safety, ack, light, updates,
                  wpc, w, pendingSafety, safetyOpen>>

(* The capture task takes no part in it.                                      *)
LEMMA ProtocolStutter ==
    ASSUME BlackoutProtocol, UNCHANGED protocolVars
    PROVE  BlackoutProtocol'
<1> USE DEF protocolVars, BlackoutProtocol
<1>1. CoordinatorPart'
  BY DEF CoordinatorPart, NoRequest, Waits, Joins
<1>2. RequestPart'
  BY DEF RequestPart
<1>3. WriterPart'
  BY DEF WriterPart
<1>4. UpdatePart'
  BY DEF UpdatePart, Joins, HasItem
<1>5. OnlyCurrentWorkIsShown'
  BY DEF OnlyCurrentWorkIsShown
<1> QED BY <1>1, <1>2, <1>3, <1>4, <1>5

(* Every step of the sampling coordinator (receive, sample, hand over,       *)
(* detect a stall, request a blackout, tear down) keeps the protocol.        *)
LEMMA CoordinatorProtocol ==
    ASSUME TypeOK, BlackoutProtocol, CoordinatorSteps
    PROVE  BlackoutProtocol'
<1>t. /\ CoordinatorPart /\ RequestPart /\ WriterPart /\ UpdatePart
      /\ OnlyCurrentWorkIsShown
      /\ generation \in Nat /\ updates \in Slots /\ updates.val.gen \in Nat
      /\ Even(generation) => Odd(generation + 1)
      /\ Odd(generation) => Even(generation + 1)
      /\ safety \in Nat /\ pendingSafety \in Nat
     
      /\ Odd(generation) <=> ~Even(generation)
      /\ spc \in CoordinatorPoints
      /\ wpc \in {"loop", "write", "blackout", "done"}
      /\ BlackoutGeneration(generation) \in Nat
      /\ ~Even(BlackoutGeneration(generation))
      /\ Odd(BlackoutGeneration(generation))
      /\ generation <= BlackoutGeneration(generation)
      /\ ResumeGeneration(generation) = generation + 1
  <2>1. /\ generation \in Nat /\ updates \in Slots
        /\ safety \in Nat /\ pendingSafety \in Nat /\ spc \in CoordinatorPoints
        /\ wpc \in {"loop", "write", "blackout", "done"}
    BY DEF TypeOK, SharedType, WriterType, CoordinatorType
  <2>2. updates.val.gen \in Nat
    BY <2>1 DEF Slots, Frame, NoFrame
  <2>3. /\ Even(generation) => Odd(generation + 1)
        /\ Odd(generation) => Even(generation + 1)
    BY <2>1 DEF Even, Odd
  <2> QED
    BY <2>1, <2>2, <2>3, EvenOrOdd, BlackoutGenerationFacts
    DEF BlackoutProtocol, ResumeGeneration
<1>1. CASE CoordinatorCancelled
  <2>5. CoordinatorPart'
    BY <1>1, <1>t DEF CoordinatorCancelled, Leave, writerVars,
       Waits, Joins, NoRequest, CoordinatorPart, RequestPart, WriterPart, UpdatePart, OnlyCurrentWorkIsShown
  <2>6. RequestPart'
    BY <1>1, <1>t DEF CoordinatorCancelled, Leave, writerVars,
       Waits, Joins, NoRequest, CoordinatorPart, RequestPart, WriterPart, UpdatePart, OnlyCurrentWorkIsShown
  <2>7. WriterPart'
    BY <1>1, <1>t DEF CoordinatorCancelled, Leave, writerVars,
       Waits, Joins, NoRequest, CoordinatorPart, RequestPart, WriterPart, UpdatePart, OnlyCurrentWorkIsShown
  <2>8. UpdatePart'
    BY <1>1, <1>t DEF CoordinatorCancelled, Leave, writerVars,
       Waits, Joins, NoRequest, CoordinatorPart, RequestPart, WriterPart, UpdatePart, OnlyCurrentWorkIsShown
  <2>9. OnlyCurrentWorkIsShown'
    BY <1>1, <1>t DEF CoordinatorCancelled, Leave, writerVars,
       Waits, Joins, NoRequest, CoordinatorPart, RequestPart, WriterPart, UpdatePart, OnlyCurrentWorkIsShown
  <2> QED BY <2>5, <2>6, <2>7, <2>8, <2>9 DEF BlackoutProtocol
<1>2. CASE StallDetected
  <2>5. CoordinatorPart'
    BY <1>2, <1>t DEF StallDetected, writerVars,
       Waits, Joins, NoRequest, CoordinatorPart, RequestPart, WriterPart, UpdatePart, OnlyCurrentWorkIsShown
  <2>6. RequestPart'
    BY <1>2, <1>t DEF StallDetected, writerVars,
       Waits, Joins, NoRequest, CoordinatorPart, RequestPart, WriterPart, UpdatePart, OnlyCurrentWorkIsShown
  <2>7. WriterPart'
    BY <1>2, <1>t DEF StallDetected, writerVars,
       Waits, Joins, NoRequest, CoordinatorPart, RequestPart, WriterPart, UpdatePart, OnlyCurrentWorkIsShown
  <2>8. UpdatePart'
    BY <1>2, <1>t DEF StallDetected, writerVars,
       Waits, Joins, NoRequest, CoordinatorPart, RequestPart, WriterPart, UpdatePart, OnlyCurrentWorkIsShown
  <2>9. OnlyCurrentWorkIsShown'
    BY <1>2, <1>t DEF StallDetected, writerVars,
       Waits, Joins, NoRequest, CoordinatorPart, RequestPart, WriterPart, UpdatePart, OnlyCurrentWorkIsShown
  <2> QED BY <2>5, <2>6, <2>7, <2>8, <2>9 DEF BlackoutProtocol
<1>3. CASE FramesEnded
  <2>5. CoordinatorPart'
    BY <1>3, <1>t DEF FramesEnded, Leave, writerVars,
       Waits, Joins, NoRequest, CoordinatorPart, RequestPart, WriterPart, UpdatePart, OnlyCurrentWorkIsShown
  <2>6. RequestPart'
    BY <1>3, <1>t DEF FramesEnded, Leave, writerVars,
       Waits, Joins, NoRequest, CoordinatorPart, RequestPart, WriterPart, UpdatePart, OnlyCurrentWorkIsShown
  <2>7. WriterPart'
    BY <1>3, <1>t DEF FramesEnded, Leave, writerVars,
       Waits, Joins, NoRequest, CoordinatorPart, RequestPart, WriterPart, UpdatePart, OnlyCurrentWorkIsShown
  <2>8. UpdatePart'
    BY <1>3, <1>t DEF FramesEnded, Leave, writerVars,
       Waits, Joins, NoRequest, CoordinatorPart, RequestPart, WriterPart, UpdatePart, OnlyCurrentWorkIsShown
  <2>9. OnlyCurrentWorkIsShown'
    BY <1>3, <1>t DEF FramesEnded, Leave, writerVars,
       Waits, Joins, NoRequest, CoordinatorPart, RequestPart, WriterPart, UpdatePart, OnlyCurrentWorkIsShown
  <2> QED BY <2>5, <2>6, <2>7, <2>8, <2>9 DEF BlackoutProtocol
<1>4. CASE ReceiveFrame
  <2>5. CoordinatorPart'
    BY <1>4, <1>t DEF ReceiveFrame, writerVars,
       Waits, Joins, NoRequest, CoordinatorPart, RequestPart, WriterPart, UpdatePart, OnlyCurrentWorkIsShown
  <2>6. RequestPart'
    BY <1>4, <1>t DEF ReceiveFrame, writerVars,
       Waits, Joins, NoRequest, CoordinatorPart, RequestPart, WriterPart, UpdatePart, OnlyCurrentWorkIsShown
  <2>7. WriterPart'
    BY <1>4, <1>t DEF ReceiveFrame, writerVars,
       Waits, Joins, NoRequest, CoordinatorPart, RequestPart, WriterPart, UpdatePart, OnlyCurrentWorkIsShown
  <2>8. UpdatePart'
    BY <1>4, <1>t DEF ReceiveFrame, writerVars,
       Waits, Joins, NoRequest, CoordinatorPart, RequestPart, WriterPart, UpdatePart, OnlyCurrentWorkIsShown
  <2>9. OnlyCurrentWorkIsShown'
    BY <1>4, <1>t DEF ReceiveFrame, writerVars,
       Waits, Joins, NoRequest, CoordinatorPart, RequestPart, WriterPart, UpdatePart, OnlyCurrentWorkIsShown
  <2> QED BY <2>5, <2>6, <2>7, <2>8, <2>9 DEF BlackoutProtocol
<1>5. CASE SamplingFails
  <2>5. CoordinatorPart'
    BY <1>5, <1>t DEF SamplingFails, Leave, writerVars,
       Waits, Joins, NoRequest, CoordinatorPart, RequestPart, WriterPart, UpdatePart, OnlyCurrentWorkIsShown
  <2>6. RequestPart'
    BY <1>5, <1>t DEF SamplingFails, Leave, writerVars,
       Waits, Joins, NoRequest, CoordinatorPart, RequestPart, WriterPart, UpdatePart, OnlyCurrentWorkIsShown
  <2>7. WriterPart'
    BY <1>5, <1>t DEF SamplingFails, Leave, writerVars,
       Waits, Joins, NoRequest, CoordinatorPart, RequestPart, WriterPart, UpdatePart, OnlyCurrentWorkIsShown
  <2>8. UpdatePart'
    BY <1>5, <1>t DEF SamplingFails, Leave, writerVars,
       Waits, Joins, NoRequest, CoordinatorPart, RequestPart, WriterPart, UpdatePart, OnlyCurrentWorkIsShown
  <2>9. OnlyCurrentWorkIsShown'
    BY <1>5, <1>t DEF SamplingFails, Leave, writerVars,
       Waits, Joins, NoRequest, CoordinatorPart, RequestPart, WriterPart, UpdatePart, OnlyCurrentWorkIsShown
  <2> QED BY <2>5, <2>6, <2>7, <2>8, <2>9 DEF BlackoutProtocol
<1>6. CASE SamplingDone
  <2>5. CoordinatorPart'
    BY <1>6, <1>t DEF SamplingDone, Leave, Current, Put, HasItem, writerVars,
       Waits, Joins, NoRequest, CoordinatorPart, RequestPart, WriterPart, UpdatePart, OnlyCurrentWorkIsShown
  <2>6. RequestPart'
    BY <1>6, <1>t DEF SamplingDone, Leave, Current, Put, HasItem, writerVars,
       Waits, Joins, NoRequest, CoordinatorPart, RequestPart, WriterPart, UpdatePart, OnlyCurrentWorkIsShown
  <2>7. WriterPart'
    BY <1>6, <1>t DEF SamplingDone, Leave, Current, Put, HasItem, writerVars,
       Waits, Joins, NoRequest, CoordinatorPart, RequestPart, WriterPart, UpdatePart, OnlyCurrentWorkIsShown
  <2>8. UpdatePart'
    <3>1. updates'.val = updates.val
             \/ (updates'.val = item /\ item.gen = generation /\ Even(item.gen))
      <4>1. CASE ~Current(item)
        BY <1>6, <4>1 DEF SamplingDone
      <4>2. CASE Current(item) /\ ~updates.rx
        BY <1>6, <4>2 DEF SamplingDone
      <4>3. CASE Current(item) /\ updates.rx
        <5>1. updates' = Put(updates, item)
          BY <1>6, <4>3 DEF SamplingDone
        <5>2. item.gen = generation /\ Even(item.gen)
          BY <4>3, <1>t DEF Current
        <5> QED BY <5>1, <5>2, <1>t DEF Put, Slots
      <4> QED BY <4>1, <4>2, <4>3
    <3>2. spc' \in {"select", "leave"} /\ generation' = generation
      BY <1>6 DEF SamplingDone, Leave
    <3> QED BY <3>1, <3>2, <1>t DEF UpdatePart, Joins
  <2>9. OnlyCurrentWorkIsShown'
    BY <1>6, <1>t DEF SamplingDone, Leave, Current, Put, HasItem, writerVars,
       Waits, Joins, NoRequest, CoordinatorPart, RequestPart, WriterPart, UpdatePart, OnlyCurrentWorkIsShown
  <2> QED BY <2>5, <2>6, <2>7, <2>8, <2>9 DEF BlackoutProtocol
<1>7. CASE RequestBlackout
  <2>5. CoordinatorPart'
    BY <1>7, <1>t DEF RequestBlackout, RequestFailed, Leave, writerVars,
       Waits, Joins, NoRequest, CoordinatorPart, RequestPart, WriterPart, UpdatePart, OnlyCurrentWorkIsShown
  <2>6. RequestPart'
    <3>1. pendingSafety' = 0 /\ wpc' = wpc /\ wpc # "blackout"
          /\ generation' = generation /\ wpc \in {"loop", "write", "done"}
      BY <1>7, <1>t DEF RequestBlackout, writerVars, CoordinatorPart, NoRequest,
                        Waits
    <3>2. CASE wpc = "done"
      <4>1. safety' = 0 /\ ack' = "none"
        BY <1>7, <1>t, <3>2 DEF RequestBlackout, CoordinatorPart, NoRequest, Waits
      <4> QED BY <3>1, <4>1 DEF RequestPart
    <3>3. CASE wpc # "done"
      <4>1. safety' = generation + 1 /\ ack' = "pending"
        BY <1>7, <1>t, <3>3 DEF RequestBlackout
      <4> QED BY <3>1, <3>3, <4>1 DEF RequestPart
    <3> QED BY <3>2, <3>3
  <2>7. WriterPart'
    BY <1>7, <1>t DEF RequestBlackout, RequestFailed, Leave, writerVars,
       Waits, Joins, NoRequest, CoordinatorPart, RequestPart, WriterPart, UpdatePart, OnlyCurrentWorkIsShown
  <2>8. UpdatePart'
    BY <1>7, <1>t DEF RequestBlackout, RequestFailed, Leave, writerVars,
       Waits, Joins, NoRequest, CoordinatorPart, RequestPart, WriterPart, UpdatePart, OnlyCurrentWorkIsShown
  <2>9. OnlyCurrentWorkIsShown'
    BY <1>7, <1>t DEF RequestBlackout, RequestFailed, Leave, writerVars,
       Waits, Joins, NoRequest, CoordinatorPart, RequestPart, WriterPart, UpdatePart, OnlyCurrentWorkIsShown
  <2> QED BY <2>5, <2>6, <2>7, <2>8, <2>9 DEF BlackoutProtocol
<1>8. CASE BlackoutAcknowledged
  <2>5. CoordinatorPart'
    BY <1>8, <1>t DEF BlackoutAcknowledged, writerVars,
       Waits, Joins, NoRequest, CoordinatorPart, RequestPart, WriterPart, UpdatePart, OnlyCurrentWorkIsShown
  <2>6. RequestPart'
    BY <1>8, <1>t DEF BlackoutAcknowledged, writerVars,
       Waits, Joins, NoRequest, CoordinatorPart, RequestPart, WriterPart, UpdatePart, OnlyCurrentWorkIsShown
  <2>7. WriterPart'
    BY <1>8, <1>t DEF BlackoutAcknowledged, writerVars,
       Waits, Joins, NoRequest, CoordinatorPart, RequestPart, WriterPart, UpdatePart, OnlyCurrentWorkIsShown
  <2>8. UpdatePart'
    BY <1>8, <1>t DEF BlackoutAcknowledged, writerVars,
       Waits, Joins, NoRequest, CoordinatorPart, RequestPart, WriterPart, UpdatePart, OnlyCurrentWorkIsShown
  <2>9. OnlyCurrentWorkIsShown'
    BY <1>8, <1>t DEF BlackoutAcknowledged, writerVars,
       Waits, Joins, NoRequest, CoordinatorPart, RequestPart, WriterPart, UpdatePart, OnlyCurrentWorkIsShown
  <2> QED BY <2>5, <2>6, <2>7, <2>8, <2>9 DEF BlackoutProtocol
<1>9. CASE BlackoutRefused
  <2>5. CoordinatorPart'
    BY <1>9, <1>t DEF BlackoutRefused, RequestFailed, Leave, writerVars,
       Waits, Joins, NoRequest, CoordinatorPart, RequestPart, WriterPart, UpdatePart, OnlyCurrentWorkIsShown
  <2>6. RequestPart'
    BY <1>9, <1>t DEF BlackoutRefused, RequestFailed, Leave, writerVars,
       Waits, Joins, NoRequest, CoordinatorPart, RequestPart, WriterPart, UpdatePart, OnlyCurrentWorkIsShown
  <2>7. WriterPart'
    BY <1>9, <1>t DEF BlackoutRefused, RequestFailed, Leave, writerVars,
       Waits, Joins, NoRequest, CoordinatorPart, RequestPart, WriterPart, UpdatePart, OnlyCurrentWorkIsShown
  <2>8. UpdatePart'
    BY <1>9, <1>t DEF BlackoutRefused, RequestFailed, Leave, writerVars,
       Waits, Joins, NoRequest, CoordinatorPart, RequestPart, WriterPart, UpdatePart, OnlyCurrentWorkIsShown
  <2>9. OnlyCurrentWorkIsShown'
    BY <1>9, <1>t DEF BlackoutRefused, RequestFailed, Leave, writerVars,
       Waits, Joins, NoRequest, CoordinatorPart, RequestPart, WriterPart, UpdatePart, OnlyCurrentWorkIsShown
  <2> QED BY <2>5, <2>6, <2>7, <2>8, <2>9 DEF BlackoutProtocol
<1>10. CASE BeginTeardown
  <2>5. CoordinatorPart'
    BY <1>10, <1>t DEF BeginTeardown, writerVars,
       Waits, Joins, NoRequest, CoordinatorPart, RequestPart, WriterPart, UpdatePart, OnlyCurrentWorkIsShown
  <2>6. RequestPart'
    BY <1>10, <1>t DEF BeginTeardown, writerVars,
       Waits, Joins, NoRequest, CoordinatorPart, RequestPart, WriterPart, UpdatePart, OnlyCurrentWorkIsShown
  <2>7. WriterPart'
    BY <1>10, <1>t DEF BeginTeardown, writerVars,
       Waits, Joins, NoRequest, CoordinatorPart, RequestPart, WriterPart, UpdatePart, OnlyCurrentWorkIsShown
  <2>8. UpdatePart'
    BY <1>10, <1>t DEF BeginTeardown, writerVars,
       Waits, Joins, NoRequest, CoordinatorPart, RequestPart, WriterPart, UpdatePart, OnlyCurrentWorkIsShown
  <2>9. OnlyCurrentWorkIsShown'
    BY <1>10, <1>t DEF BeginTeardown, writerVars,
       Waits, Joins, NoRequest, CoordinatorPart, RequestPart, WriterPart, UpdatePart, OnlyCurrentWorkIsShown
  <2> QED BY <2>5, <2>6, <2>7, <2>8, <2>9 DEF BlackoutProtocol
<1>11. CASE JoinCapture
  <2>5. CoordinatorPart'
    BY <1>11, <1>t DEF JoinCapture, WithoutTx, Slots, HasItem, writerVars,
       Waits, Joins, NoRequest, CoordinatorPart, RequestPart, WriterPart, UpdatePart, OnlyCurrentWorkIsShown
  <2>6. RequestPart'
    BY <1>11, <1>t DEF JoinCapture, WithoutTx, Slots, HasItem, writerVars,
       Waits, Joins, NoRequest, CoordinatorPart, RequestPart, WriterPart, UpdatePart, OnlyCurrentWorkIsShown
  <2>7. WriterPart'
    BY <1>11, <1>t DEF JoinCapture, WithoutTx, Slots, HasItem, writerVars,
       Waits, Joins, NoRequest, CoordinatorPart, RequestPart, WriterPart, UpdatePart, OnlyCurrentWorkIsShown
  <2>8. UpdatePart'
    BY <1>11, <1>t DEF JoinCapture, WithoutTx, Slots, HasItem, writerVars,
       Waits, Joins, NoRequest, CoordinatorPart, RequestPart, WriterPart, UpdatePart, OnlyCurrentWorkIsShown
  <2>9. OnlyCurrentWorkIsShown'
    BY <1>11, <1>t DEF JoinCapture, WithoutTx, Slots, HasItem, writerVars,
       Waits, Joins, NoRequest, CoordinatorPart, RequestPart, WriterPart, UpdatePart, OnlyCurrentWorkIsShown
  <2> QED BY <2>5, <2>6, <2>7, <2>8, <2>9 DEF BlackoutProtocol
<1>12. CASE JoinWriter
  <2>5. CoordinatorPart'
    BY <1>12, <1>t DEF JoinWriter, sharedVars, captureVars, writerVars,
       Waits, Joins, NoRequest, CoordinatorPart, RequestPart, WriterPart, UpdatePart, OnlyCurrentWorkIsShown
  <2>6. RequestPart'
    BY <1>12, <1>t DEF JoinWriter, sharedVars, captureVars, writerVars,
       Waits, Joins, NoRequest, CoordinatorPart, RequestPart, WriterPart, UpdatePart, OnlyCurrentWorkIsShown
  <2>7. WriterPart'
    BY <1>12, <1>t DEF JoinWriter, sharedVars, captureVars, writerVars,
       Waits, Joins, NoRequest, CoordinatorPart, RequestPart, WriterPart, UpdatePart, OnlyCurrentWorkIsShown
  <2>8. UpdatePart'
    BY <1>12, <1>t DEF JoinWriter, sharedVars, captureVars, writerVars,
       Waits, Joins, NoRequest, CoordinatorPart, RequestPart, WriterPart, UpdatePart, OnlyCurrentWorkIsShown
  <2>9. OnlyCurrentWorkIsShown'
    BY <1>12, <1>t DEF JoinWriter, sharedVars, captureVars, writerVars,
       Waits, Joins, NoRequest, CoordinatorPart, RequestPart, WriterPart, UpdatePart, OnlyCurrentWorkIsShown
  <2> QED BY <2>5, <2>6, <2>7, <2>8, <2>9 DEF BlackoutProtocol
<1> QED
  BY <1>1, <1>2, <1>3, <1>4, <1>5, <1>6, <1>7, <1>8, <1>9, <1>10, <1>11, <1>12
  DEF CoordinatorSteps

(* The writer, with every way a write can end.                                *)
LEMMA WriterProtocol ==
    ASSUME TypeOK, BlackoutProtocol, WriterSteps \/ SinkSteps
    PROVE  BlackoutProtocol'
<1>t. /\ CoordinatorPart /\ RequestPart /\ WriterPart /\ UpdatePart
      /\ OnlyCurrentWorkIsShown
      /\ generation \in Nat /\ updates \in Slots /\ updates.val.gen \in Nat
      /\ safety \in Nat /\ pendingSafety \in Nat /\ spc \in CoordinatorPoints
      /\ w \in WriterState /\ wpc \in {"loop", "write", "blackout", "done"}
      /\ Odd(generation) <=> ~Even(generation)
      /\ Even(generation) => ~Even(generation + 1)
      /\ Odd(generation) => Even(generation + 1)
  <2>1. /\ generation \in Nat /\ updates \in Slots
        /\ safety \in Nat /\ pendingSafety \in Nat /\ spc \in CoordinatorPoints
        /\ w \in WriterState /\ wpc \in {"loop", "write", "blackout", "done"}
    BY DEF TypeOK, SharedType, WriterType, CoordinatorType
  <2>2. updates.val.gen \in Nat
    BY <2>1 DEF Slots, Frame, NoFrame
  <2>3. /\ Even(generation) => ~Even(generation + 1)
        /\ Odd(generation) => Even(generation + 1)
    BY <2>1 DEF Even, Odd
  <2> QED
    BY <2>1, <2>2, <2>3, EvenOrOdd DEF BlackoutProtocol
<1>u. /\ Taken(updates).val = NoFrame /\ Even(NoFrame.gen) /\ NoFrame.gen = 0
      /\ ~HasItem(Taken(updates))
  BY <1>t DEF Taken, Slots, NoFrame, Even, HasItem
(* Once the engine is being torn down, an update still queued is refused.     *)
<1>j. ASSUME spc \in Joins, ~teardownFault, HasItem(updates),
             NEW s \in WriterState, s.accepted = w.accepted
      PROVE  AcceptUpdate(s, updates.val) = s
  BY <1>j, <1>t DEF AcceptUpdate, Rejects, UpdatePart, WriterPart
<1>1. CASE WakeSafety
  <2>5. CoordinatorPart'
    BY <1>1, <1>t DEF WakeSafety, TakeSafety, SafetyReady, SafetyTxGone, AtWake, coordVars,
       Waits, Joins, NoRequest, CoordinatorPart, RequestPart, WriterPart, UpdatePart, OnlyCurrentWorkIsShown
  <2>6. RequestPart'
    BY <1>1, <1>t DEF WakeSafety, TakeSafety, SafetyReady, SafetyTxGone, AtWake, coordVars,
       Waits, Joins, NoRequest, CoordinatorPart, RequestPart, WriterPart, UpdatePart, OnlyCurrentWorkIsShown
  <2>7. WriterPart'
    BY <1>1, <1>t DEF WakeSafety, TakeSafety, SafetyReady, SafetyTxGone, AtWake, coordVars,
       Waits, Joins, NoRequest, CoordinatorPart, RequestPart, WriterPart, UpdatePart, OnlyCurrentWorkIsShown
  <2>8. UpdatePart'
    BY <1>1, <1>t DEF WakeSafety, TakeSafety, SafetyReady, SafetyTxGone, AtWake, coordVars,
       Waits, Joins, NoRequest, CoordinatorPart, RequestPart, WriterPart, UpdatePart, OnlyCurrentWorkIsShown
  <2>9. OnlyCurrentWorkIsShown'
    BY <1>1, <1>t DEF WakeSafety, TakeSafety, SafetyReady, SafetyTxGone, AtWake, coordVars,
       Waits, Joins, NoRequest, CoordinatorPart, RequestPart, WriterPart, UpdatePart, OnlyCurrentWorkIsShown
  <2> QED BY <2>5, <2>6, <2>7, <2>8, <2>9 DEF BlackoutProtocol
<1>2. CASE WakeDeadline
  <2>5. CoordinatorPart'
    BY <1>2, <1>t DEF WakeDeadline, AtWake, sharedVars, coordVars,
       Waits, Joins, NoRequest, CoordinatorPart, RequestPart, WriterPart, UpdatePart, OnlyCurrentWorkIsShown
  <2>6. RequestPart'
    BY <1>2, <1>t DEF WakeDeadline, AtWake, sharedVars, coordVars,
       Waits, Joins, NoRequest, CoordinatorPart, RequestPart, WriterPart, UpdatePart, OnlyCurrentWorkIsShown
  <2>7. WriterPart'
    BY <1>2, <1>t DEF WakeDeadline, AtWake, sharedVars, coordVars,
       Waits, Joins, NoRequest, CoordinatorPart, RequestPart, WriterPart, UpdatePart, OnlyCurrentWorkIsShown
  <2>8. UpdatePart'
    BY <1>2, <1>t DEF WakeDeadline, AtWake, sharedVars, coordVars,
       Waits, Joins, NoRequest, CoordinatorPart, RequestPart, WriterPart, UpdatePart, OnlyCurrentWorkIsShown
  <2>9. OnlyCurrentWorkIsShown'
    BY <1>2, <1>t DEF WakeDeadline, AtWake, sharedVars, coordVars,
       Waits, Joins, NoRequest, CoordinatorPart, RequestPart, WriterPart, UpdatePart, OnlyCurrentWorkIsShown
  <2> QED BY <2>5, <2>6, <2>7, <2>8, <2>9 DEF BlackoutProtocol
<1>3. CASE WakeUpdate
  <2>5. CoordinatorPart'
    BY <1>3, <1>t DEF WakeUpdate, AtWake, AcceptUpdate, Accept, Rejects, WriterState, Slots, Taken, HasItem, coordVars,
       Waits, Joins, NoRequest, CoordinatorPart, RequestPart, WriterPart, UpdatePart, OnlyCurrentWorkIsShown
  <2>6. RequestPart'
    BY <1>3, <1>t DEF WakeUpdate, AtWake, AcceptUpdate, Accept, Rejects, WriterState, Slots, Taken, HasItem, coordVars,
       Waits, Joins, NoRequest, CoordinatorPart, RequestPart, WriterPart, UpdatePart, OnlyCurrentWorkIsShown
  <2>7. WriterPart'
    BY <1>3, <1>t DEF WakeUpdate, AtWake, AcceptUpdate, Accept, Rejects, WriterState, Slots, Taken, HasItem, coordVars,
       Waits, Joins, NoRequest, CoordinatorPart, RequestPart, WriterPart, UpdatePart, OnlyCurrentWorkIsShown
  <2>8. UpdatePart'
    <3>1. /\ updates' \in {updates, Taken(updates)}
          /\ UNCHANGED <<spc, teardownFault, generation>>
      BY <1>3 DEF WakeUpdate, coordVars
    <3>2. Even(updates'.val.gen) /\ updates'.val.gen <= generation'
      BY <3>1, <1>t, <1>u DEF UpdatePart
    <3>3. ASSUME spc \in Joins, ~teardownFault
          PROVE  light' = NoFrame /\ w'.current = NoFrame
      BY <1>3, <3>3, <1>j, <1>t DEF WakeUpdate, AtWake, UpdatePart
    <3>4. (spc \in Joins /\ ~teardownFault) =>
             (HasItem(updates)' => updates'.val.gen # generation')
      BY <3>1, <1>t, <1>u DEF UpdatePart, HasItem
    <3> QED BY <3>1, <3>2, <3>3, <3>4, <1>t DEF UpdatePart
  <2>9. OnlyCurrentWorkIsShown'
    BY <1>3, <1>t DEF WakeUpdate, AtWake, AcceptUpdate, Accept, Rejects, WriterState, Slots, Taken, HasItem, coordVars,
       Waits, Joins, NoRequest, CoordinatorPart, RequestPart, WriterPart, UpdatePart, OnlyCurrentWorkIsShown
  <2> QED BY <2>5, <2>6, <2>7, <2>8, <2>9 DEF BlackoutProtocol
<1>4. CASE WakeUpdatesEnded
  <2>5. CoordinatorPart'
    BY <1>4, <1>t DEF WakeUpdatesEnded, AtWake, sharedVars, coordVars,
       Waits, Joins, NoRequest, CoordinatorPart, RequestPart, WriterPart, UpdatePart, OnlyCurrentWorkIsShown
  <2>6. RequestPart'
    BY <1>4, <1>t DEF WakeUpdatesEnded, AtWake, sharedVars, coordVars,
       Waits, Joins, NoRequest, CoordinatorPart, RequestPart, WriterPart, UpdatePart, OnlyCurrentWorkIsShown
  <2>7. WriterPart'
    BY <1>4, <1>t DEF WakeUpdatesEnded, AtWake, sharedVars, coordVars,
       Waits, Joins, NoRequest, CoordinatorPart, RequestPart, WriterPart, UpdatePart, OnlyCurrentWorkIsShown
  <2>8. UpdatePart'
    BY <1>4, <1>t DEF WakeUpdatesEnded, AtWake, sharedVars, coordVars,
       Waits, Joins, NoRequest, CoordinatorPart, RequestPart, WriterPart, UpdatePart, OnlyCurrentWorkIsShown
  <2>9. OnlyCurrentWorkIsShown'
    BY <1>4, <1>t DEF WakeUpdatesEnded, AtWake, sharedVars, coordVars,
       Waits, Joins, NoRequest, CoordinatorPart, RequestPart, WriterPart, UpdatePart, OnlyCurrentWorkIsShown
  <2> QED BY <2>5, <2>6, <2>7, <2>8, <2>9 DEF BlackoutProtocol
<1>5. CASE WritePreempted
  <2>5. CoordinatorPart'
    BY <1>5, <1>t DEF WritePreempted, TakeSafety, SafetyReady, SafetyTxGone, coordVars,
       Waits, Joins, NoRequest, CoordinatorPart, RequestPart, WriterPart, UpdatePart, OnlyCurrentWorkIsShown
  <2>6. RequestPart'
    BY <1>5, <1>t DEF WritePreempted, TakeSafety, SafetyReady, SafetyTxGone, coordVars,
       Waits, Joins, NoRequest, CoordinatorPart, RequestPart, WriterPart, UpdatePart, OnlyCurrentWorkIsShown
  <2>7. WriterPart'
    BY <1>5, <1>t DEF WritePreempted, TakeSafety, SafetyReady, SafetyTxGone, coordVars,
       Waits, Joins, NoRequest, CoordinatorPart, RequestPart, WriterPart, UpdatePart, OnlyCurrentWorkIsShown
  <2>8. UpdatePart'
    BY <1>5, <1>t DEF WritePreempted, TakeSafety, SafetyReady, SafetyTxGone, coordVars,
       Waits, Joins, NoRequest, CoordinatorPart, RequestPart, WriterPart, UpdatePart, OnlyCurrentWorkIsShown
  <2>9. OnlyCurrentWorkIsShown'
    BY <1>5, <1>t DEF WritePreempted, TakeSafety, SafetyReady, SafetyTxGone, coordVars,
       Waits, Joins, NoRequest, CoordinatorPart, RequestPart, WriterPart, UpdatePart, OnlyCurrentWorkIsShown
  <2> QED BY <2>5, <2>6, <2>7, <2>8, <2>9 DEF BlackoutProtocol
<1>6. CASE BeginBlackout
  <2>5. CoordinatorPart'
    BY <1>6, <1>t DEF BeginBlackout, PrepareSafety, WriterState, sharedVars, coordVars,
       Waits, Joins, NoRequest, CoordinatorPart, RequestPart, WriterPart, UpdatePart, OnlyCurrentWorkIsShown
  <2>6. RequestPart'
    BY <1>6, <1>t DEF BeginBlackout, PrepareSafety, WriterState, sharedVars, coordVars,
       Waits, Joins, NoRequest, CoordinatorPart, RequestPart, WriterPart, UpdatePart, OnlyCurrentWorkIsShown
  <2>7. WriterPart'
    BY <1>6, <1>t DEF BeginBlackout, PrepareSafety, WriterState, sharedVars, coordVars,
       Waits, Joins, NoRequest, CoordinatorPart, RequestPart, WriterPart, UpdatePart, OnlyCurrentWorkIsShown
  <2>8. UpdatePart'
    BY <1>6, <1>t DEF BeginBlackout, PrepareSafety, WriterState, sharedVars, coordVars,
       Waits, Joins, NoRequest, CoordinatorPart, RequestPart, WriterPart, UpdatePart, OnlyCurrentWorkIsShown
  <2>9. OnlyCurrentWorkIsShown'
    BY <1>6, <1>t DEF BeginBlackout, PrepareSafety, WriterState, sharedVars, coordVars,
       Waits, Joins, NoRequest, CoordinatorPart, RequestPart, WriterPart, UpdatePart, OnlyCurrentWorkIsShown
  <2> QED BY <2>5, <2>6, <2>7, <2>8, <2>9 DEF BlackoutProtocol
<1>7. CASE BlackoutDone
  <2>5. CoordinatorPart'
    BY <1>7, <1>t DEF BlackoutDone, coordVars,
       Waits, Joins, NoRequest, CoordinatorPart, RequestPart, WriterPart, UpdatePart, OnlyCurrentWorkIsShown
  <2>6. RequestPart'
    BY <1>7, <1>t DEF BlackoutDone, coordVars,
       Waits, Joins, NoRequest, CoordinatorPart, RequestPart, WriterPart, UpdatePart, OnlyCurrentWorkIsShown
  <2>7. WriterPart'
    BY <1>7, <1>t DEF BlackoutDone, coordVars,
       Waits, Joins, NoRequest, CoordinatorPart, RequestPart, WriterPart, UpdatePart, OnlyCurrentWorkIsShown
  <2>8. UpdatePart'
    BY <1>7, <1>t DEF BlackoutDone, coordVars,
       Waits, Joins, NoRequest, CoordinatorPart, RequestPart, WriterPart, UpdatePart, OnlyCurrentWorkIsShown
  <2>9. OnlyCurrentWorkIsShown'
    BY <1>7, <1>t DEF BlackoutDone, coordVars,
       Waits, Joins, NoRequest, CoordinatorPart, RequestPart, WriterPart, UpdatePart, OnlyCurrentWorkIsShown
  <2> QED BY <2>5, <2>6, <2>7, <2>8, <2>9 DEF BlackoutProtocol
<1>8. CASE BlackoutFails
  <2>5. CoordinatorPart'
    BY <1>8, <1>t DEF BlackoutFails, WriterLeaves, WithoutRx, HasItem, Slots, coordVars,
       Waits, Joins, NoRequest, CoordinatorPart, RequestPart, WriterPart, UpdatePart, OnlyCurrentWorkIsShown
  <2>6. RequestPart'
    BY <1>8, <1>t DEF BlackoutFails, WriterLeaves, WithoutRx, HasItem, Slots, coordVars,
       Waits, Joins, NoRequest, CoordinatorPart, RequestPart, WriterPart, UpdatePart, OnlyCurrentWorkIsShown
  <2>7. WriterPart'
    BY <1>8, <1>t DEF BlackoutFails, WriterLeaves, WithoutRx, HasItem, Slots, coordVars,
       Waits, Joins, NoRequest, CoordinatorPart, RequestPart, WriterPart, UpdatePart, OnlyCurrentWorkIsShown
  <2>8. UpdatePart'
    BY <1>8, <1>t DEF BlackoutFails, WriterLeaves, WithoutRx, HasItem, Slots, coordVars,
       Waits, Joins, NoRequest, CoordinatorPart, RequestPart, WriterPart, UpdatePart, OnlyCurrentWorkIsShown
  <2>9. OnlyCurrentWorkIsShown'
    BY <1>8, <1>t DEF BlackoutFails, WriterLeaves, WithoutRx, HasItem, Slots, coordVars,
       Waits, Joins, NoRequest, CoordinatorPart, RequestPart, WriterPart, UpdatePart, OnlyCurrentWorkIsShown
  <2> QED BY <2>5, <2>6, <2>7, <2>8, <2>9 DEF BlackoutProtocol
<1>9. CASE WriterEnds
  <2>5. CoordinatorPart'
    BY <1>9, <1>t DEF WriterEnds, WriterLeaves, WithoutRx, HasItem, Slots, Runs, coordVars,
       Waits, Joins, NoRequest, CoordinatorPart, RequestPart, WriterPart, UpdatePart, OnlyCurrentWorkIsShown
  <2>6. RequestPart'
    BY <1>9, <1>t DEF WriterEnds, WriterLeaves, WithoutRx, HasItem, Slots, Runs, coordVars,
       Waits, Joins, NoRequest, CoordinatorPart, RequestPart, WriterPart, UpdatePart, OnlyCurrentWorkIsShown
  <2>7. WriterPart'
    BY <1>9, <1>t DEF WriterEnds, WriterLeaves, WithoutRx, HasItem, Slots, Runs, coordVars,
       Waits, Joins, NoRequest, CoordinatorPart, RequestPart, WriterPart, UpdatePart, OnlyCurrentWorkIsShown
  <2>8. UpdatePart'
    BY <1>9, <1>t DEF WriterEnds, WriterLeaves, WithoutRx, HasItem, Slots, Runs, coordVars,
       Waits, Joins, NoRequest, CoordinatorPart, RequestPart, WriterPart, UpdatePart, OnlyCurrentWorkIsShown
  <2>9. OnlyCurrentWorkIsShown'
    BY <1>9, <1>t DEF WriterEnds, WriterLeaves, WithoutRx, HasItem, Slots, Runs, coordVars,
       Waits, Joins, NoRequest, CoordinatorPart, RequestPart, WriterPart, UpdatePart, OnlyCurrentWorkIsShown
  <2> QED BY <2>5, <2>6, <2>7, <2>8, <2>9 DEF BlackoutProtocol
<1>10. ASSUME NEW final \in BOOLEAN, WriteDone(final)
       PROVE  BlackoutProtocol'
  <2>5. CoordinatorPart'
    BY <1>10, <1>t DEF WriteDone, AfterWrite, MarkDisplayed, AcceptUpdate, Accept, Rejects, WriterState, Slots, Taken, HasItem, coordVars,
       Waits, Joins, NoRequest, CoordinatorPart, RequestPart, WriterPart, UpdatePart, OnlyCurrentWorkIsShown
  <2>6. RequestPart'
    BY <1>10, <1>t DEF WriteDone, AfterWrite, MarkDisplayed, AcceptUpdate, Accept, Rejects, WriterState, Slots, Taken, HasItem, coordVars,
       Waits, Joins, NoRequest, CoordinatorPart, RequestPart, WriterPart, UpdatePart, OnlyCurrentWorkIsShown
  <2>7. WriterPart'
    BY <1>10, <1>t DEF WriteDone, AfterWrite, MarkDisplayed, AcceptUpdate, Accept, Rejects, WriterState, Slots, Taken, HasItem, coordVars,
       Waits, Joins, NoRequest, CoordinatorPart, RequestPart, WriterPart, UpdatePart, OnlyCurrentWorkIsShown
  <2>8. UpdatePart'
    <3>1. /\ updates' \in {updates, Taken(updates)}
          /\ UNCHANGED <<spc, teardownFault, generation>>
      BY <1>10 DEF WriteDone, AfterWrite, coordVars
    <3>2. Even(updates'.val.gen) /\ updates'.val.gen <= generation'
      BY <3>1, <1>t, <1>u DEF UpdatePart
    <3>3. ASSUME spc \in Joins, ~teardownFault
          PROVE  light' = NoFrame /\ w'.current = NoFrame
      <4>1. MarkDisplayed(w) \in WriterState /\ MarkDisplayed(w).accepted = w.accepted
            /\ MarkDisplayed(w).current = NoFrame
        BY <3>3, <1>t, NoFrame \in Frame \cup {NoFrame}
        DEF MarkDisplayed, WriterState, UpdatePart
      <4>2. CASE HasItem(updates)
        <5>1. w' = AcceptUpdate(MarkDisplayed(w), updates.val)
          BY <1>10, <4>2 DEF WriteDone, AfterWrite
        <5> QED BY <5>1, <4>1, <4>2, <3>3, <1>j, <1>10, <1>t DEF WriteDone, UpdatePart
      <4>3. CASE ~HasItem(updates)
        BY <1>10, <3>3, <4>1, <4>3, <1>t DEF WriteDone, AfterWrite, UpdatePart
      <4> QED BY <4>2, <4>3
    <3>4. (spc \in Joins /\ ~teardownFault) =>
             (HasItem(updates)' => updates'.val.gen # generation')
      BY <3>1, <1>t, <1>u DEF UpdatePart, HasItem
    <3> QED BY <3>1, <3>2, <3>3, <3>4, <1>t DEF UpdatePart
  <2>9. OnlyCurrentWorkIsShown'
    BY <1>10, <1>t DEF WriteDone, AfterWrite, MarkDisplayed, AcceptUpdate, Accept, Rejects, WriterState, Slots, Taken, HasItem, coordVars,
       Waits, Joins, NoRequest, CoordinatorPart, RequestPart, WriterPart, UpdatePart, OnlyCurrentWorkIsShown
  <2> QED BY <2>5, <2>6, <2>7, <2>8, <2>9 DEF BlackoutProtocol
<1>11. CASE WriteExpired
  <2>5. CoordinatorPart'
    BY <1>11, <1>t DEF WriteExpired, AfterWrite, Cleared, AcceptUpdate, Accept, Rejects, WriterState, Slots, Taken, HasItem, coordVars,
       Waits, Joins, NoRequest, CoordinatorPart, RequestPart, WriterPart, UpdatePart, OnlyCurrentWorkIsShown
  <2>6. RequestPart'
    BY <1>11, <1>t DEF WriteExpired, AfterWrite, Cleared, AcceptUpdate, Accept, Rejects, WriterState, Slots, Taken, HasItem, coordVars,
       Waits, Joins, NoRequest, CoordinatorPart, RequestPart, WriterPart, UpdatePart, OnlyCurrentWorkIsShown
  <2>7. WriterPart'
    BY <1>11, <1>t DEF WriteExpired, AfterWrite, Cleared, AcceptUpdate, Accept, Rejects, WriterState, Slots, Taken, HasItem, coordVars,
       Waits, Joins, NoRequest, CoordinatorPart, RequestPart, WriterPart, UpdatePart, OnlyCurrentWorkIsShown
  <2>8. UpdatePart'
    <3>1. /\ updates' \in {updates, Taken(updates)}
          /\ UNCHANGED <<spc, teardownFault, generation>>
      BY <1>11 DEF WriteExpired, AfterWrite, coordVars
    <3>2. Even(updates'.val.gen) /\ updates'.val.gen <= generation'
      BY <3>1, <1>t, <1>u DEF UpdatePart
    <3>3. ASSUME spc \in Joins, ~teardownFault
          PROVE  light' = NoFrame /\ w'.current = NoFrame
      <4>1. Cleared(w) \in WriterState /\ Cleared(w).accepted = w.accepted
            /\ Cleared(w).current = NoFrame
        BY <3>3, <1>t, NoFrame \in Frame \cup {NoFrame}
        DEF Cleared, WriterState, UpdatePart
      <4>2. CASE HasItem(updates)
        <5>1. w' = AcceptUpdate(Cleared(w), updates.val)
          BY <1>11, <4>2 DEF WriteExpired, AfterWrite
        <5> QED BY <5>1, <4>1, <4>2, <3>3, <1>j, <1>11, <1>t DEF WriteExpired, UpdatePart
      <4>3. CASE ~HasItem(updates)
        BY <1>11, <3>3, <4>1, <4>3, <1>t DEF WriteExpired, AfterWrite, UpdatePart
      <4> QED BY <4>2, <4>3
    <3>4. (spc \in Joins /\ ~teardownFault) =>
             (HasItem(updates)' => updates'.val.gen # generation')
      BY <3>1, <1>t, <1>u DEF UpdatePart, HasItem
    <3> QED BY <3>1, <3>2, <3>3, <3>4, <1>t DEF UpdatePart
  <2>9. OnlyCurrentWorkIsShown'
    BY <1>11, <1>t DEF WriteExpired, AfterWrite, Cleared, AcceptUpdate, Accept, Rejects, WriterState, Slots, Taken, HasItem, coordVars,
       Waits, Joins, NoRequest, CoordinatorPart, RequestPart, WriterPart, UpdatePart, OnlyCurrentWorkIsShown
  <2> QED BY <2>5, <2>6, <2>7, <2>8, <2>9 DEF BlackoutProtocol
<1>12. CASE WriteGivenUp
  <2>5. CoordinatorPart'
    BY <1>12, <1>t DEF WriteGivenUp, Cleared, WriterState, coordVars,
       Waits, Joins, NoRequest, CoordinatorPart, RequestPart, WriterPart, UpdatePart, OnlyCurrentWorkIsShown
  <2>6. RequestPart'
    BY <1>12, <1>t DEF WriteGivenUp, Cleared, WriterState, coordVars,
       Waits, Joins, NoRequest, CoordinatorPart, RequestPart, WriterPart, UpdatePart, OnlyCurrentWorkIsShown
  <2>7. WriterPart'
    BY <1>12, <1>t DEF WriteGivenUp, Cleared, WriterState, coordVars,
       Waits, Joins, NoRequest, CoordinatorPart, RequestPart, WriterPart, UpdatePart, OnlyCurrentWorkIsShown
  <2>8. UpdatePart'
    BY <1>12, <1>t DEF WriteGivenUp, Cleared, WriterState, coordVars,
       Waits, Joins, NoRequest, CoordinatorPart, RequestPart, WriterPart, UpdatePart, OnlyCurrentWorkIsShown
  <2>9. OnlyCurrentWorkIsShown'
    BY <1>12, <1>t DEF WriteGivenUp, Cleared, WriterState, coordVars,
       Waits, Joins, NoRequest, CoordinatorPart, RequestPart, WriterPart, UpdatePart, OnlyCurrentWorkIsShown
  <2> QED BY <2>5, <2>6, <2>7, <2>8, <2>9 DEF BlackoutProtocol
<1>13. CASE WriteFails
  <2>5. CoordinatorPart'
    BY <1>13, <1>t DEF WriteFails, WriterLeaves, WithoutRx, HasItem, Slots, coordVars,
       Waits, Joins, NoRequest, CoordinatorPart, RequestPart, WriterPart, UpdatePart, OnlyCurrentWorkIsShown
  <2>6. RequestPart'
    BY <1>13, <1>t DEF WriteFails, WriterLeaves, WithoutRx, HasItem, Slots, coordVars,
       Waits, Joins, NoRequest, CoordinatorPart, RequestPart, WriterPart, UpdatePart, OnlyCurrentWorkIsShown
  <2>7. WriterPart'
    BY <1>13, <1>t DEF WriteFails, WriterLeaves, WithoutRx, HasItem, Slots, coordVars,
       Waits, Joins, NoRequest, CoordinatorPart, RequestPart, WriterPart, UpdatePart, OnlyCurrentWorkIsShown
  <2>8. UpdatePart'
    BY <1>13, <1>t DEF WriteFails, WriterLeaves, WithoutRx, HasItem, Slots, coordVars,
       Waits, Joins, NoRequest, CoordinatorPart, RequestPart, WriterPart, UpdatePart, OnlyCurrentWorkIsShown
  <2>9. OnlyCurrentWorkIsShown'
    BY <1>13, <1>t DEF WriteFails, WriterLeaves, WithoutRx, HasItem, Slots, coordVars,
       Waits, Joins, NoRequest, CoordinatorPart, RequestPart, WriterPart, UpdatePart, OnlyCurrentWorkIsShown
  <2> QED BY <2>5, <2>6, <2>7, <2>8, <2>9 DEF BlackoutProtocol
<1> QED
  BY <1>1, <1>2, <1>3, <1>4, <1>5, <1>6, <1>7, <1>8, <1>9, <1>10, <1>11, <1>12,
     <1>13 DEF WriterSteps, SinkSteps

-----------------------------------------------------------------------------
(* The theorems.                                                             *)

Inductive == TypeOK /\ BlackoutProtocol

(* Type correctness and the protocol are inductive together: the parity the   *)
(* types ask for is kept because requests are made at odd generations only.   *)
LEMMA InductiveStep ==
    ASSUME Inductive, [Next]_vars
    PROVE  Inductive'
<1> USE DEF Inductive
<1>1. CASE CaptureSteps \/ SourceSteps
  <2>1. UNCHANGED protocolVars
    BY <1>1 DEF CaptureSteps, SourceSteps, CaptureTag, CaptureSend,
       CaptureCancelled, CaptureShutdown, CaptureFrame, CaptureEnds,
       protocolVars, coordVars, writerVars, sharedVars
  <2> QED BY <1>1, <2>1, CaptureTypes, ProtocolStutter
<1>2. CASE CoordinatorSteps
  BY <1>2, CoordinatorTypes, CoordinatorProtocol DEF BlackoutProtocol
<1>3. CASE WriterSteps \/ SinkSteps
  BY <1>3, WriterStepTypes, WriterProtocol
<1>4. CASE Stop
  <2>1. UNCHANGED protocolVars /\ SharedType'
    BY <1>4 DEF Stop, protocolVars, coordVars, writerVars, TypeOK, SharedType
  <2>2. TypeOK'
    BY <1>4, <2>1, TypeStutter DEF Stop, TypeOK
  <2> QED BY <2>1, <2>2, ProtocolStutter
<1>5. CASE UNCHANGED vars
  <2>1. UNCHANGED protocolVars
    BY <1>5 DEF vars, protocolVars, coordVars, writerVars, sharedVars
  <2>2. TypeOK'
    BY <1>5, TypeStutter DEF vars, TypeOK
  <2> QED BY <2>1, <2>2, ProtocolStutter
<1> QED
  BY <1>1, <1>2, <1>3, <1>4, <1>5 DEF Next, Returned

(* The inductive invariant holds in every reachable state of the engine.     *)
LEMMA InductiveInvariant == Spec => []Inductive
<1>1. Init => Inductive
  BY InitTypes, InitProtocol DEF Inductive
<1>2. Inductive /\ [Next]_vars => Inductive'
  BY InductiveStep
<1> QED BY <1>1, <1>2, PTL DEF Spec

(* Every variable keeps its type, and every generation a blackout announces   *)
(* or the writer accepts is even, whatever the bounds.                        *)
THEOREM TypeCorrect == Spec => []TypeOK
<1>1. Inductive => TypeOK
  BY DEF Inductive
<1> QED BY <1>1, InductiveInvariant, PTL

(* A safety request is in one place at a time, from the queue to its answer,  *)
(* and an answer of Ok leaves a writer that holds nothing old.                *)
THEOREM ProtocolHolds == Spec => []BlackoutProtocol
<1>1. Inductive => BlackoutProtocol
  BY DEF Inductive
<1> QED BY <1>1, InductiveInvariant, PTL

(* Nothing captured, sampled or queued before an acknowledged blackout is     *)
(* shown after it.                                                            *)
THEOREM NoStaleLight == Spec => []OnlyCurrentWorkIsShown
<1>1. Inductive => OnlyCurrentWorkIsShown
  BY DEF Inductive, BlackoutProtocol
<1> QED BY <1>1, InductiveInvariant, PTL

(* Once the teardown blackout is acknowledged the lights are black for good.  *)
THEOREM StopsInTheDark == Spec => []DarkAfterTeardown
<1>1. Inductive => DarkAfterTeardown
  BY DEF Inductive, BlackoutProtocol, UpdatePart, DarkAfterTeardown, Joins
<1> QED BY <1>1, InductiveInvariant, PTL

(* The writer never reaches a select! with every branch disabled.             *)
THEOREM NoEmptySelect == Spec => []NeverAnEmptySelect
<1>1. Inductive => NeverAnEmptySelect
  BY DEF Inductive, BlackoutProtocol, WriterPart, NeverAnEmptySelect, AtWake, Runs
<1> QED BY <1>1, InductiveInvariant, PTL

-----------------------------------------------------------------------------
(* The statistics.                                                           *)

(* Every frame that is somewhere, was dropped, or was shown and displaced.   *)
Count == InFlight + Dropped + settled

(* Only a cancelled engine loses a frame uncounted; the coordinator holds a  *)
(* frame just while it samples, and the writer has one to write.             *)
PlacePart ==
    /\ ~cancel => frames.rx
    /\ spc \in {"leave", "finalRequest", "finalWait"} \cup Joins => cancel
    /\ spc = "sample" <=> item # NoFrame
    /\ wpc = "write" => w.current # NoFrame

CountPart == (~cancel => captured = Count) /\ Count <= captured

Accounted == Inductive /\ PlacePart /\ CountPart

LEMMA CountTypes ==
    ASSUME TypeOK
    PROVE  /\ captured \in Nat /\ replacements \in Nat /\ sampledDrops \in Nat
           /\ staleDrops \in Nat /\ settled \in Nat /\ InFlight \in Nat /\ Count \in Nat
           /\ cancel \in BOOLEAN
<1>1. \A b : One(b) \in Nat
  BY DEF One
<1>2. InFlight \in Nat
  BY <1>1 DEF InFlight
<1>3. /\ captured \in Nat /\ replacements \in Nat /\ sampledDrops \in Nat
      /\ staleDrops \in Nat /\ settled \in Nat /\ cancel \in BOOLEAN
  BY BoundsAssumption DEF TypeOK, SharedType, CaptureType, CoordinatorType, WriterType
<1> QED BY <1>2, <1>3 DEF Count, Dropped

LEMMA SumOfThree == \A a, b, c \in Nat : a + b + c \in Nat
  OBVIOUS

(* A step that loses no frame, or one of a cancelled engine that may.        *)
LEMMA Balanced ==
    ASSUME Accounted, TypeOK', cancel => cancel',
           \/ captured' + Count = captured + Count'
           \/ cancel' /\ captured' = captured /\ Count' <= Count
    PROVE  CountPart'
<1>1. captured \in Nat /\ Count \in Nat
  BY CountTypes DEF Accounted, Inductive
<1>2. captured' \in Nat /\ Dropped' \in Nat /\ settled' \in Nat /\ InFlight' \in Nat
  <2>1. \A b : One(b) \in Nat
    BY DEF One
  <2>2. InFlight' \in Nat
    BY <2>1 DEF InFlight
  <2>3. /\ captured' \in Nat /\ replacements' \in Nat /\ sampledDrops' \in Nat
        /\ staleDrops' \in Nat /\ settled' \in Nat
    BY BoundsAssumption DEF TypeOK, CaptureType, CoordinatorType, WriterType
  <2>4. Dropped' = replacements' + sampledDrops' + staleDrops'
    BY DEF Dropped
  <2>5. Dropped' \in Nat
    BY <2>3, <2>4, SumOfThree
  <2> QED BY <2>2, <2>3, <2>5
<1>3. Count' \in Nat
  <2>1. Count' = InFlight' + Dropped' + settled'
    BY DEF Count
  <2> QED BY <1>2, <2>1, SumOfThree
<1> QED BY <1>1, <1>2, <1>3 DEF Accounted, CountPart

(* A slot after each of its operations, as the count sees it.                *)
LEMMA SlotCounts ==
    ASSUME NEW s \in Slots
    PROVE  /\ \A f \in Frame : HasItem(Put(s, f)) /\ Put(s, f).rx = s.rx
           /\ ~HasItem(Taken(s)) /\ Taken(s).rx = s.rx
           /\ HasItem(WithoutTx(s)) <=> HasItem(s)
           /\ HasItem(WithoutRx(s)) <=> HasItem(s)
           /\ WithoutTx(s).rx = s.rx
           /\ HasItem(s) => s.val \in Frame
<1>1. NoFrame \notin Frame
  BY BoundsAssumption DEF NoFrame, Frame
<1> QED BY <1>1 DEF Slots, HasItem, Put, Taken, WithoutTx, WithoutRx

(* An update that the writer accepts takes the place of one that is counted  *)
(* as dropped if it was never shown, and as settled if it was.               *)
LEMMA AcceptCounts ==
    ASSUME NEW s \in WriterState, NEW u \in Frame
    PROVE  /\ DropsOnAccept(s, u) \in Nat /\ SettlesOnAccept(s, u) \in Nat
           /\ One(s.current # NoFrame) + 1 =
                  One(AcceptUpdate(s, u).current # NoFrame)
                      + DropsOnAccept(s, u) + SettlesOnAccept(s, u)
<1>1. u # NoFrame
  BY BoundsAssumption DEF NoFrame, Frame
<1>2. CASE Rejects(s, u)
  BY <1>2 DEF AcceptUpdate, DropsOnAccept, SettlesOnAccept, One
<1>3. CASE ~Rejects(s, u)
  <2>1. AcceptUpdate(s, u).current = u
    BY <1>3 DEF AcceptUpdate, Accept, WriterState
  <2>2. s.rendered \in BOOLEAN
    BY DEF WriterState
  <2> QED BY <1>1, <1>3, <2>1, <2>2 DEF DropsOnAccept, SettlesOnAccept, One, Waiting, Shown
<1> QED BY <1>2, <1>3

LEMMA DisplacedCounts ==
    ASSUME NEW s \in WriterState
    PROVE  One(s.current # NoFrame) = One(Waiting(s)) + One(Shown(s))
  BY DEF WriterState, Waiting, Shown, One

(* The capture task.                                                         *)
LEMMA AccountedCapture ==
    ASSUME Accounted, CaptureSteps \/ SourceSteps, TypeOK'
    PROVE  PlacePart' /\ CountPart'
<1>t. /\ frames \in Slots /\ held \in Frame \cup {NoFrame} /\ NoFrame \notin Frame
      /\ cpc \in {"tag", "send"} => held # NoFrame
      /\ cpc = "next" => held = NoFrame
      /\ captured \in Nat /\ replacements \in Nat /\ sampledDrops \in Nat
      /\ staleDrops \in Nat /\ settled \in Nat
  BY BoundsAssumption, CountTypes
     DEF Accounted, Inductive, TypeOK, SharedType, CaptureType, NoFrame, Frame
<1>u. \A b : One(b) \in Nat
  BY DEF One
<1>1. UNCHANGED <<item, updates, w, sampledDrops, staleDrops, settled, spc, wpc>>
      /\ frames'.rx = frames.rx /\ (cancel => cancel')
  <2>1. CASE CaptureFrame \/ CaptureTag \/ CaptureCancelled
    BY <2>1 DEF CaptureFrame, CaptureTag, CaptureCancelled, sharedVars, coordVars, writerVars
  <2>2. CASE CaptureSend
    <3>1. held \in Frame
      BY <1>t, <2>2 DEF CaptureSend
    <3>2. frames' = frames \/ frames' = Put(frames, held)
      BY <2>2 DEF CaptureSend
    <3> QED BY <1>t, <2>2, <3>1, <3>2, SlotCounts DEF CaptureSend, coordVars, writerVars
  <2>3. CASE (\E failed \in BOOLEAN : CaptureShutdown(failed))
             \/ \E failed \in BOOLEAN : CaptureEnds(failed)
    BY <1>t, <2>3, SlotCounts DEF CaptureShutdown, CaptureEnds, coordVars, writerVars
  <2> QED BY <2>1, <2>2, <2>3 DEF CaptureSteps, SourceSteps
<1>2. PlacePart'
  BY <1>1 DEF Accounted, PlacePart
<1>3. \/ captured' + Count = captured + Count'
      \/ cancel' /\ captured' = captured /\ Count' <= Count
  <2>1. CASE CaptureFrame
    <3>1. held = NoFrame /\ held' # NoFrame /\ captured' = captured + 1
          /\ UNCHANGED <<frames, replacements>>
      BY <1>t, <2>1 DEF CaptureFrame, sharedVars, NoFrame
    <3> QED BY <1>1, <1>t, <1>u, <3>1 DEF Count, InFlight, Dropped, One
  <2>2. CASE CaptureTag
    <3>1. held # NoFrame /\ held' # NoFrame /\ UNCHANGED <<frames, replacements, captured>>
      BY <1>t, <2>2 DEF CaptureTag, sharedVars, TypeOK, CaptureType
    <3> QED BY <1>1, <1>t, <1>u, <3>1 DEF Count, InFlight, Dropped
  <2>3. CASE CaptureSend
    <3>1. held # NoFrame /\ held \in Frame /\ held' = NoFrame /\ captured' = captured /\ cancel' = cancel
      BY <1>t, <2>3 DEF CaptureSend
    <3>2. CASE frames.rx
      <4>1. HasItem(frames') /\ replacements' = replacements + One(HasItem(frames))
        BY <1>t, <2>3, <3>1, <3>2, SlotCounts DEF CaptureSend, One
      <4> QED BY <1>1, <1>t, <1>u, <3>1, <4>1 DEF Count, InFlight, Dropped, One
    <3>3. CASE ~frames.rx
      <4>1. UNCHANGED <<frames, replacements>> /\ cancel
        BY <2>3, <3>3 DEF CaptureSend, Accounted, PlacePart
      <4> QED BY <1>1, <1>t, <1>u, <3>1, <4>1 DEF Count, InFlight, Dropped, One
    <3> QED BY <3>2, <3>3
  <2>4. CASE CaptureCancelled \/ (\E failed \in BOOLEAN : CaptureShutdown(failed))
             \/ \E failed \in BOOLEAN : CaptureEnds(failed)
    <3>1. UNCHANGED <<held, replacements, captured>> /\ (HasItem(frames') <=> HasItem(frames))
      BY <1>t, <2>4, SlotCounts DEF CaptureCancelled, CaptureShutdown, CaptureEnds, sharedVars
    <3> QED BY <1>1, <1>t, <1>u, <3>1 DEF Count, InFlight, Dropped, One
  <2> QED BY <2>1, <2>2, <2>3, <2>4 DEF CaptureSteps, SourceSteps
<1> QED BY <1>1, <1>2, <1>3, Balanced

(* The coordinator.                                                          *)
LEMMA AccountedCoordinator ==
    ASSUME Accounted, CoordinatorSteps, TypeOK'
    PROVE  PlacePart' /\ CountPart'
<1>t. /\ frames \in Slots /\ updates \in Slots /\ item \in Frame \cup {NoFrame}
      /\ NoFrame \notin Frame
      /\ captured \in Nat /\ replacements \in Nat /\ sampledDrops \in Nat
      /\ staleDrops \in Nat /\ settled \in Nat
  BY BoundsAssumption, CountTypes
     DEF Accounted, Inductive, TypeOK, SharedType, CoordinatorType, NoFrame, Frame
<1>u. \A b : One(b) \in Nat
  BY DEF One
<1>1. UNCHANGED <<held, captured, replacements, w, staleDrops, settled, wpc>>
      /\ (cancel => cancel')
  BY DEF CoordinatorSteps, CoordinatorCancelled, StallDetected, FramesEnded,
     ReceiveFrame, SamplingFails, SamplingDone, RequestBlackout, RequestFailed,
     BlackoutAcknowledged, BlackoutRefused, BeginTeardown, JoinCapture, JoinWriter,
     Leave, sharedVars, captureVars, writerVars
<1>2. CASE ReceiveFrame
  <2>1. /\ item = NoFrame /\ HasItem(frames) /\ frames.val \in Frame
        /\ ~HasItem(frames') /\ frames'.rx = frames.rx
        /\ UNCHANGED <<updates, cancel>>
    BY <1>t, <1>2, SlotCounts DEF ReceiveFrame, Accounted, PlacePart
  <2>2. CASE Current(frames.val)
    <3>1. item' # NoFrame /\ spc' = "sample" /\ sampledDrops' = sampledDrops
      BY <1>t, <1>2, <2>1, <2>2 DEF ReceiveFrame
    <3>2. captured' + Count = captured + Count'
      BY <1>1, <1>t, <1>u, <2>1, <3>1 DEF Count, InFlight, Dropped, One
    <3>3. PlacePart'
      BY <1>1, <2>1, <3>1 DEF Accounted, PlacePart, Joins
    <3> QED BY <1>1, <3>2, <3>3, Balanced
  <2>3. CASE ~Current(frames.val)
    <3>1. sampledDrops' = sampledDrops + 1 /\ UNCHANGED <<item, spc>>
      BY <1>2, <2>3 DEF ReceiveFrame
    <3>2. captured' + Count = captured + Count'
      BY <1>1, <1>t, <1>u, <2>1, <3>1 DEF Count, InFlight, Dropped, One
    <3>3. PlacePart'
      BY <1>1, <2>1, <3>1 DEF Accounted, PlacePart
    <3> QED BY <1>1, <3>2, <3>3, Balanced
  <2> QED BY <2>2, <2>3
<1>3. CASE SamplingDone
  <2>1. spc = "sample" /\ item # NoFrame /\ item \in Frame /\ frames' = frames /\ ~cancel
    BY <1>t, <1>3 DEF SamplingDone, Accounted, PlacePart
  <2>2. CASE ~Current(item)
    <3>1. /\ sampledDrops' = sampledDrops + 1 /\ item' = NoFrame /\ spc' = "select"
          /\ UNCHANGED <<updates, cancel>>
      BY <1>3, <2>2 DEF SamplingDone
    <3>2. captured' + Count = captured + Count'
      BY <1>1, <1>t, <1>u, <2>1, <3>1 DEF Count, InFlight, Dropped, One
    <3>3. PlacePart'
      BY <1>1, <2>1, <3>1 DEF Accounted, PlacePart, Joins
    <3> QED BY <1>1, <3>2, <3>3, Balanced
  <2>3. CASE Current(item) /\ updates.rx
    <3>1. /\ sampledDrops' = sampledDrops + One(HasItem(updates)) /\ item' = NoFrame
          /\ spc' = "select" /\ HasItem(updates') /\ cancel' = cancel
      BY <1>t, <1>3, <2>1, <2>3, SlotCounts DEF SamplingDone, One
    <3>2. captured' + Count = captured + Count'
      BY <1>1, <1>t, <1>u, <2>1, <3>1 DEF Count, InFlight, Dropped, One
    <3>3. PlacePart'
      BY <1>1, <2>1, <3>1 DEF Accounted, PlacePart, Joins
    <3> QED BY <1>1, <3>2, <3>3, Balanced
  <2>4. CASE Current(item) /\ ~updates.rx
    <3>1. /\ item' = NoFrame /\ spc' = "leave" /\ cancel'
          /\ UNCHANGED <<updates, sampledDrops>>
      BY <1>3, <2>4 DEF SamplingDone, Leave
    <3>2. captured' = captured /\ Count' <= Count
      BY <1>1, <1>t, <1>u, <2>1, <3>1 DEF Count, InFlight, Dropped, One
    <3>3. PlacePart'
      BY <1>1, <2>1, <3>1 DEF Accounted, PlacePart, Joins
    <3> QED BY <1>1, <3>1, <3>2, <3>3, Balanced
  <2> QED BY <2>2, <2>3, <2>4
<1>4. CASE spc' = "leave" /\ cancel' /\ item' = NoFrame
           /\ UNCHANGED <<frames, updates, sampledDrops>>
  <2>1. captured' = captured /\ Count' <= Count
    BY <1>1, <1>4, <1>t, <1>u DEF Count, InFlight, Dropped, One
  <2>2. PlacePart'
    BY <1>1, <1>4 DEF Accounted, PlacePart, Joins
  <2> QED BY <1>1, <1>4, <2>1, <2>2, Balanced
<1>5. CASE /\ UNCHANGED <<item, sampledDrops, cancel>> /\ spc # "sample"
           /\ spc' # "sample" /\ (spc' \in {"leave", "finalRequest", "finalWait"} \cup Joins => cancel)
           /\ (HasItem(frames') <=> HasItem(frames)) /\ (HasItem(updates') <=> HasItem(updates))
           /\ (cancel \/ frames' = frames)
  <2>1. captured' + Count = captured + Count'
    BY <1>1, <1>5, <1>t, <1>u DEF Count, InFlight, Dropped, One
  <2>2. PlacePart'
    BY <1>1, <1>5 DEF Accounted, PlacePart, Joins
  <2> QED BY <1>1, <2>1, <2>2, Balanced
<1>6. CASE CoordinatorCancelled \/ FramesEnded \/ SamplingFails
  BY <1>4, <1>6 DEF CoordinatorCancelled, FramesEnded, SamplingFails, Leave
<1>7. CASE RequestBlackout \/ BlackoutRefused
  <2>1. CASE spc' = "leave"
    BY <1>4, <1>7, <2>1 DEF RequestBlackout, BlackoutRefused, RequestFailed, Leave
  <2>2. CASE spc' # "leave"
    BY <1>5, <1>7, <2>2
       DEF RequestBlackout, BlackoutRefused, RequestFailed, Leave, Accounted, PlacePart, Joins
  <2> QED BY <2>1, <2>2
<1>8. CASE StallDetected \/ BlackoutAcknowledged \/ JoinWriter
  BY <1>5, <1>8 DEF StallDetected, BlackoutAcknowledged, JoinWriter, Accounted, PlacePart,
     Joins, sharedVars
<1>9. CASE BeginTeardown \/ JoinCapture
  <2>1. (HasItem(frames') <=> HasItem(frames)) /\ (HasItem(updates') <=> HasItem(updates))
    BY <1>t, <1>9, SlotCounts DEF BeginTeardown, JoinCapture
  <2> QED BY <1>5, <1>9, <2>1 DEF BeginTeardown, JoinCapture, Accounted, PlacePart, Joins
<1> QED BY <1>2, <1>3, <1>6, <1>7, <1>8, <1>9 DEF CoordinatorSteps

(* A write that returned, whatever it left in the writer's state.            *)
LEMMA AfterWriteCounts ==
    ASSUME TypeOK, NEW s \in WriterState, NEW stale \in Nat, NEW final \in BOOLEAN,
           AfterWrite(s, stale, final)
    PROVE  One(s.current # NoFrame) + One(HasItem(updates)) + stale + settled =
               One(w'.current # NoFrame) + One(HasItem(updates')) + staleDrops' + settled'
<1>t. settled \in Nat /\ updates \in Slots /\ \A b : One(b) \in Nat
  BY CountTypes DEF TypeOK, SharedType, One
<1>1. CASE HasItem(updates)
  <2>1. updates.val \in Frame /\ ~HasItem(updates')
    BY <1>t, <1>1, SlotCounts DEF AfterWrite
  <2>2. /\ w' = AcceptUpdate(s, updates.val)
        /\ staleDrops' = stale + DropsOnAccept(s, updates.val)
        /\ settled' = settled + SettlesOnAccept(s, updates.val)
    BY <1>1 DEF AfterWrite
  <2>3. /\ DropsOnAccept(s, updates.val) \in Nat /\ SettlesOnAccept(s, updates.val) \in Nat
        /\ One(s.current # NoFrame) + 1 =
              One(w'.current # NoFrame)
                  + DropsOnAccept(s, updates.val) + SettlesOnAccept(s, updates.val)
    BY <2>1, <2>2, AcceptCounts
  <2>4. One(HasItem(updates)) = 1 /\ One(HasItem(updates')) = 0
    BY <1>1, <2>1 DEF One
  <2> QED BY <1>t, <2>2, <2>3, <2>4
<1>2. CASE ~HasItem(updates)
  <2>1. w'.current = s.current
    BY <1>2 DEF AfterWrite, WriterState
  <2>2. staleDrops' = stale /\ UNCHANGED <<updates, settled>>
    BY <1>2 DEF AfterWrite
  <2> QED BY <2>1, <2>2
<1> QED BY <1>1, <1>2

(* The writer.                                                               *)
LEMMA AccountedWriter ==
    ASSUME Accounted, WriterSteps \/ SinkSteps, TypeOK'
    PROVE  PlacePart' /\ CountPart'
<1>t. /\ updates \in Slots /\ w \in WriterState
      /\ captured \in Nat /\ replacements \in Nat /\ sampledDrops \in Nat
      /\ staleDrops \in Nat /\ settled \in Nat
  BY CountTypes DEF Accounted, Inductive, TypeOK, SharedType, WriterType
<1>u. \A b : One(b) \in Nat
  BY DEF One
<1>1. UNCHANGED <<held, captured, replacements, frames, spc, item, sampledDrops>>
      /\ (cancel => cancel')
  <2>1. CASE WakeSafety \/ WakeDeadline \/ WakeUpdate \/ WakeUpdatesEnded \/ WritePreempted
    BY <2>1 DEF WakeSafety, WakeDeadline, WakeUpdate, WakeUpdatesEnded, WritePreempted,
       sharedVars, captureVars, coordVars
  <2>2. CASE BeginBlackout \/ BlackoutDone
    BY <2>2 DEF BeginBlackout, BlackoutDone, sharedVars, captureVars, coordVars
  <2>3. CASE BlackoutFails \/ WriterEnds \/ WriteFails
    BY <2>3 DEF BlackoutFails, WriterEnds, WriteFails, WriterLeaves, captureVars, coordVars
  <2>4. ASSUME NEW final \in BOOLEAN, WriteDone(final)
        PROVE  /\ UNCHANGED <<held, captured, replacements, frames, spc, item, sampledDrops>>
               /\ (cancel => cancel')
    BY <2>4 DEF WriteDone, captureVars, coordVars
  <2>5. CASE WriteExpired
    BY <2>5, Zenon DEF WriteExpired, captureVars, coordVars
  <2>6. CASE WriteGivenUp
    BY <2>6 DEF WriteGivenUp, captureVars, coordVars
  <2> QED BY <2>1, <2>2, <2>3, <2>4, <2>5, <2>6 DEF WriterSteps, SinkSteps
<1>2. ASSUME One(w.current # NoFrame) + One(HasItem(updates)) + staleDrops + settled =
                 One(w'.current # NoFrame) + One(HasItem(updates')) + staleDrops' + settled',
             wpc' = "write" => w'.current # NoFrame,
             staleDrops' \in Nat, settled' \in Nat
      PROVE  PlacePart' /\ CountPart'
  <2>1. captured' + Count = captured + Count'
    BY <1>1, <1>2, <1>t, <1>u DEF Count, InFlight, Dropped
  <2>2. PlacePart'
    BY <1>1, <1>2 DEF Accounted, PlacePart
  <2> QED BY <1>1, <2>1, <2>2, Balanced
<1>s. staleDrops' \in Nat /\ settled' \in Nat
  BY DEF TypeOK, WriterType
<1>3. CASE WakeUpdate
  <2>1. updates.val \in Frame /\ HasItem(updates) /\ ~HasItem(updates')
    BY <1>t, <1>3, SlotCounts DEF WakeUpdate
  <2>2. /\ w' = AcceptUpdate(w, updates.val) /\ wpc' # "write"
        /\ staleDrops' = staleDrops + DropsOnAccept(w, updates.val)
        /\ settled' = settled + SettlesOnAccept(w, updates.val)
    BY <1>3 DEF WakeUpdate, AtWake
  <2>3. /\ DropsOnAccept(w, updates.val) \in Nat /\ SettlesOnAccept(w, updates.val) \in Nat
        /\ One(w.current # NoFrame) + 1 =
              One(w'.current # NoFrame)
                  + DropsOnAccept(w, updates.val) + SettlesOnAccept(w, updates.val)
    BY <1>t, <2>1, <2>2, AcceptCounts
  <2>4. One(HasItem(updates)) = 1 /\ One(HasItem(updates')) = 0
    BY <2>1 DEF One
  <2>5. One(w.current # NoFrame) + One(HasItem(updates)) + staleDrops + settled =
            One(w'.current # NoFrame) + One(HasItem(updates')) + staleDrops' + settled'
    BY <1>t, <1>u, <2>2, <2>3, <2>4
  <2> QED BY <1>2, <1>s, <2>2, <2>5
<1>4. CASE \E final \in BOOLEAN : WriteDone(final)
  <2>1. PICK final \in BOOLEAN : WriteDone(final)
    BY <1>4
  <2>2. MarkDisplayed(w) \in WriterState /\ MarkDisplayed(w).current = w.current
    BY <1>t DEF MarkDisplayed, WriterState
  <2>3. AfterWrite(MarkDisplayed(w), staleDrops, final) /\ wpc' = "loop"
    BY <2>1 DEF WriteDone
  <2>4. One(w.current # NoFrame) + One(HasItem(updates)) + staleDrops + settled =
            One(w'.current # NoFrame) + One(HasItem(updates')) + staleDrops' + settled'
    BY <1>t, <2>2, <2>3, AfterWriteCounts DEF Accounted, Inductive
  <2> QED BY <1>2, <1>s, <2>3, <2>4
<1>5. CASE WriteExpired
  <2>1. Cleared(w) \in WriterState /\ Cleared(w).current = NoFrame
    BY <1>t DEF Cleared, WriterState
  <2>2. AfterWrite(Cleared(w), staleDrops + 1, TRUE) /\ wpc' = "loop" /\ w.current # NoFrame
    BY <1>5 DEF WriteExpired, Accounted, PlacePart
  <2>n. staleDrops + 1 \in Nat /\ TRUE \in BOOLEAN /\ TypeOK
    BY <1>t DEF Accounted, Inductive
  <2>3. One(Cleared(w).current # NoFrame) + One(HasItem(updates)) + (staleDrops + 1) + settled =
            One(w'.current # NoFrame) + One(HasItem(updates')) + staleDrops' + settled'
    BY <2>n, <2>1, <2>2, AfterWriteCounts
  <2>4. One(Cleared(w).current # NoFrame) = 0 /\ One(w.current # NoFrame) = 1
    BY <2>1, <2>2 DEF One
  <2>5. One(w.current # NoFrame) + One(HasItem(updates)) + staleDrops + settled =
            One(w'.current # NoFrame) + One(HasItem(updates')) + staleDrops' + settled'
    BY <1>t, <1>u, <1>s, <2>3, <2>4
  <2> QED BY <1>2, <1>s, <2>2, <2>5
<1>6. CASE WriteGivenUp \/ BeginBlackout
  <2>1. /\ w'.current = NoFrame /\ updates' = updates /\ wpc' # "write"
        /\ staleDrops' = staleDrops + One(Waiting(w))
        /\ settled' = settled + One(Shown(w))
    <3>1. CASE WriteGivenUp
      <4>1. w' = Cleared(w)
        BY <3>1 DEF WriteGivenUp
      <4>2. Cleared(w).current = NoFrame
        BY <1>t DEF Cleared, WriterState
      <4> QED BY <3>1, <4>1, <4>2 DEF WriteGivenUp
    <3>2. CASE BeginBlackout
      BY <3>2 DEF BeginBlackout, PrepareSafety, sharedVars
    <3> QED BY <1>6, <3>1, <3>2
  <2>2. One(w.current # NoFrame) = One(Waiting(w)) + One(Shown(w))
    BY <1>t, DisplacedCounts
  <2>3. One(w'.current # NoFrame) = 0
    BY <2>1 DEF One
  <2>4. One(w.current # NoFrame) + One(HasItem(updates)) + staleDrops + settled =
            One(w'.current # NoFrame) + One(HasItem(updates')) + staleDrops' + settled'
    BY <1>t, <1>u, <2>1, <2>2, <2>3
  <2> QED BY <1>2, <1>s, <2>1, <2>4
<1>7. ASSUME w'.current = w.current, UNCHANGED <<staleDrops, settled>>,
             HasItem(updates') <=> HasItem(updates), wpc' = "write" => w'.current # NoFrame
      PROVE  PlacePart' /\ CountPart'
  <2>1. One(w.current # NoFrame) + One(HasItem(updates)) + staleDrops + settled =
            One(w'.current # NoFrame) + One(HasItem(updates')) + staleDrops' + settled'
    BY <1>7 DEF One
  <2> QED BY <1>2, <1>s, <1>7, <2>1
<1>8. CASE WriteFails \/ BlackoutFails \/ WriterEnds
  <2>1. UNCHANGED <<w, staleDrops, settled>> /\ wpc' = "done" /\ updates' = WithoutRx(updates)
    BY <1>8 DEF WriteFails, BlackoutFails, WriterEnds, WriterLeaves
  <2> QED BY <1>t, <1>7, <2>1, SlotCounts
<1>9. CASE WakeDeadline
  <2>1. /\ w'.current = w.current /\ UNCHANGED <<staleDrops, settled, updates>>
        /\ wpc' = "write" => w'.current # NoFrame
    BY <1>t, <1>9 DEF WakeDeadline, WriterState, AtWake, sharedVars
  <2> QED BY <1>7, <2>1
<1>10. CASE WakeSafety \/ WakeUpdatesEnded \/ WritePreempted \/ BlackoutDone
  <2>1. UNCHANGED <<w, staleDrops, settled, updates>>
    BY <1>10 DEF WakeSafety, WakeUpdatesEnded, WritePreempted, BlackoutDone, sharedVars
  <2>2. wpc' = "write" => wpc = "write"
    BY <1>10 DEF WakeSafety, WakeUpdatesEnded, WritePreempted, BlackoutDone
  <2> QED BY <1>7, <2>1, <2>2 DEF Accounted, PlacePart
<1> QED BY <1>3, <1>4, <1>5, <1>6, <1>8, <1>9, <1>10 DEF WriterSteps, SinkSteps

LEMMA AccountedHolds == Spec => []Accounted
<1>1. Init => PlacePart /\ CountPart
  <2> SUFFICES ASSUME Init PROVE PlacePart /\ CountPart
    OBVIOUS
  <2>1. PlacePart
    BY DEF Init, PlacePart, FreshSlot, Joins, InitialWriterState
  <2>2. ~HasItem(frames) /\ ~HasItem(updates)
    BY DEF Init, FreshSlot, HasItem
  <2>3. InFlight = 0
    BY <2>2 DEF Init, InFlight, One, InitialWriterState
  <2>4. Dropped + settled = 0 /\ captured = 0
    BY DEF Init, Dropped
  <2> QED BY <2>1, <2>3, <2>4 DEF CountPart, Count, Dropped, Init
<1>2. Accounted /\ Inductive' /\ [Next]_vars => PlacePart' /\ CountPart'
  <2> SUFFICES ASSUME Accounted, Inductive', [Next]_vars PROVE PlacePart' /\ CountPart'
    OBVIOUS
  <2>t. TypeOK'
    BY DEF Inductive
  <2>1. CASE Stop \/ UNCHANGED vars
    BY <2>1 DEF Stop, vars, sharedVars, captureVars, coordVars, writerVars, Accounted,
       PlacePart, CountPart, Count, InFlight, Dropped
  <2> QED BY <2>t, <2>1, AccountedCapture, AccountedCoordinator, AccountedWriter
          DEF Next, Returned
<1> QED BY <1>1, <1>2, InductiveInvariant, PTL DEF Spec, Accounted

(* The statistics the engine reports are exact, however the three tasks      *)
(* interleave and however often the writer preempts, gives up or discards a   *)
(* write: no frame is counted twice, and none is missing until cancellation.  *)
THEOREM StatisticsAreExact == Spec => []FramesAccountedFor
<1>1. Accounted => FramesAccountedFor
  <2> SUFFICES ASSUME Accounted PROVE FramesAccountedFor
    OBVIOUS
  <2>1. TypeOK
    BY DEF Accounted, Inductive
  <2>2. /\ InFlight \in Nat /\ captured \in Nat /\ Dropped \in Nat /\ settled \in Nat
    BY <2>1, CountTypes DEF Dropped
  <2> QED BY <2>1, <2>2 DEF Accounted, CountPart, Count, FramesAccountedFor
<1> QED BY <1>1, AccountedHolds, PTL

(* The generation reopens only after a blackout that was acknowledged, with   *)
(* the lights black.                                                          *)
THEOREM ReopensInTheDark == Spec => GenerationReopensInTheDark
<1>1. ASSUME Inductive, [Next]_vars, generation' # generation, Even(generation')
      PROVE  light = NoFrame
  <2>1. generation \in Nat
    BY <1>1 DEF Inductive, TypeOK, SharedType
  <2>2. CASE StallDetected \/ BeginTeardown
    <3>1. generation' = BlackoutGeneration(generation)
      BY <2>2 DEF StallDetected, BeginTeardown
    <3> QED BY <1>1, <2>1, <3>1, BlackoutGenerationFacts DEF Odd, Even
  <2>3. CASE BlackoutAcknowledged
    BY <1>1, <2>3 DEF BlackoutAcknowledged, Inductive, BlackoutProtocol, RequestPart
  <2>4. CASE ~StallDetected /\ ~BeginTeardown /\ ~BlackoutAcknowledged
    <3>1. CASE CaptureSteps \/ SourceSteps \/ Stop
      BY <1>1, <3>1 DEF CaptureSteps, SourceSteps, CaptureTag, CaptureSend,
         CaptureCancelled, CaptureShutdown, CaptureFrame, CaptureEnds, Stop,
         sharedVars
    <3>2. CASE CoordinatorSteps
      BY <1>1, <2>4, <3>2 DEF CoordinatorSteps, CoordinatorCancelled, FramesEnded,
         ReceiveFrame, SamplingFails, SamplingDone, RequestBlackout,
         BlackoutRefused, JoinCapture, JoinWriter, sharedVars
    <3>3. CASE WriterSteps \/ SinkSteps
      BY <1>1, <3>3 DEF WriterSteps, SinkSteps, WakeSafety, WakeDeadline,
         WakeUpdate, WakeUpdatesEnded, WritePreempted, BeginBlackout,
         BlackoutDone, BlackoutFails, WriterEnds, WriteDone, WriteExpired,
         WriteGivenUp, WriteFails, sharedVars
    <3>4. CASE UNCHANGED vars
      BY <1>1, <3>4 DEF vars, sharedVars
    <3> QED BY <1>1, <3>1, <3>2, <3>3, <3>4 DEF Next, Returned
  <2> QED BY <2>2, <2>3, <2>4
<1>2. Inductive /\ [Next]_vars =>
         [generation' # generation /\ Even(generation') => light = NoFrame]_vars
  BY <1>1
<1> QED BY <1>2, InductiveInvariant, PTL DEF Spec, GenerationReopensInTheDark

(* A stall ends only with a frame the writer will still accept.               *)
THEOREM StallEndsProperly == Spec => StallEndsWithAcceptableFrame
<1>1. ASSUME Inductive, [Next]_vars, stalled, ~stalled'
      PROVE  item'.gen = w.accepted
  <2>1. CASE ReceiveFrame
    <3>1. Even(generation) /\ w.accepted = generation
      BY <1>1, <2>1 DEF ReceiveFrame, Inductive, BlackoutProtocol,
         CoordinatorPart, WriterPart
    <3>2. Current(frames.val) /\ item' = frames.val
      BY <1>1, <2>1 DEF ReceiveFrame
    <3> QED BY <3>1, <3>2 DEF Current
  <2>2. CASE ~ReceiveFrame
    <3>1. CASE CaptureSteps \/ SourceSteps \/ Stop
      BY <1>1, <3>1 DEF CaptureSteps, SourceSteps, CaptureTag, CaptureSend,
         CaptureCancelled, CaptureShutdown, CaptureFrame, CaptureEnds, Stop,
         coordVars
    <3>2. CASE CoordinatorSteps
      BY <1>1, <2>2, <3>2 DEF CoordinatorSteps, CoordinatorCancelled, FramesEnded,
         StallDetected, SamplingFails, SamplingDone, RequestBlackout,
         BlackoutAcknowledged, BlackoutRefused, BeginTeardown, JoinCapture,
         JoinWriter
    <3>3. CASE WriterSteps \/ SinkSteps
      BY <1>1, <3>3 DEF WriterSteps, SinkSteps, WakeSafety, WakeDeadline,
         WakeUpdate, WakeUpdatesEnded, WritePreempted, BeginBlackout,
         BlackoutDone, BlackoutFails, WriterEnds, WriteDone, WriteExpired,
         WriteGivenUp, WriteFails, coordVars
    <3>4. CASE UNCHANGED vars
      BY <1>1, <3>4 DEF vars, coordVars
    <3> QED BY <1>1, <3>1, <3>2, <3>3, <3>4 DEF Next, Returned
  <2> QED BY <2>1, <2>2
<1>2. Inductive /\ [Next]_vars =>
         [stalled /\ ~stalled' => item'.gen = w.accepted]_vars
  BY <1>1
<1> QED BY <1>2, InductiveInvariant, PTL DEF Spec, StallEndsWithAcceptableFrame

-----------------------------------------------------------------------------
(* The engine implements LightShow.                                          *)

(* Frames keep their order from the source to the lights.                    *)
InOrder ==
    /\ held # NoFrame => held.id < captured + 1
    /\ frames.val # NoFrame => frames.val.id < FromCapture
    /\ item # NoFrame => item.id < FromFrames
    /\ updates.val # NoFrame => updates.val.id < FromSampling
    /\ w.current # NoFrame => w.current.id < FromUpdates

(* While a blackout is owed, what the writer holds is from before it; one    *)
(* that failed at teardown is owed for ever.                                 *)
OwedPart ==
    /\ Odd(generation) =>
          /\ w.accepted \in {generation - 1, generation + 1}
          /\ w.current # NoFrame => w.accepted = generation - 1
    /\ teardownFault => Odd(generation)

ShowInv == Inductive /\ InOrder /\ OwedPart

(* A place of the pipeline, `later` being what is behind it, keeps its       *)
(* frame, loses it, or gets one from behind.                                 *)
Moves(frame, later, frame2, later2) ==
    \/ frame2 = NoFrame
    \/ frame # NoFrame /\ frame2.id = frame.id
    \/ later <= frame2.id /\ frame2.id < later2

(* Then it keeps its order with what is behind it, and what may come of both *)
(* only gets newer.                                                          *)
LEMMA PlaceMoves ==
    ASSUME NEW frame \in Frame \cup {NoFrame}, NEW frame2 \in Frame \cup {NoFrame},
           NEW later \in Int, NEW later2 \in Int, later <= later2,
           frame # NoFrame => frame.id < later,
           Moves(frame, later, frame2, later2)
    PROVE  /\ frame2 # NoFrame => frame2.id < later2
           /\ OldestOf(frame, later) <= OldestOf(frame2, later2)
           /\ OldestOf(frame, later) \in Int /\ OldestOf(frame2, later2) \in Int
<1>1. frame.id \in Int /\ frame2.id \in Int
  BY BoundsAssumption DEF Frame, NoFrame
<1> QED BY <1>1 DEF Moves, OldestOf

Places ==
    /\ held \in Frame \cup {NoFrame} /\ frames.val \in Frame \cup {NoFrame}
    /\ item \in Frame \cup {NoFrame} /\ updates.val \in Frame \cup {NoFrame}
    /\ w.current \in Frame \cup {NoFrame} /\ light \in Frame \cup {NoFrame}
    /\ captured \in Int /\ generation \in Nat

(* Every place holds a frame or none, also after the next step.              *)
LEMMA PlaceTypes == TypeOK => Places
<1> SUFFICES ASSUME TypeOK PROVE Places
  OBVIOUS
<1>1. frames.val \in Frame \cup {NoFrame} /\ updates.val \in Frame \cup {NoFrame}
  BY DEF TypeOK, SharedType, Slots
<1>2. w.current \in Frame \cup {NoFrame}
  BY DEF TypeOK, WriterType, WriterState
<1>3. held \in Frame \cup {NoFrame} /\ captured \in Int
  BY BoundsAssumption DEF TypeOK, CaptureType
<1> QED BY <1>1, <1>2, <1>3 DEF Places, TypeOK, SharedType, CoordinatorType

LEMMA PlaceTypesNext == TypeOK' => Places'
  BY PlaceTypes, PTL

(* When each place does, the frames stay in order and the oldest only        *)
(* gets newer.                                                               *)
LEMMA PipelineMoves ==
    ASSUME TypeOK, TypeOK', InOrder, captured <= captured',
           Moves(held, captured + 1, held', captured' + 1),
           Moves(frames.val, FromCapture, frames.val', FromCapture'),
           Moves(item, FromFrames, item', FromFrames'),
           Moves(updates.val, FromSampling, updates.val', FromSampling'),
           Moves(w.current, FromUpdates, w.current', FromUpdates')
    PROVE  InOrder' /\ Oldest <= Oldest'
<1>t. Places /\ Places'
  BY PlaceTypes, PlaceTypesNext
<1> USE DEF Places
<1>1. /\ held' # NoFrame => held'.id < captured' + 1
      /\ FromCapture <= FromCapture' /\ FromCapture \in Int /\ FromCapture' \in Int
  <2>1. \A m, n \in Int : m <= n => m + 1 \in Int /\ n + 1 \in Int /\ m + 1 <= n + 1
    OBVIOUS
  <2>2. captured + 1 \in Int /\ captured' + 1 \in Int /\ captured + 1 <= captured' + 1
    BY <1>t, <2>1
  <2>3. held # NoFrame => held.id < captured + 1
    BY DEF InOrder
  <2> HIDE DEF Places
  <2>4. held \in Frame \cup {NoFrame} /\ held' \in Frame \cup {NoFrame}
    BY <1>t DEF Places
  <2> QED BY <2>2, <2>3, <2>4, PlaceMoves DEF FromCapture
<1>2. /\ frames.val' # NoFrame => frames.val'.id < FromCapture'
      /\ FromFrames <= FromFrames' /\ FromFrames \in Int /\ FromFrames' \in Int
  BY <1>t, <1>1, PlaceMoves DEF InOrder, FromFrames
<1>3. /\ item' # NoFrame => item'.id < FromFrames'
      /\ FromSampling <= FromSampling' /\ FromSampling \in Int /\ FromSampling' \in Int
  BY <1>t, <1>2, PlaceMoves DEF InOrder, FromSampling
<1>4. /\ updates.val' # NoFrame => updates.val'.id < FromSampling'
      /\ FromUpdates <= FromUpdates' /\ FromUpdates \in Int /\ FromUpdates' \in Int
  BY <1>t, <1>3, PlaceMoves DEF InOrder, FromUpdates
<1>5. /\ w.current' # NoFrame => w.current'.id < FromUpdates'
      /\ Oldest <= Oldest'
  BY <1>t, <1>4, PlaceMoves DEF InOrder, Oldest
<1> QED BY <1>1, <1>2, <1>3, <1>4, <1>5 DEF InOrder

pipeline == <<held, captured, frames.val, item, updates.val, w.current>>

(* A step that touches no place changes neither order nor oldest.            *)
LEMMA PipelineStays ==
    ASSUME InOrder, UNCHANGED pipeline
    PROVE  InOrder' /\ Oldest' = Oldest
<1>1. /\ held' = held /\ captured' = captured /\ frames.val' = frames.val /\ item' = item
      /\ updates.val' = updates.val /\ w.current' = w.current
  BY DEF pipeline
<1>2. FromCapture' = FromCapture
  BY <1>1 DEF FromCapture
<1>3. FromFrames' = FromFrames
  BY <1>1, <1>2 DEF FromFrames
<1>4. FromSampling' = FromSampling
  BY <1>1, <1>3 DEF FromSampling
<1>5. FromUpdates' = FromUpdates
  BY <1>1, <1>4 DEF FromUpdates
<1>6. Oldest' = Oldest
  BY <1>1, <1>5 DEF Oldest
<1> QED BY <1>1, <1>2, <1>3, <1>4, <1>5, <1>6 DEF InOrder

(* The places that a step leaves alone keep what they hold.                  *)
LEMMA PlaceStays ==
    \A frame, later, later2 : Moves(frame, later, frame, later2) /\ Moves(frame, later, NoFrame, later2)
BY DEF Moves

(* What the operations of a slot leave in it.                                *)
LEMMA SlotValues ==
    ASSUME TypeOK
    PROVE  /\ \A f : Put(frames, f).val = f /\ Put(updates, f).val = f
           /\ Taken(frames).val = NoFrame /\ Taken(updates).val = NoFrame
           /\ WithoutTx(frames).val = frames.val /\ WithoutRx(frames).val = frames.val
           /\ WithoutTx(updates).val = updates.val /\ WithoutRx(updates).val = updates.val
BY DEF TypeOK, SharedType, Slots, Put, Taken, WithoutTx, WithoutRx

Forward == InOrder' /\ Oldest <= Oldest'

(* The oldest frame has a number, also after the next step.                  *)
LEMMA OldestIsNumber == TypeOK => Oldest \in Int
<1> SUFFICES ASSUME TypeOK PROVE Oldest \in Int
  OBVIOUS
<1>1. Places
  BY PlaceTypes
<1>2. \A f \in Frame \cup {NoFrame} : f.id \in Int
  BY BoundsAssumption DEF Frame, NoFrame
<1>3. captured + 1 \in Int
  BY <1>1 DEF Places
<1>4. \A f \in Frame \cup {NoFrame}, n \in Int : OldestOf(f, n) \in Int
  BY <1>2 DEF OldestOf
<1>5. FromCapture \in Int
  BY <1>1, <1>3, <1>4 DEF Places, FromCapture
<1>6. FromFrames \in Int
  BY <1>1, <1>4, <1>5 DEF Places, FromFrames
<1>7. FromSampling \in Int
  BY <1>1, <1>4, <1>6 DEF Places, FromSampling
<1>8. FromUpdates \in Int
  BY <1>1, <1>4, <1>7 DEF Places, FromUpdates
<1> QED BY <1>1, <1>4, <1>8 DEF Places, Oldest

LEMMA OldestIsNumberNext == TypeOK' => (Oldest \in Int)'
  BY OldestIsNumber, PTL

(* Standing still is not going back.                                         *)
LEMMA StayingIsForward ==
    ASSUME TypeOK, InOrder, UNCHANGED pipeline
    PROVE  Forward /\ Oldest' = Oldest
<1>1. Oldest \in Int
  BY OldestIsNumber
<1> QED BY <1>1, PipelineStays DEF Forward

(* The capture task takes a frame from its source, tags it, and sends it.    *)
LEMMA CaptureForward ==
    ASSUME TypeOK, TypeOK', InOrder, CaptureSteps \/ SourceSteps
    PROVE  Forward
<1>t. Places
  BY PlaceTypes
<1>1. CASE CaptureFrame
  <2>1. /\ held = NoFrame /\ held'.id = captured + 1 /\ captured' = captured + 1
        /\ frames' = frames /\ item' = item /\ updates' = updates /\ w' = w
    BY <1>1 DEF CaptureFrame, TypeOK, CaptureType, sharedVars, coordVars, writerVars
  <2>2. captured <= captured' /\ captured + 1 < captured' + 1
    BY <1>t, <2>1 DEF Places
  <2>3. Moves(held, captured + 1, held', captured' + 1)
    <3>1. captured + 1 \in Int
      BY <1>t DEF Places
    <3> QED BY <2>1, <2>2, <3>1 DEF Moves
  <2> QED BY <2>1, <2>2, <2>3, PipelineMoves, PlaceStays DEF Forward
<1>2. CASE CaptureTag
  <2>1. /\ held \in Frame /\ held'.id = held.id /\ captured' = captured
        /\ frames' = frames /\ item' = item /\ updates' = updates /\ w' = w
    BY <1>2 DEF CaptureTag, TypeOK, CaptureType, sharedVars, coordVars, writerVars, Frame
  <2>2. held # NoFrame
    BY <2>1 DEF Frame, NoFrame
  <2>3. Moves(held, captured + 1, held', captured' + 1)
    BY <2>1, <2>2 DEF Moves
  <2>4. captured <= captured'
    BY <1>t, <2>1 DEF Places
  <2> QED BY <2>1, <2>3, <2>4, PipelineMoves, PlaceStays DEF Forward
<1>3. CASE CaptureSend
  <2>1. /\ held' = NoFrame /\ captured' = captured /\ held \in Frame
        /\ frames' = frames \/ frames'.val = held
        /\ item' = item /\ updates' = updates /\ w' = w
    BY <1>3, SlotValues DEF CaptureSend, TypeOK, CaptureType, coordVars, writerVars
  <2>2. held # NoFrame /\ held.id < captured + 1
    BY <2>1 DEF Frame, NoFrame, InOrder
  <2>3. FromCapture = held.id /\ FromCapture' = captured + 1
    BY <2>1, <2>2 DEF FromCapture, OldestOf
  <2>4. held.id \in Int /\ captured <= captured'
    BY <1>t, <2>1, BoundsAssumption DEF Places, Frame
  <2>5. Moves(frames.val, FromCapture, frames.val', FromCapture')
    <3>1. CASE frames' = frames
      BY <3>1, PlaceStays
    <3>2. CASE frames'.val = held
      BY <2>2, <2>3, <2>4, <3>2 DEF Moves
    <3> QED BY <2>1, <3>1, <3>2
  <2>6. Moves(held, captured + 1, held', captured' + 1)
    BY <2>1 DEF Moves
  <2> QED BY <2>1, <2>4, <2>5, <2>6, PipelineMoves, PlaceStays DEF Forward
<1>4. CASE CaptureCancelled \/ (\E failed \in BOOLEAN : CaptureShutdown(failed) \/ CaptureEnds(failed))
  <2>1. UNCHANGED pipeline
    BY <1>4, SlotValues DEF CaptureCancelled, CaptureShutdown, CaptureEnds, pipeline,
       sharedVars, coordVars, writerVars
  <2> QED BY <2>1, StayingIsForward
<1> QED BY <1>1, <1>2, <1>3, <1>4 DEF CaptureSteps, SourceSteps

(* The coordinator forgets the frame it samples, or a task only talks to     *)
(* another.                                                                  *)
LEMMA ItemGoes ==
    ASSUME TypeOK, TypeOK', InOrder, item' \in {item, NoFrame},
           UNCHANGED <<held, captured, frames.val, updates.val, w>>
    PROVE  Forward
<1>1. captured <= captured'
  BY PlaceTypes DEF Places
<1>2. Moves(item, FromFrames, item', FromFrames')
  BY PlaceStays
<1>3. Moves(w.current, FromUpdates, w.current', FromUpdates')
  BY PlaceStays
<1> QED BY <1>1, <1>2, <1>3, PipelineMoves, PlaceStays DEF Forward

(* It takes the newest frame, samples it and hands the colours on.           *)
LEMMA CoordinatorForward ==
    ASSUME TypeOK, TypeOK', InOrder, CoordinatorSteps
    PROVE  Forward
<1>t. Places
  BY PlaceTypes
<1>1. CASE \/ CoordinatorCancelled \/ FramesEnded \/ SamplingFails
           \/ RequestBlackout \/ BlackoutRefused
  <2>1. item' \in {item, NoFrame} /\ UNCHANGED <<held, captured, frames, updates, w>>
    BY <1>1 DEF CoordinatorCancelled, FramesEnded, SamplingFails, RequestBlackout,
       BlackoutRefused, RequestFailed, Leave, captureVars, writerVars
  <2> QED BY <2>1, ItemGoes
<1>2. CASE StallDetected \/ BlackoutAcknowledged \/ BeginTeardown \/ JoinCapture \/ JoinWriter
  <2>1. UNCHANGED pipeline
    BY <1>2, SlotValues DEF StallDetected, BlackoutAcknowledged, BeginTeardown,
       JoinCapture, JoinWriter, pipeline, captureVars, writerVars, sharedVars
  <2> QED BY <2>1, StayingIsForward
<1>3. CASE ReceiveFrame
  <2>1. /\ frames.val # NoFrame /\ frames'.val = NoFrame /\ item' \in {item, frames.val}
        /\ held' = held /\ captured' = captured /\ updates' = updates /\ w' = w
    BY <1>3, SlotValues DEF ReceiveFrame, HasItem, captureVars, writerVars
  <2>2. FromFrames = frames.val.id /\ FromFrames' = FromCapture /\ frames.val.id < FromCapture
    BY <2>1 DEF FromFrames, FromCapture, OldestOf, InOrder
  <2>3. frames.val.id \in Int /\ captured <= captured'
    BY <1>t, <2>1, BoundsAssumption DEF Places, Frame
  <2>4. Moves(item, FromFrames, item', FromFrames')
    BY <2>1, <2>2, <2>3 DEF Moves
  <2>5. Moves(frames.val, FromCapture, frames.val', FromCapture')
    BY <2>1 DEF Moves
  <2> QED BY <2>1, <2>3, <2>4, <2>5, PipelineMoves, PlaceStays DEF Forward
<1>4. CASE SamplingDone
  <2>1. /\ item' = NoFrame /\ updates'.val \in {updates.val, item}
        /\ held' = held /\ captured' = captured /\ frames' = frames /\ w' = w
    BY <1>4, SlotValues DEF SamplingDone, Leave, captureVars, writerVars
  <2>2. captured <= captured'
    BY <1>t, <2>1 DEF Places
  <2>3. Moves(updates.val, FromSampling, updates.val', FromSampling')
    <3>1. CASE updates'.val = updates.val
      BY <3>1, PlaceStays
    <3>2. CASE updates'.val = item /\ item = NoFrame
      BY <3>2 DEF Moves
    <3>3. CASE updates'.val = item /\ item # NoFrame
      <4>1. FromSampling = item.id /\ FromSampling' = FromFrames /\ item.id < FromFrames
        BY <2>1, <3>3 DEF FromSampling, FromFrames, FromCapture, OldestOf, InOrder
      <4>2. item.id \in Int
        BY <1>t, <3>3, BoundsAssumption DEF Places, Frame
      <4> QED BY <3>3, <4>1, <4>2 DEF Moves
    <3> QED BY <2>1, <3>1, <3>2, <3>3
  <2>4. Moves(item, FromFrames, item', FromFrames')
    BY <2>1 DEF Moves
  <2> QED BY <2>1, <2>2, <2>3, <2>4, PipelineMoves, PlaceStays DEF Forward
<1> QED BY <1>1, <1>2, <1>3, <1>4 DEF CoordinatorSteps

(* The writer drops what it holds, or takes the update that waits for it.    *)
LEMMA UpdateTaken ==
    ASSUME TypeOK, TypeOK', InOrder,
           UNCHANGED <<held, captured, frames, item>>,
           \/ w'.current \in {w.current, NoFrame} /\ updates'.val = updates.val
           \/ w'.current \in {w.current, NoFrame, updates.val} /\ updates'.val = NoFrame
    PROVE  Forward
<1>t. Places
  BY PlaceTypes
<1>1. captured <= captured'
  BY <1>t DEF Places
<1>2. Moves(updates.val, FromSampling, updates.val', FromSampling')
  BY PlaceStays
<1>3. Moves(w.current, FromUpdates, w.current', FromUpdates')
  <2>1. CASE w'.current \in {w.current, NoFrame}
    BY <2>1, PlaceStays
  <2>2. CASE w'.current = updates.val /\ updates.val # NoFrame /\ updates'.val = NoFrame
    <3>1. /\ FromUpdates = updates.val.id /\ FromUpdates' = FromSampling
          /\ updates.val.id < FromSampling
      BY <2>2 DEF FromUpdates, FromSampling, FromFrames, FromCapture, OldestOf, InOrder
    <3>2. updates.val.id \in Int
      BY <1>t, <2>2, BoundsAssumption DEF Places, Frame
    <3> QED BY <2>2, <3>1, <3>2 DEF Moves
  <2> QED BY <2>1, <2>2
<1> QED BY <1>1, <1>2, <1>3, PipelineMoves, PlaceStays DEF Forward

(* What the methods of LightingWriterState leave in its place.               *)
LEMMA AcceptsOrKeeps ==
    ASSUME NEW s \in WriterState, NEW f
    PROVE  /\ AcceptUpdate(s, f).current \in {s.current, f}
           /\ Cleared(s).current = NoFrame /\ MarkDisplayed(s).current = s.current
           /\ \A a, b : [s EXCEPT !.active = a, !.armed = b].current = s.current
           /\ \A g : PrepareSafety(s, g).current = NoFrame
           /\ Cleared(s) \in WriterState /\ MarkDisplayed(s) \in WriterState
BY DEF WriterState, AcceptUpdate, Accept, Cleared, MarkDisplayed, PrepareSafety

(* The writer's steps, one by one.                                           *)
LEMMA WriterForward ==
    ASSUME TypeOK, TypeOK', InOrder, WriterSteps \/ SinkSteps
    PROVE  Forward
<1>t. w \in WriterState
  BY DEF TypeOK, WriterType
<1>a. ASSUME NEW s \in WriterState, NEW stale, NEW final \in BOOLEAN,
             s.current \in {w.current, NoFrame}, AfterWrite(s, stale, final)
      PROVE  \/ w'.current \in {w.current, NoFrame} /\ updates'.val = updates.val
             \/ w'.current \in {w.current, NoFrame, updates.val} /\ updates'.val = NoFrame
  <2>1. CASE HasItem(updates)
    BY <1>a, <2>1, AcceptsOrKeeps, SlotValues DEF AfterWrite
  <2>2. CASE ~HasItem(updates)
    <3>1. w' = s \/ w' = [s EXCEPT !.active = ~final, !.armed = ~final]
      BY <1>a, <2>2 DEF AfterWrite
    <3>2. w'.current = s.current
      BY <3>1 DEF WriterState
    <3>3. updates' = updates
      BY <1>a, <2>2 DEF AfterWrite
    <3> QED BY <1>a, <3>2, <3>3
  <2> QED BY <2>1, <2>2
<1>1. CASE \/ WakeSafety \/ WakeUpdatesEnded \/ WritePreempted \/ WakeDeadline
           \/ BlackoutDone \/ BlackoutFails \/ WriterEnds \/ WriteFails
  <2>1. w'.current = w.current
    <3>1. CASE WakeDeadline
      BY <1>t, <3>1 DEF WakeDeadline, WriterState
    <3>2. CASE ~WakeDeadline
      BY <1>1, <3>2 DEF WakeSafety, WakeUpdatesEnded, WritePreempted, BlackoutDone,
         BlackoutFails, WriterEnds, WriteFails
    <3> QED BY <3>1, <3>2
  <2>2. /\ frames' = frames /\ UNCHANGED <<held, captured, item>>
        /\ updates' \in {updates, WithoutRx(updates)}
    BY <1>1 DEF WakeSafety, WakeDeadline, WakeUpdatesEnded,
       WritePreempted, BlackoutDone, BlackoutFails, WriterEnds, WriteFails, WriterLeaves,
       captureVars, coordVars, sharedVars
  <2>3. UNCHANGED pipeline
    BY <2>1, <2>2, SlotValues DEF pipeline
  <2> QED BY <2>3, StayingIsForward
<1>2. CASE WakeUpdate
  <2>1. w'.current \in {w.current, updates.val} /\ updates'.val = NoFrame
    BY <1>2, <1>t, AcceptsOrKeeps, SlotValues DEF WakeUpdate
  <2>2. UNCHANGED <<held, captured, frames, item>>
    BY <1>2 DEF WakeUpdate, captureVars, coordVars
  <2> QED BY <2>1, <2>2, UpdateTaken
<1>3. CASE WriteExpired \/ \E final \in BOOLEAN : WriteDone(final)
  <2>1. \/ w'.current \in {w.current, NoFrame} /\ updates'.val = updates.val
        \/ w'.current \in {w.current, NoFrame, updates.val} /\ updates'.val = NoFrame
    <3>1. CASE WriteExpired
      <4>1. AfterWrite(Cleared(w), staleDrops + 1, TRUE)
        BY <3>1 DEF WriteExpired
      <4>2. Cleared(w) \in WriterState /\ Cleared(w).current = NoFrame /\ TRUE \in BOOLEAN
        BY <1>t, AcceptsOrKeeps
      <4> QED BY <4>1, <4>2, <1>a
    <3>2. CASE \E final \in BOOLEAN : WriteDone(final)
      BY <3>2, <1>a, <1>t, AcceptsOrKeeps DEF WriteDone
    <3> QED BY <1>3, <3>1, <3>2
  <2>2. UNCHANGED <<held, captured, frames, item>>
    BY <1>3 DEF WriteExpired, WriteDone, captureVars, coordVars
  <2> QED BY <2>1, <2>2, UpdateTaken
<1>4. CASE WriteGivenUp \/ BeginBlackout
  <2>1. w'.current = NoFrame /\ UNCHANGED <<held, captured, frames, item, updates>>
    BY <1>4, <1>t, AcceptsOrKeeps DEF WriteGivenUp, BeginBlackout, captureVars, coordVars, sharedVars
  <2> QED BY <2>1, UpdateTaken
<1> QED BY <1>1, <1>2, <1>3, <1>4 DEF WriterSteps, SinkSteps

(* What the writer accepts, and what it holds, when no blackout begins.      *)
LEMMA WriterKeepsAccepting ==
    ASSUME TypeOK, WriterSteps \/ SinkSteps, ~BeginBlackout
    PROVE  w'.accepted = w.accepted /\ w'.current \in {w.current, NoFrame, updates.val}
<1>t. w \in WriterState
  BY DEF TypeOK, WriterType
<1>1. \A s \in WriterState :
          /\ AcceptUpdate(s, updates.val).accepted = s.accepted
          /\ Cleared(s).accepted = s.accepted /\ MarkDisplayed(s).accepted = s.accepted
  BY DEF WriterState, AcceptUpdate, Accept, Cleared, MarkDisplayed
<1>2. ASSUME NEW s \in WriterState, NEW stale, NEW final \in BOOLEAN,
             s.current \in {w.current, NoFrame}, s.accepted = w.accepted,
             AfterWrite(s, stale, final)
      PROVE  w'.accepted = w.accepted /\ w'.current \in {w.current, NoFrame, updates.val}
  <2>1. CASE HasItem(updates)
    BY <1>1, <1>2, <2>1, AcceptsOrKeeps DEF AfterWrite
  <2>2. CASE ~HasItem(updates)
    <3>1. w' = s \/ w' = [s EXCEPT !.active = ~final, !.armed = ~final]
      BY <1>2, <2>2 DEF AfterWrite
    <3>2. w'.current = s.current /\ w'.accepted = s.accepted
      BY <3>1 DEF WriterState
    <3> QED BY <1>2, <3>2
  <2> QED BY <2>1, <2>2
<1>3. CASE WriteExpired
  <2>1. AfterWrite(Cleared(w), staleDrops + 1, TRUE)
    BY <1>3 DEF WriteExpired
  <2>2. Cleared(w) \in WriterState /\ Cleared(w).current = NoFrame /\ TRUE \in BOOLEAN
    BY <1>t, AcceptsOrKeeps
  <2>3. Cleared(w).accepted = w.accepted
    BY <1>1, <1>t
  <2> QED BY <2>1, <2>2, <2>3, <1>2
<1>4. ASSUME NEW final \in BOOLEAN, WriteDone(final)
      PROVE  w'.accepted = w.accepted /\ w'.current \in {w.current, NoFrame, updates.val}
  BY <1>4, <1>1, <1>2, <1>t, AcceptsOrKeeps DEF WriteDone
<1>5. CASE WakeDeadline
  BY <1>t, <1>5 DEF WakeDeadline, WriterState
<1>6. CASE WakeUpdate \/ WriteGivenUp
  BY <1>1, <1>t, <1>6, AcceptsOrKeeps DEF WakeUpdate, WriteGivenUp
<1>7. CASE \/ WakeSafety \/ WakeUpdatesEnded \/ WritePreempted \/ BlackoutDone
           \/ BlackoutFails \/ WriterEnds \/ WriteFails
  BY <1>7 DEF WakeSafety, WakeUpdatesEnded, WritePreempted, BlackoutDone,
     BlackoutFails, WriterEnds, WriteFails
<1> QED BY <1>3, <1>4, <1>5, <1>6, <1>7 DEF WriterSteps, SinkSteps

(* The writer leaves the generation and the coordinator alone.               *)
LEMMA WriterStaysAway ==
    ASSUME WriterSteps \/ SinkSteps
    PROVE  UNCHANGED <<generation, spc, teardownFault>>
BY DEF WriterSteps, SinkSteps, WakeSafety, WakeDeadline, WakeUpdate, WakeUpdatesEnded,
   WritePreempted, BeginBlackout, BlackoutDone, BlackoutFails, WriterEnds, WriteDone,
   WriteExpired, WriteGivenUp, WriteFails, sharedVars, coordVars

(* So do the capture task, the caller and a step of nobody; and the writer's *)
(* state and the lights as well.                                             *)
LEMMA CaptureStaysAway ==
    ASSUME CaptureSteps \/ SourceSteps \/ Stop \/ UNCHANGED vars
    PROVE  UNCHANGED <<generation, spc, teardownFault, ack, light, w>>
BY DEF CaptureSteps, SourceSteps, CaptureTag, CaptureSend, CaptureCancelled,
   CaptureShutdown, CaptureFrame, CaptureEnds, Stop, vars, sharedVars, coordVars, writerVars

(* What is owed stays owed: step by step of the coordinator and the writer.  *)
LEMMA OwedInductive ==
    ASSUME ShowInv, [Next]_vars
    PROVE  OwedPart'
<1>t. generation \in Nat /\ TypeOK /\ w.accepted \in Nat
  BY DEF ShowInv, Inductive, TypeOK, SharedType, WriterType, WriterState
<1>b. CoordinatorPart /\ RequestPart /\ WriterPart /\ UpdatePart /\ OwedPart
  BY DEF ShowInv, Inductive, BlackoutProtocol
<1>1. CASE CaptureSteps \/ SourceSteps \/ Stop \/ UNCHANGED vars
  BY <1>1, <1>b, CaptureStaysAway DEF OwedPart
<1>2. CASE CoordinatorSteps
  <2>w. w' = w
    BY <1>2 DEF CoordinatorSteps, CoordinatorCancelled, StallDetected, FramesEnded,
       ReceiveFrame, SamplingFails, SamplingDone, RequestBlackout, BlackoutAcknowledged,
       BlackoutRefused, BeginTeardown, JoinCapture, JoinWriter, writerVars
  <2>1. CASE StallDetected \/ BeginTeardown
    <3>1. generation' = BlackoutGeneration(generation) /\ Odd(generation') /\ teardownFault' = teardownFault
      BY <1>t, <2>1, BlackoutGenerationFacts DEF StallDetected, BeginTeardown
    <3>2. CASE Even(generation)
      <4>1. generation' = generation + 1 /\ w.accepted = generation
        BY <1>b, <3>1, <3>2 DEF BlackoutGeneration, WriterPart
      <4> QED BY <1>t, <2>w, <3>1, <4>1 DEF OwedPart
    <3>3. CASE ~Even(generation)
      BY <1>b, <1>t, <2>w, <3>1, <3>3 DEF BlackoutGeneration, OwedPart
    <3> QED BY <3>2, <3>3
  <2>2. CASE BlackoutAcknowledged
    <3>1. Odd(generation) /\ ~teardownFault /\ ~teardownFault'
      BY <1>b, <2>2 DEF BlackoutAcknowledged, CoordinatorPart, Waits, Joins
    <3>2. Even(generation') /\ generation' \in Nat
      BY <1>t, <2>2, <3>1, ResumeGenerationFacts DEF BlackoutAcknowledged
    <3> QED BY <3>1, <3>2, EvenOrOdd DEF OwedPart
  <2>3. CASE RequestBlackout \/ BlackoutRefused
    <3>1. generation' = generation /\ Odd(generation)
      BY <1>b, <2>3 DEF RequestBlackout, BlackoutRefused, CoordinatorPart, Waits
    <3> QED BY <1>b, <2>w, <3>1 DEF OwedPart
  <2>4. CASE \/ CoordinatorCancelled \/ FramesEnded \/ ReceiveFrame \/ SamplingFails
             \/ SamplingDone \/ JoinCapture \/ JoinWriter
    <3>1. generation' = generation /\ teardownFault' = teardownFault
      BY <2>4 DEF CoordinatorCancelled, FramesEnded, ReceiveFrame, SamplingFails,
         SamplingDone, JoinCapture, JoinWriter, sharedVars
    <3> QED BY <1>b, <2>w, <3>1 DEF OwedPart
  <2> QED BY <1>2, <2>1, <2>2, <2>3, <2>4 DEF CoordinatorSteps
<1>3. CASE WriterSteps \/ SinkSteps
  <2>1. generation' = generation /\ teardownFault' = teardownFault
    BY <1>3, WriterStaysAway
  <2>2. CASE BeginBlackout
    <3>1. w'.accepted = generation + 1 /\ w'.current = NoFrame
      BY <1>b, <2>2 DEF BeginBlackout, RequestPart, PrepareSafety
    <3> QED BY <1>b, <2>1, <3>1 DEF OwedPart
  <2>3. CASE ~BeginBlackout
    <3>1. w'.accepted = w.accepted /\ w'.current \in {w.current, NoFrame, updates.val}
      BY <1>3, <1>t, <2>3, WriterKeepsAccepting
    <3>2. WriterPart'
      BY <1>3, <1>t, InductiveStep DEF ShowInv, Inductive, BlackoutProtocol
    <3>3. updates.val.gen <= generation /\ updates.val.gen \in Nat
      <4>1. updates.val \in Frame \cup {NoFrame}
        BY <1>t, PlaceTypes DEF Places
      <4> QED BY <1>b, <4>1 DEF UpdatePart, Frame, NoFrame
    <3>4. ASSUME Odd(generation), w'.current # NoFrame
          PROVE  w.accepted = generation - 1
      BY <1>b, <1>t, <3>1, <3>2, <3>3, <3>4 DEF OwedPart, WriterPart
    <3> QED BY <1>b, <2>1, <3>1, <3>4 DEF OwedPart
  <2> QED BY <2>2, <2>3
<1> QED BY <1>1, <1>2, <1>3 DEF Next, Returned

(* Order and debt hold at first, are kept by every step, and so hold always. *)
LEMMA ShowInvInit == Init => ShowInv
<1> SUFFICES ASSUME Init PROVE ShowInv
  OBVIOUS
<1>1. Inductive
  BY InitTypes, InitProtocol DEF Inductive
<1>2. InOrder
  BY DEF Init, InOrder, FreshSlot, InitialWriterState
<1>3. OwedPart
  BY EvenOrOdd DEF Init, OwedPart, Odd
<1> QED BY <1>1, <1>2, <1>3 DEF ShowInv

LEMMA ShowInvStep ==
    ASSUME ShowInv, [Next]_vars
    PROVE  ShowInv' /\ Oldest <= Oldest'
<1>1. Inductive' /\ TypeOK /\ TypeOK'
  BY InductiveStep DEF ShowInv, Inductive
<1>2. OwedPart'
  BY OwedInductive
<1>3. Forward
  <2>1. CASE Stop \/ UNCHANGED vars
    <3>1. UNCHANGED pipeline
      BY <2>1 DEF Stop, vars, sharedVars, captureVars, coordVars, writerVars, pipeline
    <3> QED BY <1>1, <3>1, StayingIsForward DEF ShowInv
  <2>2. CASE CaptureSteps \/ SourceSteps
    BY <1>1, <2>2, CaptureForward DEF ShowInv
  <2>3. CASE CoordinatorSteps
    BY <1>1, <2>3, CoordinatorForward DEF ShowInv
  <2>4. CASE WriterSteps \/ SinkSteps
    BY <1>1, <2>4, WriterForward DEF ShowInv
  <2> QED BY <2>1, <2>2, <2>3, <2>4 DEF Next, Returned
<1> QED BY <1>1, <1>2, <1>3 DEF ShowInv, Forward

LEMMA ShowInvariant == Spec => []ShowInv
<1>1. ShowInv /\ [Next]_vars => ShowInv'
  BY ShowInvStep
<1> QED BY <1>1, ShowInvInit, PTL DEF Spec

(* The engine starts where LightShow does.                                   *)
LEMMA LightsStart == Init => Lights!Init
BY DEF Init, Lights!Init, Epoch, Phase, Oldest, FromUpdates, FromSampling, FromFrames,
   FromCapture, OldestOf, Odd, FreshSlot, InitialWriterState, Joins

(* While the lights are dark or it is over there is nothing to paint, and    *)
(* what there is to paint otherwise is of the epoch and the oldest there is. *)
LEMMA Paintable ==
    ASSUME ShowInv
    PROVE  /\ Phase \in {"dark", "over"} => light = NoFrame /\ w.current = NoFrame
           /\ w.current # NoFrame => w.current.gen = Epoch /\ w.current.id = Oldest
<1>t. generation \in Nat /\ w.accepted \in Nat
  BY DEF ShowInv, Inductive, TypeOK, SharedType, WriterType, WriterState
<1>b. RequestPart /\ WriterPart /\ UpdatePart /\ OwedPart
  BY DEF ShowInv, Inductive, BlackoutProtocol
<1>1. CASE Phase = "dark"
  <2>1. ack = "ok"
    BY <1>1 DEF Phase
  <2>2. light = NoFrame /\ w.current = NoFrame
    BY <1>b, <2>1 DEF RequestPart
  <2> QED BY <2>2
<1>2. CASE Phase = "over"
  <2>1. ~Odd(generation) /\ spc \in Joins
    BY <1>2 DEF Phase
  <2>2. light = NoFrame /\ w.current = NoFrame
    BY <1>b, <2>1 DEF OwedPart, UpdatePart
  <2> QED BY <2>2
<1>3. ASSUME w.current # NoFrame PROVE w.current.gen = Epoch /\ w.current.id = Oldest
  <2>1. w.current.gen = w.accepted
    BY <1>b, <1>3 DEF WriterPart
  <2>2. w.accepted = Epoch
    BY <1>b, <1>t, <1>3, EvenOrOdd DEF OwedPart, WriterPart, Epoch
  <2> QED BY <1>3, <2>1, <2>2 DEF Oldest, OldestOf
<1> QED BY <1>1, <1>2, <1>3

(* A step within a phase shows what the writer holds, turns the lights off,  *)
(* or leaves them alone.                                                     *)
LEMMA WithinPhase ==
    ASSUME ShowInv, [Next]_vars, light' \in {light, w.current, NoFrame},
           Phase' = Phase, Epoch' = Epoch
    PROVE  Lights!Next
<1>1. Oldest <= Oldest' /\ Oldest \in Int /\ Oldest' \in Int
  <2>1. TypeOK /\ TypeOK' /\ Oldest <= Oldest'
    BY ShowInvStep DEF ShowInv, Inductive
  <2> QED BY <2>1, OldestIsNumber, OldestIsNumberNext
<1>2. Phase \in {"open", "closing", "dark", "over"}
  BY DEF Phase
<1>3. CASE light' = light
  BY <1>1, <1>3 DEF Lights!Next, Lights!PassOver
<1>4. CASE light' # light /\ light' = NoFrame
  <2>1. Phase \in {"open", "closing"}
    BY <1>2, <1>4, Paintable
  <2> QED BY <1>1, <1>4, <2>1 DEF Lights!Next, Lights!GoDark
<1>5. CASE light' # NoFrame /\ light' = w.current
  <2>1. Phase \in {"open", "closing"} /\ light'.gen = Epoch /\ light'.id = Oldest
    BY <1>2, <1>5, Paintable
  <2>2. light' \in Frame
    BY <1>5, PlaceTypes DEF ShowInv, Inductive, Places
  <2> QED BY <1>1, <2>1, <2>2 DEF Lights!Next, Lights!Show
<1> QED BY <1>3, <1>4, <1>5

(* The coordinator closes an epoch and opens the next one, and leaves the    *)
(* lights to the writer.                                                     *)
LEMMA CoordinatorShows ==
    ASSUME ShowInv, CoordinatorSteps
    PROVE  Lights!Next
<1>t. generation \in Nat /\ TypeOK
  BY DEF ShowInv, Inductive, TypeOK, SharedType
<1>b. CoordinatorPart /\ RequestPart /\ OwedPart
  BY DEF ShowInv, Inductive, BlackoutProtocol
<1>n. [Next]_vars
  BY DEF Next
<1>w. light' = light /\ w' = w
  BY DEF CoordinatorSteps, CoordinatorCancelled, StallDetected, FramesEnded,
     ReceiveFrame, SamplingFails, SamplingDone, RequestBlackout, BlackoutAcknowledged,
     BlackoutRefused, BeginTeardown, JoinCapture, JoinWriter, writerVars, sharedVars
<1>1. CASE StallDetected \/ BeginTeardown
  <2>1. /\ generation' = BlackoutGeneration(generation) /\ ack' = ack /\ ack = "none"
        /\ Odd(generation')
    BY <1>b, <1>t, <1>1, BlackoutGenerationFacts DEF StallDetected, BeginTeardown, CoordinatorPart,
       NoRequest, Waits
  <2>2. CASE Even(generation)
    <3>1. generation' = generation + 1 /\ ~Odd(generation)
      BY <1>t, <2>1, <2>2, EvenOrOdd DEF BlackoutGeneration
    <3>2. Epoch' = Epoch
      BY <1>t, <2>1, <3>1 DEF Epoch
    <3>3. Phase = "open"
      BY <1>1, <3>1 DEF StallDetected, BeginTeardown, Phase, Joins
    <3>4. Phase' = "closing"
      BY <2>1 DEF Phase
    <3>5. UNCHANGED pipeline
      BY <1>t, <1>1, SlotValues DEF StallDetected, BeginTeardown, pipeline, captureVars, writerVars
    <3>6. Oldest' = Oldest
      BY <3>5, PipelineStays DEF ShowInv
    <3> QED BY <1>w, <3>2, <3>3, <3>4, <3>6 DEF Lights!Next, Lights!Close
  <2>3. CASE ~Even(generation)
    <3>1. generation' = generation /\ Odd(generation)
      BY <1>t, <2>1, <2>3, EvenOrOdd DEF BlackoutGeneration
    <3>2. Epoch' = Epoch /\ Phase' = Phase
      BY <2>1, <3>1 DEF Epoch, Phase
    <3> QED BY <1>n, <1>w, <3>2, WithinPhase
  <2> QED BY <2>2, <2>3
<1>2. CASE BlackoutAcknowledged
  <2>1. Odd(generation) /\ generation' = generation + 1 /\ Even(generation') /\ ack = "ok"
    BY <1>b, <1>t, <1>2, ResumeGenerationFacts DEF BlackoutAcknowledged, CoordinatorPart, Waits
  <2>2. ~Odd(generation')
    BY <1>t, <2>1, EvenOrOdd
  <2>3. Epoch' > Epoch
    BY <1>t, <2>1, <2>2 DEF Epoch
  <2>4. Phase = "dark" /\ Phase' \in {"open", "over"}
    BY <2>1, <2>2 DEF Phase
  <2>5. UNCHANGED pipeline
    BY <1>2 DEF BlackoutAcknowledged, pipeline, captureVars, writerVars
  <2>6. Oldest' = Oldest
    BY <2>5, PipelineStays DEF ShowInv
  <2> QED BY <1>w, <2>3, <2>4, <2>6 DEF Lights!Next, Lights!Reopen
<1>3. CASE RequestBlackout \/ BlackoutRefused
  <2>1. generation' = generation /\ Odd(generation) /\ ack # "ok" /\ ack' # "ok"
    BY <1>b, <1>3 DEF RequestBlackout, BlackoutRefused, CoordinatorPart, NoRequest, Waits
  <2>2. Epoch' = Epoch /\ Phase' = Phase
    BY <2>1 DEF Epoch, Phase
  <2> QED BY <1>n, <1>w, <2>2, WithinPhase
<1>4. CASE \/ CoordinatorCancelled \/ FramesEnded \/ ReceiveFrame \/ SamplingFails
           \/ SamplingDone \/ JoinCapture \/ JoinWriter
  <2>1. generation' = generation /\ ack' = ack /\ (spc' \in Joins <=> spc \in Joins)
    BY <1>4 DEF CoordinatorCancelled, FramesEnded, ReceiveFrame, SamplingFails,
       SamplingDone, JoinCapture, JoinWriter, Leave, Joins, sharedVars
  <2>2. Epoch' = Epoch /\ Phase' = Phase
    BY <2>1 DEF Epoch, Phase
  <2> QED BY <1>n, <1>w, <2>2, WithinPhase
<1> QED BY <1>1, <1>2, <1>3, <1>4 DEF CoordinatorSteps

(* The writer paints; a blackout that is done makes a closing epoch dark.    *)
LEMMA WriterShows ==
    ASSUME ShowInv, WriterSteps \/ SinkSteps
    PROVE  Lights!Next
<1>t. TypeOK
  BY DEF ShowInv, Inductive
<1>b. CoordinatorPart /\ RequestPart
  BY DEF ShowInv, Inductive, BlackoutProtocol
<1>n. [Next]_vars
  BY DEF Next
<1>1. generation' = generation /\ spc' = spc
  BY WriterStaysAway
<1>2. CASE BlackoutDone
  <2>1. light' = NoFrame /\ ack' = "ok" /\ spc \in Waits /\ ack = "pending"
    BY <1>b, <1>2 DEF BlackoutDone, CoordinatorPart, RequestPart, NoRequest
  <2>2. Odd(generation)
    BY <1>b, <2>1 DEF CoordinatorPart
  <2>3. Phase = "closing" /\ Phase' = "dark" /\ Epoch' = Epoch
    BY <1>1, <2>1, <2>2 DEF Phase, Epoch
  <2>4. UNCHANGED pipeline
    BY <1>2 DEF BlackoutDone, pipeline, captureVars, coordVars
  <2>5. Oldest' = Oldest
    BY <2>4, PipelineStays DEF ShowInv
  <2> QED BY <2>1, <2>3, <2>5 DEF Lights!Next, Lights!Darken
<1>3. CASE BlackoutFails
  <2>1. light' \in {light, NoFrame} /\ ack' # "ok" /\ ack # "ok"
    BY <1>b, <1>3 DEF BlackoutFails, RequestPart
  <2>2. Epoch' = Epoch /\ Phase' = Phase
    BY <1>1, <2>1 DEF Epoch, Phase
  <2> QED BY <1>n, <2>1, <2>2, WithinPhase
<1>4. CASE ~BlackoutDone /\ ~BlackoutFails
  <2>1. light' \in {light, w.current, NoFrame} /\ ack' = ack
    BY <1>4 DEF WriterSteps, SinkSteps, WakeSafety, WakeDeadline, WakeUpdate, WakeUpdatesEnded,
       WritePreempted, BeginBlackout, WriterEnds, WriteDone, WriteExpired, WriteGivenUp,
       WriteFails, sharedVars
  <2>2. Epoch' = Epoch /\ Phase' = Phase
    BY <1>1, <2>1 DEF Epoch, Phase
  <2> QED BY <1>n, <2>1, <2>2, WithinPhase
<1> QED BY <1>2, <1>3, <1>4

(* To a watcher of the lights the engine is LightShow: frames of one         *)
(* generation at a time and none older than one before it, and a new         *)
(* generation only after darkness that the writer has acknowledged, however  *)
(* its three tasks are scheduled (run_engine_with_sampler_and_metrics).      *)
THEOREM EngineImplementsLightShow == Spec => ImplementsLightShow
<1>1. ASSUME ShowInv, [Next]_vars PROVE [Lights!Next]_<<light, Epoch, Phase, Oldest>>
  <2>1. CASE CaptureSteps \/ SourceSteps \/ Stop \/ UNCHANGED vars
    <3>1. UNCHANGED <<generation, spc, ack, light>>
      BY <2>1, CaptureStaysAway
    <3>2. Epoch' = Epoch /\ Phase' = Phase
      BY <3>1 DEF Epoch, Phase
    <3> QED BY <1>1, <3>1, <3>2, WithinPhase
  <2>2. CASE CoordinatorSteps
    BY <1>1, <2>2, CoordinatorShows
  <2>3. CASE WriterSteps \/ SinkSteps
    BY <1>1, <2>3, WriterShows
  <2> QED BY <1>1, <2>1, <2>2, <2>3 DEF Next, Returned
<1> QED BY <1>1, ShowInvariant, LightsStart, PTL DEF Spec, ImplementsLightShow, Lights!ShowSpec

-----------------------------------------------------------------------------
(* The fades the writer shows and the reports that carry their colours: they *)
(* begin at what the lamps show, end at the target and stay there, and no    *)
(* zone waits for another.                                                   *)
Colors == [ZoneIds -> Colour]
Transitions ==
    [start : [ZoneIds -> Colour], target : Colors, startedAt : Nat \cup {NotStarted},
     durations : [ZoneIds -> Nat]]

(* The last write of a fade, which the writer recognises by is_complete at   *)
(* the instant of the colours it sends, sends the target itself, and once a  *)
(* fade is complete it is complete at every later instant: the writer may    *)
(* stop writing (src/engine.rs:931-932, 1016-1018).                          *)
THEOREM CompleteMeansTarget ==
    ASSUME NEW t \in Transitions, NEW now \in Nat, IsComplete(t, now),
           NEW later \in Nat, now <= later
    PROVE  ColorsAt(t, now) = t.target /\ IsComplete(t, later)
  <1>1. /\ t.target \in [ZoneIds -> Colour] /\ t.durations \in [ZoneIds -> Nat]
        /\ t.startedAt \in Nat \cup {NotStarted}
    BY DEF Transitions, Colors
  <1>2. CASE t.startedAt = NotStarted
    <2>1. \A zone \in ZoneIds : ColorAt(t, zone, now) = t.target[zone]
      BY <1>2 DEF ColorAt
    <2>. QED  BY <1>1, <1>2, <2>1 DEF ColorsAt, IsComplete
  <1>3. CASE t.startedAt # NotStarted
    <2>1. t.startedAt \in Nat
      BY <1>1, <1>3
    <2>2. \A zone \in ZoneIds : Elapsed(now, t.startedAt) >= t.durations[zone]
      BY <1>3 DEF IsComplete
    <2>3. \A zone \in ZoneIds : ColorAt(t, zone, now) = t.target[zone]
      BY <2>2 DEF ColorAt
    <2>4. /\ Elapsed(now, t.startedAt) \in Nat /\ Elapsed(later, t.startedAt) \in Nat
          /\ Elapsed(now, t.startedAt) <= Elapsed(later, t.startedAt)
      BY <2>1 DEF Elapsed
    <2>5. ASSUME NEW zone \in ZoneIds
          PROVE  Elapsed(later, t.startedAt) >= t.durations[zone]
      <3>1. t.durations[zone] \in Nat
        BY <1>1
      <3>. QED  BY <2>2, <2>4, <3>1
    <2>. QED  BY <1>1, <2>3, <2>5 DEF ColorsAt, IsComplete
  <1>. QED  BY <1>2, <1>3

(* An accepted update fades from what the lamps show, whatever fade it       *)
(* interrupts; a zone whose target is not black is at it after 90 ms, also   *)
(* while another zone takes 200 ms to go black; and all are after 200 ms     *)
(* (docs/color-pipeline.md:110-118).                                         *)
THEOREM EachZoneFadesOnItsOwn ==
    ASSUME NEW displayed \in Colors, NEW target \in Colors,
           NEW now \in Nat, NEW later \in Nat, NEW zone \in ZoneIds
    PROVE  LET t == Accepted(displayed, target, now)
           IN /\ t.start = displayed
              /\ later >= now + 90 /\ target[zone] # BlackColour
                     => ColorAt(t, zone, later) = target[zone]
              /\ later >= now + 200 => IsComplete(t, later)
  <1> DEFINE t == Accepted(displayed, target, now)
  <1>1. /\ t.start = ColorsAt(NewTransition(displayed, DEFAULT_TRANSITION_DURATION), now)
        /\ t.target = target /\ t.startedAt = now
        /\ t.durations = NormalTransitionDurations(displayed, target)
    BY DEF Accepted, RetargetWithZoneDurations
  <1>2. ColorsAt(NewTransition(displayed, DEFAULT_TRANSITION_DURATION), now) = displayed
    BY DEF ColorsAt, ColorAt, NewTransition, Colors
  <1> HIDE DEF t
  <1>3. /\ \A z \in ZoneIds : t.durations[z] \in {90, 200}
        /\ target[zone] # BlackColour => t.durations[zone] = 90
    BY <1>1 DEF NormalTransitionDurations, DEFAULT_TRANSITION_DURATION,
                NORMAL_FADE_TO_BLACK_DURATION
  <1>4. ASSUME NEW n \in Nat, later >= now + n PROVE Elapsed(later, now) >= n
    BY <1>4 DEF Elapsed
  <1>5. ASSUME later >= now + 90, target[zone] # BlackColour
        PROVE  ColorAt(t, zone, later) = target[zone]
    <2>1. Elapsed(later, t.startedAt) >= t.durations[zone]
      BY <1>1, <1>3, <1>4, <1>5
    <2>. QED  BY <1>1, <2>1 DEF ColorAt
  <1>6. ASSUME later >= now + 200 PROVE IsComplete(t, later)
    <2>1. Elapsed(later, now) \in Nat /\ Elapsed(later, now) >= 200
      BY <1>4, <1>6 DEF Elapsed
    <2>2. ASSUME NEW z \in ZoneIds PROVE Elapsed(later, now) >= t.durations[z]
      <3>1. t.durations[z] = 90 \/ t.durations[z] = 200
        BY <1>3
      <3>. QED  BY <2>1, <3>1
    <2>. QED  BY <1>1, <2>2 DEF IsComplete
  <1>. QED  BY <1>1, <1>2, <1>5, <1>6 DEF t

(* Two reports that the speaker cannot tell apart carry the same zone and    *)
(* the same colour: a write for one zone never lights another.               *)
THEOREM ReportsAreDistinct ==
    ASSUME NEW zone \in ZoneIds, NEW other \in ZoneIds,
           NEW color \in [r : 0..255, g : 0..255, b : 0..255],
           NEW shade \in [r : 0..255, g : 0..255, b : 0..255],
           EncodeSolid(zone, color) = EncodeSolid(other, shade)
    PROVE  zone = other /\ color = shade
  <1>1. ASSUME NEW i \in 1..9
        PROVE  <<17, 255, 4, 58, ZoneIndex(zone), 1, color.r, color.g, color.b>>[i]
                   = <<17, 255, 4, 58, ZoneIndex(other), 1, shade.r, shade.g, shade.b>>[i]
    <2>1. i \in 1..REPORT_LEN /\ ~(i > 9)
      BY DEF REPORT_LEN
    <2>2. EncodeSolid(zone, color)[i]
              = <<17, 255, 4, 58, ZoneIndex(zone), 1, color.r, color.g, color.b>>[i]
      BY <2>1 DEF EncodeSolid, EncodeSolidIndex
    <2>3. EncodeSolid(other, shade)[i]
              = <<17, 255, 4, 58, ZoneIndex(other), 1, shade.r, shade.g, shade.b>>[i]
      BY <2>1 DEF EncodeSolid, EncodeSolidIndex
    <2>. QED  BY <2>2, <2>3
  <1>2. /\ ZoneIndex(zone) = ZoneIndex(other)
        /\ color.r = shade.r /\ color.g = shade.g /\ color.b = shade.b
    BY <1>1, 5 \in 1..9, 7 \in 1..9, 8 \in 1..9, 9 \in 1..9
  <1>3. zone = other
    BY <1>2 DEF ZoneIndex, ZoneIds
  <1>. QED  BY <1>2, <1>3
=============================================================================
