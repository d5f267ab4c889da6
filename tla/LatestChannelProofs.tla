------------------------ MODULE LatestChannelProofs ------------------------
(***************************************************************************)
(* The lock-by-lock channel implements the atomic slot, for any number of    *)
(* sends.                                                                    *)
(***************************************************************************)
EXTENDS LatestChannel, TLAPS

(* Who holds the mutex, and what the open ends are doing.                    *)
HoldersPart ==
    /\ lock = "tx" <=> spc # "idle"
    /\ lock = "rx" <=> rpc \in {"take", "try"}
    /\ spc # "idle" => txOpen
    /\ rpc # "idle" => rxOpen
    /\ spc = "locked" => sent < MaxSends /\ reports = unread

(* The watch has seen every send, and the receiver has an unread value       *)
(* exactly when there is a version that it was not told of, or it was told   *)
(* and has not taken it yet.                                                 *)
FreshnessPart ==
    /\ value = sent /\ version = sent
    /\ Unread => sent # 0
    /\ rpc \in {"tell", "take"} => Unread
    /\ rpc \notin {"tell", "take"} => (Unread <=> seen # version)

CountPart == sent = received + replaced + (IF Unread THEN 1 ELSE 0)

ChannelInv == TypeOK /\ HoldersPart /\ FreshnessPart /\ CountPart

(* The counters are numbers within the bound, each by itself.                *)
Numbers ==
    /\ sent \in Nat /\ replaced \in Nat /\ received \in Nat /\ newest \in Nat
    /\ sent <= MaxSends /\ replaced <= MaxSends /\ received <= MaxSends /\ newest <= MaxSends
OtherTypes ==
    /\ value \in 0..MaxSends /\ version \in 0..MaxSends /\ seen \in 0..version
    /\ txOpen \in BOOLEAN /\ rxOpen \in BOOLEAN /\ unread \in BOOLEAN
    /\ lock \in {"free", "tx", "rx"}
    /\ spc \in {"idle", "locked", "mark", "refused"} /\ reports \in BOOLEAN
    /\ rpc \in {"idle", "recv", "tell", "take", "try"}
    /\ finished \in BOOLEAN
LEMMA VersionRange == \A n \in 0..MaxSends : n \in 0..n
  BY SendsAssumption
LEMMA CountersAreNumbers ==
    /\ TypeOK <=> Numbers /\ OtherTypes
    /\ TypeOK' <=> Numbers' /\ OtherTypes'
  <1>1. \A n : n \in 0..MaxSends <=> n \in Nat /\ n <= MaxSends
    BY SendsAssumption
  <1> QED BY <1>1, Zenon DEF Numbers, OtherTypes, TypeOK

LEMMA InitInv == Init => ChannelInv
  <1> SUFFICES ASSUME Init PROVE ChannelInv
    OBVIOUS
  <1>1. Numbers
    BY SendsAssumption DEF Init, Numbers
  <1>2. OtherTypes
    <2>1. 0 \in 0..MaxSends /\ 0 \in 0..0
      BY SendsAssumption
    <2> QED BY <2>1, Zenon DEF Init, OtherTypes
  <1>3. TypeOK
    BY <1>1, <1>2, CountersAreNumbers
  <1> QED BY <1>3, SendsAssumption DEF Init, ChannelInv, HoldersPart, FreshnessPart, CountPart, Unread

-----------------------------------------------------------------------------
(* The sender's steps.                                                       *)
LEMMA SenderStep ==
    ChannelInv /\ (SendLock \/ SendWatch \/ SendUnlock \/ DropSender) => ChannelInv'
  <1> SUFFICES ASSUME ChannelInv PROVE SendLock \/ SendWatch \/ SendUnlock \/ DropSender => ChannelInv'
    OBVIOUS
  <1> USE SendsAssumption
  <1>1. ASSUME SendLock PROVE ChannelInv'
    BY <1>1 DEF SendLock, ends, rxVars, ChannelInv, TypeOK, HoldersPart, FreshnessPart, CountPart, Unread
  <1>2. ASSUME SendWatch PROVE ChannelInv'
    BY <1>2 DEF SendWatch, ends, rxVars, ChannelInv, TypeOK, HoldersPart, FreshnessPart, CountPart, Unread
  <1>3. ASSUME SendUnlock PROVE ChannelInv'
    BY <1>3 DEF SendUnlock, ends, rxVars, ChannelInv, TypeOK, HoldersPart, FreshnessPart, CountPart, Unread
  <1>4. ASSUME DropSender PROVE ChannelInv'
    BY <1>4 DEF DropSender, txVars, rxVars, ChannelInv, TypeOK, HoldersPart, FreshnessPart, CountPart, Unread
  <1> QED BY <1>1, <1>2, <1>3, <1>4

(* The receiver's steps up to the mutex.                                     *)
LEMMA WaitingStep ==
    ChannelInv /\ (RecvCall \/ RecvAbandon \/ RecvChanged \/ RecvClosed) => ChannelInv'
  <1> SUFFICES ASSUME ChannelInv PROVE RecvCall \/ RecvAbandon \/ RecvChanged \/ RecvClosed => ChannelInv'
    OBVIOUS
  <1> USE SendsAssumption
  <1>1. ASSUME RecvCall PROVE ChannelInv'
    BY <1>1 DEF RecvCall, ends, txVars, ChannelInv, TypeOK, HoldersPart, FreshnessPart, CountPart, Unread
  <1>2. ASSUME RecvAbandon PROVE ChannelInv'
    BY <1>2 DEF RecvAbandon, ends, txVars, ChannelInv, TypeOK, HoldersPart, FreshnessPart, CountPart, Unread
  <1>3. ASSUME RecvChanged PROVE ChannelInv'
    BY <1>3 DEF RecvChanged, ends, txVars, ChannelInv, TypeOK, HoldersPart, FreshnessPart, CountPart, Unread
  <1>4. ASSUME RecvClosed PROVE ChannelInv'
    BY <1>4 DEF RecvClosed, ends, txVars, ChannelInv, TypeOK, HoldersPart, FreshnessPart, CountPart, Unread
  <1> QED BY <1>1, <1>2, <1>3, <1>4

(* What it does with the mutex.                                              *)
LEMMA TakingStep ==
    ChannelInv /\ (RecvLock \/ RecvTake \/ TryLock \/ TryTake \/ DropReceiver) => ChannelInv'
  <1> SUFFICES ASSUME ChannelInv
               PROVE RecvLock \/ RecvTake \/ TryLock \/ TryTake \/ DropReceiver => ChannelInv'
    OBVIOUS
  <1> USE SendsAssumption DEF VersionSeen, FlagCleared
  <1>1. ASSUME RecvLock PROVE ChannelInv'
    BY <1>1 DEF RecvLock, ends, txVars, ChannelInv, TypeOK, HoldersPart, FreshnessPart, CountPart, Unread
  <1>2. ASSUME RecvTake PROVE ChannelInv'
    <2>1. Numbers /\ Unread /\ unread /\ value # 0 /\ value = sent /\ spc = "idle"
      BY <1>2, CountersAreNumbers DEF RecvTake, ChannelInv, TypeOK, HoldersPart, FreshnessPart, Unread
    <2>2. /\ received' = received + 1 /\ newest' = value /\ seen' = version /\ unread' = FALSE
          /\ lock' = "free" /\ rpc' = "idle"
          /\ value' = value /\ version' = version /\ spc' = spc /\ reports' = reports
          /\ sent' = sent /\ replaced' = replaced /\ txOpen' = txOpen /\ rxOpen' = rxOpen
          /\ finished' = finished
      BY <1>2, <2>1 DEF RecvTake, ends, txVars
    <2>3. Numbers' /\ CountPart'
      BY <2>1, <2>2 DEF Numbers, ChannelInv, CountPart, Unread
    <2>4. OtherTypes /\ OtherTypes'
      <3>1. OtherTypes
        BY CountersAreNumbers DEF ChannelInv
      <3>2. OtherTypes'
        BY <2>2, <3>1, VersionRange, Zenon DEF OtherTypes
      <3> QED BY <3>1, <3>2
    <2>5. TypeOK'
      BY <2>3, <2>4, CountersAreNumbers
    <2> QED BY <2>1, <2>2, <2>3, <2>5 DEF ChannelInv, HoldersPart, FreshnessPart, Unread
  <1>3. ASSUME TryLock PROVE ChannelInv'
    BY <1>3 DEF TryLock, ends, txVars, ChannelInv, TypeOK, HoldersPart, FreshnessPart, CountPart, Unread
  <1>4. ASSUME TryTake PROVE ChannelInv'
    <2>1. CASE unread
      <3>1. Numbers /\ Unread /\ value = sent /\ spc = "idle"
        BY <1>4, <2>1, CountersAreNumbers DEF TryTake, ChannelInv, TypeOK, HoldersPart, FreshnessPart, Unread
      <3>2. /\ received' = received + 1 /\ newest' = value /\ seen' = version /\ unread' = FALSE
            /\ lock' = "free" /\ rpc' = "idle"
            /\ value' = value /\ version' = version /\ spc' = spc /\ reports' = reports
            /\ sent' = sent /\ replaced' = replaced /\ txOpen' = txOpen /\ rxOpen' = rxOpen
            /\ finished' = finished
        BY <1>4, <2>1 DEF TryTake, ends, txVars
      <3>3. Numbers' /\ CountPart'
        BY <3>1, <3>2 DEF Numbers, ChannelInv, CountPart, Unread
      <3>4. OtherTypes /\ OtherTypes'
        <4>1. OtherTypes
          BY CountersAreNumbers DEF ChannelInv
        <4>2. OtherTypes'
          BY <3>2, <4>1, VersionRange, Zenon DEF OtherTypes
        <4> QED BY <4>1, <4>2
      <3>5. TypeOK'
        BY <3>3, <3>4, CountersAreNumbers
      <3> QED BY <3>1, <3>2, <3>3, <3>5 DEF ChannelInv, HoldersPart, FreshnessPart, Unread
    <2>2. CASE ~unread
      BY <1>4, <2>2 DEF TryTake, ends, txVars, ChannelInv, TypeOK, HoldersPart, FreshnessPart, CountPart, Unread
    <2> QED BY <2>1, <2>2
  <1>5. ASSUME DropReceiver PROVE ChannelInv'
    BY <1>5 DEF DropReceiver, txVars, rxVars, ChannelInv, TypeOK, HoldersPart, FreshnessPart, CountPart, Unread
  <1> QED BY <1>1, <1>2, <1>3, <1>4, <1>5

LEMMA StutterStep == ChannelInv /\ UNCHANGED vars => ChannelInv'
  BY DEF vars, ChannelInv, TypeOK, HoldersPart, FreshnessPart, CountPart, Unread

LEMMA InductiveStep == ChannelInv /\ [Next]_vars => ChannelInv'
  BY SenderStep, WaitingStep, TakingStep, StutterStep DEF Next

LEMMA ChannelInvariant == Spec => []ChannelInv
  BY InitInv, InductiveStep, PTL DEF Spec

-----------------------------------------------------------------------------
(* Every value sent is received once, was reported as replaced once, or is   *)
(* still unread, with types and with flag and watch in agreement, for any    *)
(* number of sends.                                                          *)
THEOREM EverySendCounts == Spec => []SendsAccountedFor
  <1>1. ChannelInv => FlagAgreesWithWatch
    BY DEF ChannelInv, HoldersPart, FreshnessPart, FlagAgreesWithWatch, Unread
  <1>2. ChannelInv => SendsAccountedFor
    BY <1>1 DEF ChannelInv, CountPart, SendsAccountedFor
  <1> QED BY <1>2, ChannelInvariant, PTL

(* The channel implements the slot: a send takes effect when the watch has   *)
(* the value, a receive when it is taken, and every other step of the locks  *)
(* and of the flag leaves the slot as it is.                                 *)
THEOREM ChannelImplementsSlot == Spec => SlotRefinement
  <1>1. Init => Slot!SlotInit
    BY DEF Init, Slot!SlotInit, Slot!FreshSlot, Unread
  <1>2. ASSUME ChannelInv, [Next]_vars
        PROVE  [Slot!SlotNext]_(Slot!slotVars)
    <2> DEFINE slot == [val |-> IF Unread THEN value ELSE 0, tx |-> txOpen, rx |-> rxOpen]
    <2>1. CASE SendWatch
      <3>1. CASE rxOpen
        <4>1. slot.tx /\ slot.rx /\ sent < MaxSends /\ (slot.val # 0 <=> reports)
          BY <1>2, <2>1, <3>1 DEF SendWatch, ChannelInv, HoldersPart, FreshnessPart, Unread
        <4>2. slot' = [val |-> sent + 1, tx |-> txOpen, rx |-> rxOpen]
          BY <2>1, <3>1 DEF SendWatch, Unread, ends
        <4>3. slot' = [slot EXCEPT !.val = sent + 1]
          BY <4>2
        <4>4. /\ sent' = sent + 1 /\ replaced' = IF slot.val # 0 THEN replaced + 1 ELSE replaced
              /\ UNCHANGED <<received, newest, finished>>
          BY <2>1, <3>1, <4>1 DEF SendWatch, rxVars
        <4>5. Slot!SlotSend
          BY <4>1, <4>3, <4>4 DEF Slot!SlotSend, Slot!HasItem, Slot!Put
        <4> QED BY <4>5 DEF Slot!SlotNext
      <3>2. CASE ~rxOpen
        BY <1>2, <2>1, <3>2 DEF SendWatch, ends, rxVars, Unread, ChannelInv, HoldersPart, Slot!slotVars
      <3> QED BY <3>1, <3>2
    <2>2. CASE RecvTake \/ (TryTake /\ unread)
      <3>1. slot.rx /\ slot.val # 0 /\ slot.val = value /\ spc = "idle"
        BY <1>2, <2>2 DEF RecvTake, TryTake, ChannelInv, HoldersPart, FreshnessPart, Unread
      <3>2. newest' = value /\ received' = received + 1 /\ unread' = FALSE
            /\ UNCHANGED <<value, ends, txVars, finished>>
        BY <1>2, <2>2, <3>1 DEF RecvTake, TryTake, FlagCleared, ChannelInv, FreshnessPart
      <3>3. slot' = [val |-> 0, tx |-> txOpen, rx |-> rxOpen]
        BY <3>1, <3>2 DEF Unread, ends, txVars
      <3>4. slot' = [slot EXCEPT !.val = 0]
        BY <3>3
      <3>5. Slot!SlotReceive
        BY <3>1, <3>2, <3>4 DEF txVars, Slot!SlotReceive, Slot!HasItem, Slot!Taken
      <3> QED BY <3>5 DEF Slot!SlotNext
    <2>3. CASE TryTake /\ ~unread
      BY <2>3 DEF TryTake, ends, txVars, Unread, Slot!slotVars
    <2>4. CASE RecvClosed
      <3>1. slot.rx /\ slot.val = 0 /\ ~slot.tx
        BY <1>2, <2>4 DEF RecvClosed, ChannelInv, HoldersPart, FreshnessPart, Unread
      <3>2. UNCHANGED slot
        BY <2>4 DEF RecvClosed, ends, txVars, Unread
      <3>3. Slot!SlotFinish
        BY <2>4, <3>1, <3>2 DEF RecvClosed, txVars, Slot!SlotFinish, Slot!Ended, Slot!HasItem
      <3> QED BY <3>3 DEF Slot!SlotNext
    <2>5. CASE DropSender
      <3>1. slot.tx /\ slot'.tx = FALSE /\ slot'.val = slot.val /\ slot'.rx = slot.rx
        BY <2>5 DEF DropSender, txVars, Unread
      <3>2. Slot!SlotDropTx
        BY <2>5, <3>1 DEF DropSender, txVars, rxVars, Slot!SlotDropTx, Slot!WithoutTx
      <3> QED BY <3>2 DEF Slot!SlotNext
    <2>6. CASE DropReceiver
      <3>1. slot.rx /\ slot'.rx = FALSE /\ slot'.val = slot.val /\ slot'.tx = slot.tx
        BY <2>6 DEF DropReceiver, txVars, Unread
      <3>2. Slot!SlotDropRx
        BY <2>6, <3>1 DEF DropReceiver, txVars, rxVars, Slot!SlotDropRx, Slot!WithoutRx
      <3> QED BY <3>2 DEF Slot!SlotNext
    <2>7. CASE SendLock
      BY <1>2, <2>7 DEF SendLock, ends, rxVars, Unread, ChannelInv, HoldersPart, Slot!slotVars
    <2>8. CASE SendUnlock
      <3>1. Unread' <=> Unread
        BY <2>8 DEF SendUnlock, Unread
      <3> QED BY <2>8, <3>1 DEF SendUnlock, ends, rxVars, Slot!slotVars
    <2>9. CASE RecvCall \/ RecvAbandon \/ RecvChanged \/ RecvLock \/ TryLock
      BY <2>9 DEF RecvCall, RecvAbandon, RecvChanged, RecvLock, TryLock, ends, txVars, Unread,
         Slot!slotVars
    <2>10. CASE UNCHANGED vars
      BY <2>10 DEF vars, Unread, Slot!slotVars
    <2> QED BY <2>1, <2>2, <2>3, <2>4, <2>5, <2>6, <2>7, <2>8, <2>9, <2>10, <1>2 DEF Next
  <1> QED BY <1>1, <1>2, ChannelInvariant, PTL DEF Spec, SlotRefinement, Slot!SlotSpec
=============================================================================
