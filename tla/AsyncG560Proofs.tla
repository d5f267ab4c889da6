--------------------------- MODULE AsyncG560Proofs ---------------------------
(***************************************************************************)
(* The adapter, for any number of calls, any length of queue, any number of  *)
(* zones and any colours: what becomes of the safety flag, when a write may  *)
(* expire, what may light the speaker after a blackout, and that a client    *)
(* that awaits its calls has the synchronous driver.                         *)
(***************************************************************************)
EXTENDS AsyncG560, SequenceTheorems, TLAPS

USE QueueAssumption, CallsAssumption

(* A call is in one place on its way to the worker, and has no answer there. *)
PoolPart ==
    \A i \in pool : /\ reply[i] = "none" /\ i # serving
                    /\ \A k \in DOMAIN queue : queue[k] # i
QueuePart ==
    /\ \A k \in DOMAIN queue : reply[queue[k]] = "none" /\ queue[k] # serving
    /\ \A k, l \in DOMAIN queue : queue[k] = queue[l] => k = l
WorkerPart ==
    /\ wpc \in {"recv", "done"} <=> serving = NoCall
    /\ wpc \in {"look", "work"} => reply[serving] = "none"
    /\ wpc = "look" => command[serving].kind = "write"
    /\ wpc = "clear" => command[serving].kind = "blackout"
(* The client awaits its last call only; one that has no answer and is not   *)
(* awaited was given up.                                                     *)
ClientPart ==
    /\ awaiting \in {NoCall, made}
    /\ \A i \in Made : reply[i] = "none" /\ i # awaiting => i \in abandoned

AdapterInv ==
    /\ TypeOK /\ PoolPart /\ QueuePart /\ WorkerPart /\ ClientPart
    /\ SafetyFlagHasOwner /\ DarkUntilNextWrite /\ ExpiryHasACause

-----------------------------------------------------------------------------
(* A function on 1..n is a sequence, and a call appends to it.               *)
LEMMA AppendCall ==
    ASSUME NEW S, NEW n \in Nat, NEW f \in [1..n -> S], NEW e \in S
    PROVE  /\ Append(f, e) \in [1..n + 1 -> S]
           /\ \A i \in 1..n : Append(f, e)[i] = f[i]
           /\ Append(f, e)[n + 1] = e
  <1>1. f \in Seq(S) /\ Len(f) = n
    BY IsASeq, LenProperties
  <1>2. /\ Append(f, e) \in Seq(S) /\ Len(Append(f, e)) = n + 1
        /\ \A i \in 1..n : Append(f, e)[i] = f[i]
        /\ Append(f, e)[n + 1] = e
    BY <1>1, AppendProperties
  <1>3. Append(f, e) \in [1..Len(Append(f, e)) -> S]
    BY <1>2, LenProperties
  <1> QED BY <1>2, <1>3

LEMMA QueueFacts ==
    ASSUME NEW S, NEW q \in Seq(S)
    PROVE  /\ Len(q) \in Nat /\ DOMAIN q = 1..Len(q) /\ \A k \in DOMAIN q : q[k] \in S
           /\ q # <<>> => /\ 1 \in DOMAIN q /\ Head(q) = q[1] /\ Head(q) \in S
                          /\ Tail(q) \in Seq(S) /\ Len(Tail(q)) = Len(q) - 1
                          /\ \A k \in DOMAIN Tail(q) :
                                 k + 1 \in DOMAIN q /\ k + 1 # 1 /\ k \in Nat /\ Tail(q)[k] = q[k + 1]
                          /\ \A k \in DOMAIN q : k = 1 \/ (k - 1 \in DOMAIN Tail(q) /\ Tail(q)[k - 1] = q[k])
           /\ \A e \in S : /\ Append(q, e) \in Seq(S) /\ Len(Append(q, e)) = Len(q) + 1
                           /\ DOMAIN Append(q, e) = DOMAIN q \cup {Len(q) + 1}
                           /\ Len(q) + 1 \notin DOMAIN q
                           /\ \A k \in DOMAIN q : Append(q, e)[k] = q[k]
                           /\ Append(q, e)[Len(q) + 1] = e
  <1>1. Len(q) \in Nat /\ DOMAIN q = 1..Len(q) /\ \A k \in DOMAIN q : q[k] \in S
    BY LenProperties, ElementOfSeq
  <1>2. ASSUME q # <<>>
        PROVE  /\ Len(q) > 0 /\ Head(q) = q[1] /\ Head(q) \in S
               /\ Tail(q) \in Seq(S) /\ Len(Tail(q)) = Len(q) - 1 /\ DOMAIN Tail(q) = 1..Len(q) - 1
               /\ \A k \in 1..Len(q) - 1 : Tail(q)[k] = q[k + 1]
    <2>1. Head(q) \in S /\ Tail(q) \in Seq(S)
      BY <1>2, HeadTailProperties
    <2>2. Len(q) > 0 /\ Len(Tail(q)) = Len(q) - 1 /\ \A k \in 1..Len(Tail(q)) : Tail(q)[k] = q[k + 1]
      BY <1>1, <1>2, HeadTailProperties, EmptySeq, LenProperties
    <2>3. DOMAIN Tail(q) = 1..Len(Tail(q))
      BY <2>1, LenProperties
    <2>4. Head(q) = q[1]
      OBVIOUS
    <2> QED BY <2>1, <2>2, <2>3, <2>4
  <1>3. q # <<>> => /\ 1 \in DOMAIN q /\ Head(q) = q[1] /\ Head(q) \in S
                    /\ Tail(q) \in Seq(S) /\ Len(Tail(q)) = Len(q) - 1
                    /\ \A k \in DOMAIN Tail(q) :
                           k + 1 \in DOMAIN q /\ k + 1 # 1 /\ k \in Nat /\ Tail(q)[k] = q[k + 1]
                    /\ \A k \in DOMAIN q : k = 1 \/ (k - 1 \in DOMAIN Tail(q) /\ Tail(q)[k - 1] = q[k])
    BY <1>1, <1>2
  <1>4. ASSUME NEW e \in S
        PROVE  /\ Append(q, e) \in Seq(S) /\ Len(Append(q, e)) = Len(q) + 1
               /\ DOMAIN Append(q, e) = DOMAIN q \cup {Len(q) + 1}
               /\ Len(q) + 1 \notin DOMAIN q
               /\ \A k \in DOMAIN q : Append(q, e)[k] = q[k]
               /\ Append(q, e)[Len(q) + 1] = e
    <2>1. /\ Append(q, e) \in Seq(S) /\ Len(Append(q, e)) = Len(q) + 1
          /\ \A k \in 1..Len(q) : Append(q, e)[k] = q[k] /\ Append(q, e)[Len(q) + 1] = e
      BY AppendProperties
    <2>2. Append(q, e)[Len(q) + 1] = e
      BY AppendProperties
    <2>3. DOMAIN Append(q, e) = 1..Len(q) + 1
      BY <2>1, LenProperties
    <2> QED BY <1>1, <2>1, <2>2, <2>3
  <1> QED BY <1>1, <1>3, <1>4

(* The commands made are writes and blackouts of frames.                     *)
LEMMA CommandFacts ==
    ASSUME TypeOK
    PROVE  /\ made \in Nat /\ Made = 1..made /\ AllBlack \in Frames
           /\ \A i \in Made : /\ command[i].kind \in {"write", "blackout"}
                              /\ command[i].colours \in Frames /\ reply[i] \in Replies
  <1>1. AllBlack \in Frames
    BY ColoursAssumption DEF AllBlack, Frames
  <1>2. \A c \in Commands : c.kind \in {"write", "blackout"} /\ c.colours \in Frames
    BY <1>1 DEF Commands, Writes, Blackouts
  <1> QED BY <1>1, <1>2 DEF TypeOK, Made

(* What an operation of the driver leaves is a device.                       *)
LEMMA OutcomeFacts ==
    ASSUME NEW d \in Devices, NEW frame \in Frames,
           NEW o \in PaintOutcomes(d, frame) \cup WriteOutcomes(d, frame)
    PROVE  /\ o.device \in Devices /\ o.ok \in BOOLEAN
           /\ frame = AllBlack /\ d.lamps = AllBlack => o.device.lamps = AllBlack
           /\ o \in PaintOutcomes(d, frame) /\ o.ok => o.device.lamps = frame
           /\ o \in WriteOutcomes(d, frame) /\ d.previous = frame => o.device = d /\ o.ok
  <1>1. d.lamps \in Frames /\ d.previous \in Frames \cup {NoFrame}
    BY DEF Devices
  <1>2. CASE o = Done(frame, frame)
    <2>1. o.device.lamps = frame /\ o.device.previous = frame /\ o.ok = TRUE /\ o.device \in Devices
      BY <1>2 DEF Done, Devices
    <2>2. o \in WriteOutcomes(d, frame) /\ d.previous = frame => o.device = d
      BY DEF WriteOutcomes
    <2> QED BY <2>1, <2>2
  <1>3. ASSUME NEW z \in Zones, NEW hit \in BOOLEAN,
               o = Failed(Painted(d.lamps, frame, z, hit), d.previous)
        PROVE  /\ o.device \in Devices /\ o.ok = FALSE
               /\ frame = AllBlack /\ d.lamps = AllBlack => o.device.lamps = AllBlack
               /\ o \in WriteOutcomes(d, frame) => d.previous # frame
    <2>1. Painted(d.lamps, frame, z, hit) \in Frames
      BY <1>1 DEF Painted, Frames
    <2>2. frame = AllBlack /\ d.lamps = AllBlack => Painted(d.lamps, frame, z, hit) = AllBlack
      BY DEF Painted, AllBlack
    <2>3. o.ok = FALSE /\ o.device.lamps = Painted(d.lamps, frame, z, hit) /\ o.device \in Devices
      BY <1>1, <1>3, <2>1 DEF Failed, Devices
    <2>4. o \in WriteOutcomes(d, frame) /\ d.previous = frame => o.ok = TRUE
      BY DEF WriteOutcomes
    <2> QED BY <2>2, <2>3, <2>4
  <1>4. CASE d.previous = frame /\ o = [device |-> d, ok |-> TRUE]
    <2>1. ASSUME NEW p \in PaintOutcomes(d, frame) PROVE p = Done(frame, frame) \/ p.ok = FALSE
      BY DEF PaintOutcomes, Failed
    <2>2. o \in PaintOutcomes(d, frame) => o.device.lamps = frame
      <3>1. o.ok = TRUE
        BY <1>4
      <3>2. Done(frame, frame).device.lamps = frame
        BY DEF Done
      <3> QED BY <2>1, <3>1, <3>2
    <2> QED BY <1>4, <2>2
  <1>5. \/ o = Done(frame, frame)
        \/ \E z \in Zones, hit \in BOOLEAN : o = Failed(Painted(d.lamps, frame, z, hit), d.previous)
        \/ d.previous = frame /\ o = [device |-> d, ok |-> TRUE]
    BY DEF PaintOutcomes, WriteOutcomes
  <1> QED BY <1>2, <1>3, <1>4, <1>5

LEMMA SeqGrows ==
    ASSUME NEW S, NEW T, S \subseteq T, NEW q \in Seq(S)
    PROVE  q \in Seq(T)
  <1>1. q \in [1..Len(q) -> S] /\ Len(q) \in Nat
    BY LenProperties
  <1>2. q \in [1..Len(q) -> T]
    BY <1>1
  <1> QED BY <1>1, <1>2, IsASeq

-----------------------------------------------------------------------------
LEMMA AdapterInit == Init => AdapterInv
  <1> SUFFICES ASSUME Init PROVE AdapterInv
    OBVIOUS
  <1>1. \A lamps \in Frames : Opened(lamps) \in Devices
    BY DEF Opened, Devices
  <1>2. TypeOK
    <2>1. queue \in Seq(1..made) /\ Len(queue) <= QueueLength
      <3>1. queue = <<>>
        BY DEF Init
      <3>2. Len(queue) = 0 /\ queue \in Seq(1..made)
        BY <3>1, EmptySeq
      <3> QED BY <3>2
    <2>0. made \in 0..MaxCalls /\ 0 \in 0..made
      BY DEF Init
    <2>2. command \in [1..made -> Commands] /\ reply \in [1..made -> Replies]
      BY DEF Init
    <2>3. device \in Devices
      BY <1>1 DEF Init
    <2> QED BY <2>0, <2>1, <2>2, <2>3 DEF Init, TypeOK, NoCall
  <1>3. Made = {} /\ DOMAIN queue = {} /\ pool = {}
    BY DEF Init, Made
  <1> QED BY <1>2, <1>3 DEF Init, AdapterInv, PoolPart, QueuePart, WorkerPart, ClientPart,
       SafetyFlagHasOwner, DarkUntilNextWrite, ExpiryHasACause, NoCall

(* A call goes to the pool; a blackout that is on its way owns the flag it   *)
(* raised.                                                                   *)
LEMMA CallStep ==
    ASSUME AdapterInv, NEW c \in Commands, Call(c),
           safety' \in BOOLEAN, safety' => safety \/ c.kind = "blackout"
    PROVE  AdapterInv'
  <1>0. /\ made \in Nat /\ made' = made + 1 /\ made' <= MaxCalls /\ awaiting = NoCall
        /\ abandoned \subseteq 1..made /\ pool \subseteq 1..made /\ serving \in 0..made
        /\ command \in [1..made -> Commands] /\ reply \in [1..made -> Replies]
    BY DEF Call, AdapterInv, TypeOK
  <1>1. /\ made \in Nat /\ made' = made + 1 /\ made' <= MaxCalls /\ awaiting = NoCall
        /\ Made = 1..made /\ Made' = Made \cup {made + 1} /\ made + 1 \notin Made
        /\ abandoned \subseteq Made /\ pool \subseteq Made /\ serving \in 0..made
    BY <1>0 DEF Made
  <1>2. /\ command' \in [1..made + 1 -> Commands] /\ command'[made + 1] = c
        /\ \A i \in Made : command'[i] = command[i]
    <2>1. /\ Append(command, c) \in [1..made + 1 -> Commands]
          /\ \A i \in 1..made : Append(command, c)[i] = command[i]
          /\ Append(command, c)[made + 1] = c
      <3>1. made \in Nat /\ command \in [1..made -> Commands] /\ c \in Commands
        BY <1>0
      <3>2. Append(command, c) \in [1..made + 1 -> Commands]
        BY <3>1, AppendCall
      <3>3. \A i \in 1..made : Append(command, c)[i] = command[i]
        BY <3>1, AppendCall
      <3>4. Append(command, c)[made + 1] = c
        BY <3>1, AppendCall
      <3> QED BY <3>2, <3>3, <3>4
    <2> QED BY <1>1, <2>1 DEF Call
  <1>3. /\ reply' \in [1..made + 1 -> Replies] /\ reply'[made + 1] = "none"
        /\ \A i \in Made : reply'[i] = reply[i]
    <2>1. "none" \in Replies
      BY DEF Replies
    <2>2. /\ Append(reply, "none") \in [1..made + 1 -> Replies]
          /\ \A i \in 1..made : Append(reply, "none")[i] = reply[i]
          /\ Append(reply, "none")[made + 1] = "none"
      <3>1. made \in Nat /\ reply \in [1..made -> Replies]
        BY <1>0
      <3>2. Append(reply, "none") \in [1..made + 1 -> Replies]
        BY <2>1, <3>1, AppendCall
      <3>3. \A i \in 1..made : Append(reply, "none")[i] = reply[i]
        BY <2>1, <3>1, AppendCall
      <3>4. Append(reply, "none")[made + 1] = "none"
        BY <2>1, <3>1, AppendCall
      <3> QED BY <3>2, <3>3, <3>4
    <2> QED BY <1>1, <2>2 DEF Call
  <1>4. /\ queue' = queue /\ queue \in Seq(Made) /\ queue \in Seq(Made')
        /\ \A k \in DOMAIN queue : queue[k] \in Made
    BY <1>1, SeqGrows, QueueFacts DEF Call, AdapterInv, TypeOK
  <1>5. TypeOK'
    BY <1>1, <1>2, <1>3, <1>4 DEF Call, AdapterInv, TypeOK, NoCall, Made
  <1>6. PoolPart' /\ QueuePart'
    BY <1>1, <1>3, <1>4 DEF Call, AdapterInv, PoolPart, QueuePart
  <1>7. WorkerPart' /\ ClientPart'
    BY <1>1, <1>2, <1>3 DEF Call, AdapterInv, WorkerPart, ClientPart, NoCall
  <1>8. SafetyFlagHasOwner'
    <2>1. ASSUME safety' PROVE \E i \in InFlight' : IsBlackout(i)'
      <3>1. CASE c.kind = "blackout"
        BY <1>1, <1>2, <3>1 DEF Call, InFlight, IsBlackout
      <3>2. CASE safety
        <4>1. PICK i \in InFlight : IsBlackout(i)
          BY <3>2 DEF AdapterInv, SafetyFlagHasOwner
        <4>2. i \in Made /\ i \in InFlight' /\ command'[i] = command[i]
          BY <1>1, <1>2, <1>4, <4>1 DEF Call, InFlight
        <4> QED BY <4>1, <4>2 DEF IsBlackout
      <3> QED BY <2>1, <3>1, <3>2
    <2> QED BY <1>5, <2>1 DEF SafetyFlagHasOwner
  <1>9. DarkUntilNextWrite'
    BY <1>1, <1>3 DEF DarkUntilNextWrite
  <1>10. ExpiryHasACause'
    <2>1. ASSUME NEW i \in Made', reply'[i] = "expired"
          PROVE  \E j \in Made' : /\ IsBlackout(j)'
                                  /\ (i < j /\ i \in abandoned') \/ (j < i /\ j \in abandoned')
      <3>1. i \in Made /\ reply[i] = "expired"
        BY <1>1, <1>3, <2>1
      <3>2. PICK j \in Made : /\ IsBlackout(j)
                              /\ (i < j /\ i \in abandoned) \/ (j < i /\ j \in abandoned)
        BY <3>1 DEF AdapterInv, ExpiryHasACause
      <3> QED BY <1>1, <1>2, <3>2 DEF Call, IsBlackout
    <2> QED BY <2>1 DEF ExpiryHasACause
  <1> QED BY <1>5, <1>6, <1>7, <1>8, <1>9, <1>10 DEF AdapterInv

(* The client's other steps: what it gives up is only added to.              *)
LEMMA ClientStep ==
    ASSUME AdapterInv, Answered \/ Abandon \/ Drop
    PROVE  AdapterInv'
  <1>1. /\ UNCHANGED <<made, command, pool, queue, safety, workerVars>>
        /\ awaiting' \in {awaiting, NoCall} /\ abandoned \subseteq abandoned'
        /\ abandoned' \subseteq 1..made /\ open' \in BOOLEAN
        /\ awaiting' # awaiting => reply[awaiting] # "none" \/ awaiting \in abandoned'
    <2>1. awaiting \in 0..made /\ abandoned \subseteq 1..made /\ made \in Nat /\ open \in BOOLEAN
      BY DEF AdapterInv, TypeOK
    <2>2. CASE Answered
      BY <2>1, <2>2 DEF Answered, workerVars
    <2>3. CASE Abandon
      BY <2>1, <2>3 DEF Abandon, NoCall, workerVars
    <2>4. CASE Drop
      BY <2>1, <2>4 DEF Drop, workerVars
    <2> QED BY <2>2, <2>3, <2>4
  <1>2. TypeOK' /\ PoolPart' /\ QueuePart' /\ WorkerPart'
    BY <1>1 DEF AdapterInv, TypeOK, PoolPart, QueuePart, WorkerPart, NoCall, workerVars
  <1>3. ClientPart'
    BY <1>1 DEF AdapterInv, TypeOK, ClientPart, NoCall, workerVars, Made
  <1>4. InFlight' = InFlight /\ Made' = Made /\ \A i : IsBlackout(i)' = IsBlackout(i)
    BY <1>1 DEF InFlight, Made, IsBlackout, workerVars
  <1>5. SafetyFlagHasOwner'
    BY <1>1, <1>2, <1>4, Zenon DEF AdapterInv, SafetyFlagHasOwner
  <1>6. DarkUntilNextWrite' /\ ExpiryHasACause'
    BY <1>1, <1>4 DEF AdapterInv, DarkUntilNextWrite, ExpiryHasACause, workerVars
  <1> QED BY <1>2, <1>3, <1>5, <1>6 DEF AdapterInv

(* A command moves on towards the worker.                                    *)
LEMMA SendStep ==
    ASSUME AdapterInv, NEW n \in Calls, Send(n)
    PROVE  AdapterInv'
  <1>1. /\ UNCHANGED <<clientVars, safety, workerVars>> /\ n \in pool /\ n \in Made
        /\ pool' = pool \ {n} /\ queue' = Append(queue, n) /\ Len(queue) < QueueLength
        /\ queue \in Seq(1..made) /\ Made' = Made /\ made \in Nat
    BY DEF Send, AdapterInv, TypeOK, Made, clientVars
  <1>2. /\ Len(queue) \in Nat
        /\ queue' \in Seq(1..made) /\ Len(queue') = Len(queue) + 1
        /\ DOMAIN queue' = DOMAIN queue \cup {Len(queue) + 1}
        /\ Len(queue) + 1 \notin DOMAIN queue
        /\ \A k \in DOMAIN queue : queue'[k] = queue[k]
        /\ queue'[Len(queue) + 1] = n
    BY <1>1, QueueFacts DEF Made
  <1>3. TypeOK'
    BY <1>1, <1>2 DEF AdapterInv, TypeOK, clientVars, workerVars
  <1>4. PoolPart' /\ QueuePart'
    BY <1>1, <1>2 DEF AdapterInv, PoolPart, QueuePart, workerVars
  <1>5. WorkerPart' /\ ClientPart'
    BY <1>1 DEF AdapterInv, WorkerPart, ClientPart, clientVars, workerVars
  <1>6. InFlight \subseteq InFlight' /\ \A i : IsBlackout(i)' = IsBlackout(i)
    BY <1>1, <1>2 DEF InFlight, IsBlackout, clientVars, workerVars
  <1>7. SafetyFlagHasOwner'
    BY <1>1, <1>3, <1>6, Zenon DEF AdapterInv, SafetyFlagHasOwner
  <1>8. DarkUntilNextWrite' /\ ExpiryHasACause'
    BY <1>1, <1>6 DEF AdapterInv, DarkUntilNextWrite, ExpiryHasACause, clientVars, workerVars
  <1> QED BY <1>3, <1>4, <1>5, <1>7, <1>8 DEF AdapterInv

LEMMA RecvStep ==
    ASSUME AdapterInv, Recv
    PROVE  AdapterInv'
  <1>1. /\ UNCHANGED <<clientVars, pool, safety, device, reply>> /\ wpc = "recv" /\ queue # <<>>
        /\ serving = NoCall /\ serving' = Head(queue) /\ queue' = Tail(queue)
        /\ queue \in Seq(1..made) /\ Made' = Made /\ Made = 1..made /\ made \in Nat
    BY DEF Recv, AdapterInv, TypeOK, Made, clientVars, WorkerPart
  <1>2. /\ Len(queue) \in Nat /\ 1 \in DOMAIN queue /\ serving' = queue[1] /\ serving' \in 1..made
        /\ queue' \in Seq(1..made) /\ Len(queue') = Len(queue) - 1
        /\ \A k \in DOMAIN queue' :
               k + 1 \in DOMAIN queue /\ k + 1 # 1 /\ k \in Nat /\ queue'[k] = queue[k + 1]
        /\ \A k \in DOMAIN queue : k = 1 \/ (k - 1 \in DOMAIN queue' /\ queue'[k - 1] = queue[k])
    BY <1>1, QueueFacts
  <1>3. /\ serving' # NoCall /\ reply'[serving'] = "none"
        /\ wpc' = "look" \/ wpc' = "work"
        /\ wpc' = "look" => command[serving'].kind = "write"
    BY <1>1, <1>2 DEF Recv, AdapterInv, QueuePart, NoCall
  <1>4. TypeOK'
    BY <1>1, <1>2, <1>3 DEF AdapterInv, TypeOK, clientVars, Recv
  <1>5. PoolPart'
    BY <1>1, <1>2 DEF AdapterInv, PoolPart
  <1>6. QueuePart'
    BY <1>1, <1>2 DEF AdapterInv, QueuePart
  <1>7. WorkerPart' /\ ClientPart'
    BY <1>1, <1>3 DEF AdapterInv, WorkerPart, ClientPart, clientVars, Recv
  <1>8. InFlight \subseteq InFlight' /\ \A i : IsBlackout(i)' = IsBlackout(i)
    <2>1. ASSUME NEW i \in InFlight PROVE i \in InFlight'
      <3>1. CASE i \in pool
        BY <1>1, <3>1 DEF InFlight
      <3>2. CASE \E k \in DOMAIN queue : queue[k] = i
        BY <1>1, <1>2, <3>2 DEF InFlight
      <3> QED BY <1>1, <3>1, <3>2 DEF InFlight, NoCall
    <2> QED BY <1>1, <2>1 DEF IsBlackout, clientVars
  <1>9. SafetyFlagHasOwner'
    BY <1>1, <1>4, <1>8, Zenon DEF AdapterInv, SafetyFlagHasOwner
  <1>10. DarkUntilNextWrite' /\ ExpiryHasACause'
    BY <1>1, <1>8 DEF AdapterInv, DarkUntilNextWrite, ExpiryHasACause, clientVars
  <1> QED BY <1>4, <1>5, <1>6, <1>7, <1>9, <1>10 DEF AdapterInv

(* The worker's steps that answer nothing.                                   *)
LEMMA WorkerStep ==
    ASSUME AdapterInv, Finish \/ Proceed \/ LowerFlag
    PROVE  AdapterInv'
  <1>1. /\ UNCHANGED <<clientVars, pool, queue, device, reply>> /\ safety' \in BOOLEAN
        /\ safety' => safety /\ serving' = serving
        /\ serving' \in {serving, NoCall} /\ wpc' \in {"done", "work", "recv"}
    <2>1. safety \in BOOLEAN
      BY DEF AdapterInv, TypeOK
    <2>2. CASE Finish
      BY <2>1, <2>2 DEF Finish
    <2>3. CASE Proceed
      BY <2>1, <2>3 DEF Proceed
    <2>4. CASE LowerFlag
      BY <2>1, <2>4 DEF LowerFlag
    <2> QED BY <2>2, <2>3, <2>4
  <1>2. TypeOK' /\ PoolPart' /\ QueuePart' /\ ClientPart'
    BY <1>1 DEF AdapterInv, TypeOK, PoolPart, QueuePart, ClientPart, Made, NoCall, clientVars
  <1>3. WorkerPart'
    BY <1>1 DEF Finish, Proceed, LowerFlag, AdapterInv, WorkerPart, clientVars
  <1>4. Made' = Made /\ \A i : IsBlackout(i)' = IsBlackout(i)
    BY <1>1 DEF IsBlackout, Made, clientVars
  <1>5. SafetyFlagHasOwner'
    <2>1. safety' => InFlight' = InFlight
      BY <1>1 DEF InFlight, Made, clientVars
    <2> QED BY <1>1, <1>2, <1>4, <2>1, Zenon DEF AdapterInv, SafetyFlagHasOwner
  <1>6. DarkUntilNextWrite' /\ ExpiryHasACause'
    BY <1>1, <1>4 DEF AdapterInv, DarkUntilNextWrite, ExpiryHasACause, clientVars
  <1> QED BY <1>2, <1>3, <1>5, <1>6 DEF AdapterInv

(* The worker answers the call it serves.  A blackout it keeps until it has  *)
(* lowered the flag.                                                         *)
LEMMA AnswerFacts ==
    ASSUME AdapterInv, wpc \in {"look", "work"}, NEW r \in Replies, r # "none",
           reply' = [reply EXCEPT ![serving] = r],
           UNCHANGED <<clientVars, pool, queue, safety>>, device' \in Devices,
           \/ wpc' = "recv" /\ serving' = NoCall /\ ~IsBlackout(serving)
           \/ wpc' = "clear" /\ serving' = serving /\ IsBlackout(serving)
    PROVE  /\ TypeOK' /\ PoolPart' /\ QueuePart' /\ WorkerPart' /\ ClientPart'
           /\ SafetyFlagHasOwner'
           /\ serving \in Made /\ reply[serving] = "none" /\ reply'[serving] = r
           /\ Made' = Made /\ \A i : IsBlackout(i)' = IsBlackout(i)
           /\ \A i \in Made : i # serving => reply'[i] = reply[i]
           /\ \A i \in Made : i < made /\ reply[i] = "none" => i \in abandoned
  <1>1. /\ serving \in Made /\ reply[serving] = "none" /\ made \in Nat /\ Made = 1..made
        /\ serving # NoCall
        /\ reply \in [Made -> Replies]
    BY DEF AdapterInv, TypeOK, WorkerPart, Made, NoCall
  <1>2. /\ reply' \in [Made -> Replies] /\ reply'[serving] = r
        /\ \A i \in Made : i # serving => reply'[i] = reply[i]
    BY <1>1
  <1>3. Made' = Made /\ \A i : IsBlackout(i)' = IsBlackout(i)
    BY DEF Made, IsBlackout, clientVars
  <1>4. TypeOK'
    BY <1>1, <1>2 DEF AdapterInv, TypeOK, clientVars, NoCall
  <1>5. PoolPart' /\ QueuePart'
    <2>1. pool \subseteq Made /\ \A k \in DOMAIN queue : queue[k] \in Made
      BY <1>1, QueueFacts DEF AdapterInv, TypeOK
    <2> QED BY <1>1, <1>2, <2>1 DEF AdapterInv, PoolPart, QueuePart, NoCall
  <1>6. WorkerPart' /\ ClientPart'
    BY <1>1, <1>2, <1>3 DEF AdapterInv, WorkerPart, ClientPart, clientVars, IsBlackout
  <1>7. SafetyFlagHasOwner'
    <2>1. ASSUME safety PROVE \E i \in InFlight' : IsBlackout(i)'
      <3>1. PICK i \in InFlight : IsBlackout(i)
        BY <2>1 DEF AdapterInv, SafetyFlagHasOwner
      <3>2. i \in InFlight'
        BY <3>1 DEF InFlight, Made, clientVars
      <3> QED BY <1>3, <3>1, <3>2
    <2> QED BY <1>4, <2>1 DEF SafetyFlagHasOwner
  <1>8. \A i \in Made : i < made /\ reply[i] = "none" => i \in abandoned
    BY <1>1 DEF AdapterInv, TypeOK, ClientPart, Made, NoCall
  <1> QED BY <1>1, <1>2, <1>3, <1>4, <1>5, <1>6, <1>7, <1>8

(* Of a write and a blackout in flight together the client has given up the  *)
(* earlier one.                                                              *)
LEMMA ExpireStep ==
    ASSUME AdapterInv, Expire
    PROVE  AdapterInv'
  <1>1. /\ "expired" \in Replies /\ device \in Devices /\ ~IsBlackout(serving)
        /\ command[serving].kind = "write"
    BY DEF Expire, Replies, AdapterInv, TypeOK, WorkerPart, IsBlackout
  <1>2. /\ TypeOK' /\ PoolPart' /\ QueuePart' /\ WorkerPart' /\ ClientPart'
        /\ SafetyFlagHasOwner'
        /\ serving \in Made /\ reply[serving] = "none" /\ reply'[serving] = "expired"
        /\ Made' = Made /\ \A i : IsBlackout(i)' = IsBlackout(i)
        /\ \A i \in Made : i # serving => reply'[i] = reply[i]
        /\ \A i \in Made : i < made /\ reply[i] = "none" => i \in abandoned
    BY <1>1, AnswerFacts DEF Expire
  <1>3. abandoned' = abandoned /\ made' = made /\ device' = device /\ made \in Nat /\ Made = 1..made
        /\ abandoned \subseteq Made
    BY DEF Expire, clientVars, AdapterInv, TypeOK, Made
  <1>4. DarkUntilNextWrite'
    <2>1. ASSUME made # 0, IsBlackout(made)', reply'[made] = "ok"
          PROVE  \/ device'.lamps = AllBlack
                 \/ \E i \in abandoned : ~IsBlackout(i)' /\ reply'[i] \in {"rendered", "error"}
      <3>1. made # serving /\ reply[made] = "ok" /\ IsBlackout(made)
        BY <1>2, <1>3, <2>1
      <3>2. CASE device.lamps = AllBlack
        BY <1>3, <3>2
      <3>3. ASSUME NEW i \in abandoned, ~IsBlackout(i), reply[i] \in {"rendered", "error"}
            PROVE  ~IsBlackout(i)' /\ reply'[i] \in {"rendered", "error"}
        <4>1. i # serving /\ i \in Made
          BY <1>2, <1>3, <3>3
        <4> QED BY <1>2, <3>3, <4>1
      <3> QED BY <2>1, <3>1, <3>2, <3>3 DEF AdapterInv, DarkUntilNextWrite
    <2> QED BY <1>3, <2>1 DEF DarkUntilNextWrite
  <1>5. PICK j \in InFlight : IsBlackout(j)
    BY DEF Expire, AdapterInv, SafetyFlagHasOwner
  <1>6. j \in Made /\ reply[j] = "none" /\ j # serving
    BY <1>1, <1>5 DEF InFlight, AdapterInv, PoolPart, QueuePart
  <1>7. \/ serving < j /\ serving \in abandoned
        \/ j < serving /\ j \in abandoned
    BY <1>2, <1>3, <1>6
  <1>8. ExpiryHasACause'
    <2>1. ASSUME NEW i \in Made, reply'[i] = "expired"
          PROVE  \E k \in Made : /\ IsBlackout(k)
                                 /\ (i < k /\ i \in abandoned) \/ (k < i /\ k \in abandoned)
      <3>1. CASE i = serving
        BY <1>5, <1>6, <1>7, <3>1
      <3>2. CASE i # serving
        BY <1>2, <2>1, <3>2 DEF AdapterInv, ExpiryHasACause
      <3> QED BY <3>1, <3>2
    <2> QED BY <1>2, <1>3, <2>1 DEF ExpiryHasACause
  <1> QED BY <1>2, <1>4, <1>8 DEF AdapterInv

(* An answer other than "expired" needs no cause.                            *)
LEMMA CauseKept ==
    ASSUME AdapterInv, Made' = Made, abandoned' = abandoned,
           \A i : IsBlackout(i)' = IsBlackout(i),
           \A i \in Made : reply'[i] = "expired" => reply[i] = "expired"
    PROVE  ExpiryHasACause'
  BY Zenon DEF AdapterInv, ExpiryHasACause

(* A write that reaches the device after the last call's Ok was given up.    *)
LEMMA PerformWriteStep ==
    ASSUME AdapterInv, PerformWrite
    PROVE  AdapterInv'
  <1> DEFINE colours == command[serving].colours
  <1>0. /\ device \in Devices /\ ~IsBlackout(serving) /\ colours \in Frames
        /\ wpc = "work"
    <2>1. serving \in Made
      BY DEF PerformWrite, AdapterInv, TypeOK, WorkerPart, Made, NoCall
    <2> QED BY <2>1, CommandFacts DEF PerformWrite, AdapterInv, TypeOK, IsBlackout
  <1>1. PICK o \in WriteOutcomes(device, colours) :
            device' = o.device /\ reply' = [reply EXCEPT ![serving] = WriteReply(o, colours)]
    BY DEF PerformWrite
  <1> DEFINE r == WriteReply(o, colours)
  <1>2. device' \in Devices /\ (r = "unchanged" => device' = device)
        /\ r \in {"rendered", "unchanged", "error"}
    BY <1>0, <1>1, OutcomeFacts DEF WriteReply
  <1>3. r \in Replies /\ r # "none" /\ r # "expired" /\ r # "ok"
    BY <1>2 DEF Replies
  <1> HIDE DEF r
  <1>4. /\ TypeOK' /\ PoolPart' /\ QueuePart' /\ WorkerPart' /\ ClientPart'
        /\ SafetyFlagHasOwner'
        /\ serving \in Made /\ reply[serving] = "none" /\ reply'[serving] = r
        /\ Made' = Made /\ \A i : IsBlackout(i)' = IsBlackout(i)
        /\ \A i \in Made : i # serving => reply'[i] = reply[i]
        /\ \A i \in Made : i < made /\ reply[i] = "none" => i \in abandoned
    <2>1. reply' = [reply EXCEPT ![serving] = r]
      BY <1>1 DEF r
    <2> QED BY <1>0, <1>2, <1>3, <2>1, AnswerFacts DEF PerformWrite
  <1>5. abandoned' = abandoned /\ made' = made /\ made \in Nat /\ Made = 1..made
        /\ abandoned \subseteq Made
    BY DEF PerformWrite, clientVars, AdapterInv, TypeOK, Made
  <1>6. DarkUntilNextWrite'
    <2>1. ASSUME made # 0, IsBlackout(made)', reply'[made] = "ok"
          PROVE  \/ device'.lamps = AllBlack
                 \/ \E i \in abandoned : ~IsBlackout(i)' /\ reply'[i] \in {"rendered", "error"}
      <3>1. made # serving /\ reply[made] = "ok" /\ IsBlackout(made) /\ serving < made
        BY <1>3, <1>4, <1>5, <2>1
      <3>2. serving \in abandoned
        BY <1>4, <3>1
      <3>3. CASE r # "unchanged"
        BY <1>0, <1>2, <1>4, <3>2, <3>3
      <3>4. CASE r = "unchanged"
        <4>1. device' = device
          BY <1>2, <3>4
        <4>2. ASSUME NEW i \in abandoned, ~IsBlackout(i), reply[i] \in {"rendered", "error"}
              PROVE  ~IsBlackout(i)' /\ reply'[i] \in {"rendered", "error"}
          BY <1>4, <1>5, <4>2
        <4> QED BY <2>1, <3>1, <4>1, <4>2 DEF AdapterInv, DarkUntilNextWrite
      <3> QED BY <3>3, <3>4
    <2> QED BY <1>5, <2>1 DEF DarkUntilNextWrite
  <1>7. ExpiryHasACause'
    BY <1>3, <1>4, <1>5, CauseKept
  <1> QED BY <1>4, <1>6, <1>7 DEF AdapterInv

LEMMA PerformBlackoutStep ==
    ASSUME AdapterInv, PerformBlackout
    PROVE  AdapterInv'
  <1>0. device \in Devices /\ IsBlackout(serving) /\ AllBlack \in Frames /\ wpc = "work"
    BY CommandFacts DEF PerformBlackout, AdapterInv, TypeOK, IsBlackout
  <1>1. PICK o \in PaintOutcomes(device, AllBlack) :
            /\ device' = o.device
            /\ reply' = [reply EXCEPT ![serving] = IF o.ok THEN "ok" ELSE "error"]
    BY DEF PerformBlackout, BlackoutOutcomes
  <1> DEFINE r == IF o.ok THEN "ok" ELSE "error"
  <1>2. /\ device' \in Devices /\ (r = "ok" => device'.lamps = AllBlack)
        /\ device.lamps = AllBlack => device'.lamps = AllBlack
    BY <1>0, <1>1, OutcomeFacts
  <1>3. r \in Replies /\ r # "none" /\ r # "expired"
    BY DEF Replies
  <1> HIDE DEF r
  <1>4. /\ TypeOK' /\ PoolPart' /\ QueuePart' /\ WorkerPart' /\ ClientPart'
        /\ SafetyFlagHasOwner'
        /\ serving \in Made /\ reply[serving] = "none" /\ reply'[serving] = r
        /\ Made' = Made /\ \A i : IsBlackout(i)' = IsBlackout(i)
        /\ \A i \in Made : i # serving => reply'[i] = reply[i]
    <2>1. reply' = [reply EXCEPT ![serving] = r]
      BY <1>1 DEF r
    <2> QED BY <1>0, <1>2, <1>3, <2>1, AnswerFacts DEF PerformBlackout
  <1>5. abandoned' = abandoned /\ made' = made /\ made \in Nat /\ Made = 1..made
        /\ abandoned \subseteq Made
    BY DEF PerformBlackout, clientVars, AdapterInv, TypeOK, Made
  <1>6. DarkUntilNextWrite'
    <2>1. ASSUME made # 0, IsBlackout(made)', reply'[made] = "ok"
          PROVE  \/ device'.lamps = AllBlack
                 \/ \E i \in abandoned : ~IsBlackout(i)' /\ reply'[i] \in {"rendered", "error"}
      <3>1. CASE made = serving
        BY <1>2, <1>4, <2>1, <3>1
      <3>2. CASE made # serving
        <4>1. reply[made] = "ok" /\ IsBlackout(made)
          BY <1>4, <1>5, <2>1, <3>2
        <4>2. CASE device.lamps = AllBlack
          BY <1>2, <4>2
        <4>3. ASSUME NEW i \in abandoned, ~IsBlackout(i), reply[i] \in {"rendered", "error"}
              PROVE  ~IsBlackout(i)' /\ reply'[i] \in {"rendered", "error"}
          BY <1>4, <1>5, <4>3
        <4> QED BY <2>1, <4>1, <4>2, <4>3 DEF AdapterInv, DarkUntilNextWrite
      <3> QED BY <3>1, <3>2
    <2> QED BY <1>5, <2>1 DEF DarkUntilNextWrite
  <1>7. ExpiryHasACause'
    BY <1>3, <1>4, <1>5, CauseKept
  <1> QED BY <1>4, <1>6, <1>7 DEF AdapterInv

LEMMA AdapterStep == AdapterInv /\ [Next]_vars => AdapterInv'
  <1> SUFFICES ASSUME AdapterInv, [Next]_vars PROVE AdapterInv'
    OBVIOUS
  <1>1. ASSUME NEW colours \in Frames, Write(colours) PROVE AdapterInv'
    <2>1. [kind |-> "write", colours |-> colours] \in Commands
      BY DEF Commands, Writes
    <2>2. safety' \in BOOLEAN /\ (safety' => safety)
      BY <1>1 DEF Write, AdapterInv, TypeOK
    <2> QED BY <1>1, <2>1, <2>2, CallStep DEF Write
  <1>2. ASSUME Blackout PROVE AdapterInv'
    <2>1. [kind |-> "blackout", colours |-> AllBlack] \in Commands
      BY DEF Commands, Blackouts
    <2>2. safety' \in BOOLEAN
      BY <1>2 DEF Blackout
    <2> QED BY <1>2, <2>1, <2>2, CallStep DEF Blackout
  <1>3. ASSUME Pool PROVE AdapterInv'
    BY <1>3, SendStep DEF Pool
  <1>4. ASSUME Worker PROVE AdapterInv'
    BY <1>4, RecvStep, WorkerStep, ExpireStep, PerformWriteStep, PerformBlackoutStep DEF Worker
  <1>5. ASSUME UNCHANGED vars PROVE AdapterInv'
    <2>1. Made' = Made /\ InFlight' = InFlight /\ \A i : IsBlackout(i)' = IsBlackout(i)
      BY <1>5 DEF vars, clientVars, workerVars, Made, InFlight, IsBlackout
    <2>2. TypeOK' /\ PoolPart' /\ QueuePart' /\ WorkerPart' /\ ClientPart'
      BY <1>5, <2>1 DEF vars, clientVars, workerVars, AdapterInv, TypeOK, PoolPart, QueuePart,
         WorkerPart, ClientPart
    <2>3. SafetyFlagHasOwner'
      BY <1>5, <2>1, <2>2 DEF vars, AdapterInv, SafetyFlagHasOwner
    <2> QED BY <1>5, <2>1, <2>2, <2>3
        DEF vars, clientVars, workerVars, AdapterInv, DarkUntilNextWrite, ExpiryHasACause
  <1> QED BY <1>1, <1>2, <1>3, <1>4, <1>5, ClientStep DEF Next, Client

LEMMA AdapterInvariant == Spec => []AdapterInv
  BY AdapterInit, AdapterStep, PTL DEF Spec

(* A raised flag always has a blackout on its way to the worker that will    *)
(* lower it, for any number of calls and any length of queue, and every      *)
(* state is well-typed.                                                      *)
THEOREM FlagHasOwner == Spec => []SafetyFlagHasOwner
  <1>1. AdapterInv => SafetyFlagHasOwner
    BY DEF AdapterInv
  <1> QED BY <1>1, AdapterInvariant, PTL

(* After the Ok of the last call, a blackout, only a write its client had    *)
(* given up can have lit the speaker.                                        *)
THEOREM DarkAfterOk == Spec => []DarkUntilNextWrite
  <1>1. AdapterInv => DarkUntilNextWrite
    BY DEF AdapterInv
  <1> QED BY <1>1, AdapterInvariant, PTL

(* A write expires only when its client gave it up for a later blackout, or  *)
(* did not wait for the answer to an earlier one.                            *)
THEOREM ExpiryIsCaused == Spec => []ExpiryHasACause
  <1>1. AdapterInv => ExpiryHasACause
    BY DEF AdapterInv
  <1> QED BY <1>1, AdapterInvariant, PTL

-----------------------------------------------------------------------------
(* The refinement.  Device's operators, as they are instantiated, are the    *)
(* adapter's.                                                                *)
LEMMA ViewOps ==
    /\ DeviceView!Frames = Frames
    /\ \A lamps : DeviceView!Opened(lamps) = Opened(lamps)
    /\ \A d, f : DeviceView!WriteOutcomes(d, f) = WriteOutcomes(d, f)
    /\ \A d : DeviceView!BlackoutOutcomes(d) = BlackoutOutcomes(d)
  <1>1. DeviceView!Zones = Zones
    BY DEF DeviceView!Zones, Zones
  <1>2. DeviceView!Frames = Frames /\ DeviceView!AllBlack = AllBlack
    BY <1>1 DEF DeviceView!Frames, DeviceView!AllBlack, Frames, AllBlack
  <1>3. \A lamps, known : /\ DeviceView!Done(lamps, known) = Done(lamps, known)
                          /\ DeviceView!Failed(lamps, known) = Failed(lamps, known)
    BY DEF DeviceView!Done, DeviceView!Failed, Done, Failed
  <1>4. \A lamps : DeviceView!Opened(lamps) = Opened(lamps)
    BY DEF DeviceView!Opened, Opened
  <1>5. ASSUME NEW lamps, NEW f, NEW z, NEW hit
        PROVE  DeviceView!Painted(lamps, f, z, hit) = Painted(lamps, f, z, hit)
    BY <1>1, Zenon DEF DeviceView!Painted, Painted
  <1>6. ASSUME NEW d, NEW f
        PROVE  DeviceView!PaintOutcomes(d, f) = PaintOutcomes(d, f)
    BY <1>1, <1>3, <1>5 DEF DeviceView!PaintOutcomes, PaintOutcomes
  <1>7. \A d, f : DeviceView!WriteOutcomes(d, f) = WriteOutcomes(d, f)
    BY <1>6 DEF DeviceView!WriteOutcomes, WriteOutcomes
  <1>8. \A d : DeviceView!BlackoutOutcomes(d) = BlackoutOutcomes(d)
    BY <1>2, <1>6 DEF DeviceView!BlackoutOutcomes, BlackoutOutcomes
  <1> QED BY <1>2, <1>4, <1>7, <1>8

(* While its client awaits every call the worker serves the last one made,   *)
(* and what it answers is what the caller sees.                              *)
LEMMA ServesTheLastCall ==
    ASSUME AdapterInv, abandoned = {}, wpc = "work",
           NEW r, r # "none", reply' = [reply EXCEPT ![serving] = r], made' = made
    PROVE  /\ serving = made /\ command[serving].colours \in Frames
           /\ LastAnswer' = IF r \in {"rendered", "unchanged", "ok"} THEN "ok" ELSE r
  <1>1. /\ serving \in Made /\ reply[serving] = "none" /\ reply \in [Made -> Replies]
        /\ made # 0
    BY DEF AdapterInv, TypeOK, WorkerPart, Made, NoCall
  <1>2. serving = made
    BY <1>1 DEF AdapterInv, ClientPart, NoCall, Made
  <1>3. reply'[made'] = r
    BY <1>1, <1>2
  <1>4. command[serving].colours \in Frames
    BY <1>1, CommandFacts DEF AdapterInv
  <1> QED BY <1>1, <1>2, <1>3, <1>4 DEF LastAnswer, Result

(* A client that awaits every call has the synchronous driver, for any       *)
(* number of calls, any length of queue and any number of zones.             *)
THEOREM AdapterImplementsDevice == Spec => ImplementsDevice
  <1>1. Init => DeviceView!Init
    BY ViewOps DEF Init, DeviceView!Init, LastAnswer
  <1>2. ASSUME AdapterInv, [Next]_vars, abandoned' = {}
        PROVE  DeviceStep
    <2>1. AdapterInv'
      BY <1>2, AdapterStep
    <2>2. CASE UNCHANGED <<made, reply, device>>
      BY <2>2 DEF DeviceStep, LastAnswer, Result
    <2>3. ASSUME NEW c, Call(c) PROVE DeviceStep
      <3>1. /\ made \in Nat /\ reply \in [1..made -> Replies] /\ made' = made + 1
            /\ reply' = Append(reply, "none") /\ device' = device /\ abandoned = {}
            /\ "none" \in Replies
        BY <1>2, <2>3 DEF Call, AdapterInv, TypeOK, Replies
      <3>2. \A i \in 1..made : reply'[i] = reply[i]
        BY <3>1, AppendCall
      <3>3. reply'[made + 1] = "none"
        BY <3>1, AppendCall
      <3>4. \A i \in 1..made : reply[i] # "none"
        BY <1>2, <2>3, <3>1 DEF Call, AdapterInv, ClientPart, Made, NoCall
      <3>5. LastAnswer' = LastAnswer
        <4>1. CASE made = 0
          BY <3>1, <3>3, <4>1 DEF LastAnswer
        <4>2. CASE made # 0
          <5>1. LastAnswer =
                  IF reply[made] \in {"rendered", "unchanged", "ok"} THEN "ok" ELSE reply[made]
            BY <3>1, <3>4, <4>2 DEF LastAnswer, Result
          <5>2. LastAnswer' =
                  IF reply'[made] \in {"rendered", "unchanged", "ok"} THEN "ok" ELSE reply'[made]
            <6>1. made' > 1 /\ made' - 1 = made /\ reply'[made'] = "none"
              BY <3>1, <3>3, <4>2
            <6> QED BY <6>1 DEF LastAnswer, Result
          <5>3. reply'[made] = reply[made]
            BY <3>1, <3>2, <4>2
          <5> QED BY <5>1, <5>2, <5>3
        <4> QED BY <4>1, <4>2
      <3> QED BY <3>1, <3>5 DEF DeviceStep
    <2>4. ~Expire
      <3>1. SUFFICES ASSUME Expire PROVE FALSE
        OBVIOUS
      <3>2. serving \in Made' /\ reply'[serving] = "expired"
        BY <1>2, <3>1 DEF Expire, AdapterInv, TypeOK, WorkerPart, NoCall, Made, clientVars
      <3> QED BY <1>2, <2>1, <3>2 DEF AdapterInv, ExpiryHasACause
    <2>5. CASE PerformWrite
      <3> DEFINE colours == command[serving].colours
      <3>1. PICK o \in WriteOutcomes(device, colours) :
               device' = o.device /\ reply' = [reply EXCEPT ![serving] = WriteReply(o, colours)]
        BY <2>5 DEF PerformWrite
      <3>2. abandoned = {} /\ wpc = "work" /\ made' = made
        BY <1>2, <2>5 DEF PerformWrite, clientVars
      <3>3. /\ WriteReply(o, colours) # "none"
            /\ o.ok => WriteReply(o, colours) \in {"rendered", "unchanged"}
            /\ ~o.ok => WriteReply(o, colours) = "error"
        BY DEF WriteReply
      <3>4. colours \in Frames /\ LastAnswer' = IF o.ok THEN "ok" ELSE "error"
        BY <1>2, <3>1, <3>2, <3>3, ServesTheLastCall
      <3>5. DeviceView!Write
        BY <3>1, <3>4, ViewOps DEF DeviceView!Write, DeviceView!Returns
      <3> QED BY <3>5 DEF DeviceStep, DeviceView!Next
    <2>6. CASE PerformBlackout
      <3>1. PICK o \in BlackoutOutcomes(device) :
               /\ device' = o.device
               /\ reply' = [reply EXCEPT ![serving] = IF o.ok THEN "ok" ELSE "error"]
        BY <2>6 DEF PerformBlackout
      <3>2. abandoned = {} /\ wpc = "work" /\ made' = made
        BY <1>2, <2>6 DEF PerformBlackout, clientVars
      <3>3. LastAnswer' = IF o.ok THEN "ok" ELSE "error"
        <4> DEFINE r == IF o.ok THEN "ok" ELSE "error"
        <4>1. r # "none" /\ reply' = [reply EXCEPT ![serving] = r]
          BY <3>1
        <4>2. LastAnswer' = IF r \in {"rendered", "unchanged", "ok"} THEN "ok" ELSE r
          BY <1>2, <3>2, <4>1, ServesTheLastCall
        <4> QED BY <4>2
      <3>4. DeviceView!Blackout
        BY <3>1, <3>3, ViewOps DEF DeviceView!Blackout, DeviceView!Returns
      <3> QED BY <3>4 DEF DeviceStep, DeviceView!Next
    <2>7. CASE Answered \/ Abandon \/ Drop \/ Pool \/ Recv \/ Finish \/ Proceed \/ LowerFlag
               \/ UNCHANGED vars
      BY <2>2, <2>7 DEF Answered, Abandon, Drop, Pool, Send, Recv, Finish, Proceed, LowerFlag,
         vars, clientVars, workerVars
    <2> QED BY <1>2, <2>3, <2>4, <2>5, <2>6, <2>7 DEF Next, Client, Worker, Write, Blackout
  <1> QED BY <1>1, <1>2, AdapterInvariant, PTL DEF Spec, ImplementsDevice
=============================================================================
