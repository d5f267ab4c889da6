----------------------------- MODULE G560Proofs -----------------------------
(***************************************************************************)
(* The driver, for any number of zones and any colours: what it remembers    *)
(* and trusts is on the lamps, and report by report it does what Device says *)
(* call by call.                                                             *)
(***************************************************************************)
EXTENDS G560, TLAPS

USE ZonesAssumption

(* What a call has shown of its frame.                                       *)
PaintedPart ==
    pc \in Painting => \A z \in Zones : z < zone => lamps[z] = frame[z]
(* What a call that ends in the dark sends, and what its cleanup has shown.  *)
DarkPart ==
    /\ pc \notin {"idle", "write", "stimulus"} => frame = AllBlack
    /\ pc = "cleanup" /\ ~cleanupFault => \A z \in Zones : z < zone => lamps[z] = Black
TrustPart == pc = "idle" /\ trusted /\ previous # NoFrame => lamps = previous

(* How a call under way is related to the device it began with.              *)
WritePart ==
    pc = "write" =>
        /\ previous = entry.previous /\ (previous # frame \/ frame = AllBlack)
        /\ lamps = [z \in Zones |-> IF z < zone THEN frame[z] ELSE entry.lamps[z]]
RememberPart == pc # "idle" => previous \in {entry.previous, AllBlack}

DriverInv == TypeOK /\ PaintedPart /\ DarkPart /\ TrustPart /\ WritePart /\ RememberPart

-----------------------------------------------------------------------------
(* Zones and frames.                                                         *)

LEMMA ZoneFacts ==
    /\ 1 \in Zones /\ NumZones \in Zones
    /\ \A z \in Zones : z < NumZones => z + 1 \in Zones
    /\ \A z \in Zones : z = NumZones \/ z < NumZones
    /\ \A z \in Zones : ~(z < 1)
    /\ \A z, y \in Zones : y < z + 1 <=> y < z \/ y = z
  BY DEF Zones

LEMMA FrameFacts ==
    /\ AllBlack \in Frames /\ Stimulus \in Frames /\ White \in Colours /\ Black \in Colours
    /\ \A z \in Zones : AllBlack[z] = Black
    /\ \A f \in Frames, z \in Zones : f[z] \in Colours
  BY ColoursAssumption, StimulusAssumption DEF AllBlack, Frames

(* A report to a lamp leaves a frame that differs in no other zone.          *)
LEMMA ArrivesFacts ==
    ASSUME lamps \in Frames, NEW z \in Zones, NEW colour \in Colours,
           Arrives(z, colour)
    PROVE  lamps' \in Frames /\ lamps'[z] = colour
           /\ \A y \in Zones : y # z => lamps'[y] = lamps[y]
  BY DEF Arrives, Frames

LEMMA FailsFacts ==
    ASSUME lamps \in Frames, NEW z \in Zones, NEW colour \in Colours,
           Fails(z, colour)
    PROVE  lamps' \in Frames /\ lamps'[z] \in {lamps[z], colour}
           /\ \A y \in Zones : y # z => lamps'[y] = lamps[y]
  BY ArrivesFacts DEF Fails, Frames

LEMMA RotatedIsFrame ==
    ASSUME NEW f \in Frames
    PROVE  Rotated(f) \in Frames
  <1>1. ASSUME NEW z \in Zones PROVE (z % NumZones) + 1 \in Zones
    <2>1. z \in Nat /\ z % NumZones \in Nat /\ z % NumZones < NumZones
      BY DEF Zones
    <2> QED BY <2>1 DEF Zones
  <1> QED BY <1>1 DEF Rotated, Frames

(* When the last lamp is painted, the lamps are the frame.                   *)
LEMMA LastZone ==
    ASSUME TypeOK, NEW colours \in Frames, zone = NumZones, Arrives(zone, colours[zone]),
           \A z \in Zones : z < zone => lamps[z] = colours[z]
    PROVE  lamps' = colours
  <1>1. lamps' \in Frames /\ \A z \in Zones : lamps'[z] = colours[z]
    BY ZoneFacts, FrameFacts, ArrivesFacts DEF TypeOK
  <1> QED BY <1>1 DEF Frames

-----------------------------------------------------------------------------
LEMMA DriverInit == Init => DriverInv
  <1> SUFFICES ASSUME Init PROVE DriverInv
    OBVIOUS
  <1>1. Opened(lamps) \in Devices
    BY DEF Init, Opened, Devices
  <1>2. TypeOK
    BY <1>1, ZoneFacts, FrameFacts DEF Init, TypeOK, Points
  <1> QED BY <1>2 DEF Init, DriverInv, PaintedPart, DarkPart, TrustPart, WritePart, RememberPart,
         Painting

(* Calls: each begins before the first zone, and says which device it found. *)
LEMMA CallStep == DriverInv /\ Call => DriverInv'
  <1> SUFFICES ASSUME DriverInv, Call PROVE DriverInv'
    OBVIOUS
  <1>1. [lamps |-> lamps, previous |-> previous] \in Devices
    BY DEF DriverInv, TypeOK, Devices
  <1>2. ASSUME NEW first \in {"write", "stimulus", "cleanup", "pulseOpen"}, NEW colours \in Frames,
               NEW z \in Zones, Begin(first, colours, z),
               first = "write" => previous # colours \/ colours = AllBlack,
               first \in {"cleanup", "pulseOpen"} => colours = AllBlack
        PROVE  DriverInv'
    <2>1. /\ pc = "idle" /\ pc' = first /\ frame' = colours /\ zone' = 1 /\ index' = z
          /\ fault' = FALSE /\ cleanupFault' = FALSE
          /\ entry' = [lamps |-> lamps, previous |-> previous]
          /\ lamps' = lamps /\ previous' = previous /\ answer' = answer /\ trusted' = trusted
      BY <1>2 DEF Begin
    <2>2. TypeOK'
      BY <1>1, <2>1, ZoneFacts DEF DriverInv, TypeOK, Points
    <2>3. PaintedPart' /\ DarkPart' /\ TrustPart' /\ RememberPart'
      BY <1>2, <2>1, ZoneFacts DEF PaintedPart, DarkPart, TrustPart, RememberPart
    <2>4. WritePart'
      <3>1. lamps = [y \in Zones |-> IF y < 1 THEN colours[y] ELSE lamps[y]]
        BY ZoneFacts DEF DriverInv, TypeOK, Frames
      <3> QED BY <1>2, <2>1, <3>1 DEF WritePart
    <2> QED BY <2>2, <2>3, <2>4 DEF DriverInv
  <1>3. ASSUME UNCHANGED <<lamps, previous, callVars, trusted>>, pc = "idle",
               entry' = [lamps |-> lamps, previous |-> previous], answer' \in {"ok", "error"}
        PROVE  DriverInv'
    <2>1. TypeOK'
      BY <1>1, <1>3 DEF callVars, DriverInv, TypeOK
    <2> QED BY <1>3, <2>1 DEF callVars, DriverInv, PaintedPart, DarkPart, TrustPart, WritePart,
           RememberPart, Painting
  <1>4. ASSUME NEW colours \in Frames, Write(colours) PROVE DriverInv'
    BY <1>2, <1>4, ZoneFacts DEF Write
  <1>5. ASSUME NEW colours \in Frames, WriteUnchanged(colours) PROVE DriverInv'
    BY <1>3, <1>5 DEF WriteUnchanged
  <1>6. ASSUME Blackout \/ Calibrate PROVE DriverInv'
    BY <1>2, <1>6, ZoneFacts, FrameFacts DEF Blackout, Calibrate
  <1>7. ASSUME NEW z \in Zones, Pulse(z) PROVE DriverInv'
    BY <1>2, <1>7, FrameFacts DEF Pulse
  <1>8. ASSUME PulseInvalid PROVE DriverInv'
    BY <1>3, <1>8 DEF PulseInvalid
  <1> QED BY <1>4, <1>5, <1>6, <1>7, <1>8 DEF Call

(* The reports after which a call goes on.                                   *)
LEMMA GoingOnStep ==
    DriverInv /\ (PaintZone \/ StimulusEnds \/ StimulusGoesOn \/ StimulusFails \/ CleanupZone
                  \/ PulseOpened \/ PulseLit \/ PulseFails) => DriverInv'
  <1> SUFFICES ASSUME DriverInv
               PROVE  PaintZone \/ StimulusEnds \/ StimulusGoesOn \/ StimulusFails \/ CleanupZone
                      \/ PulseOpened \/ PulseLit \/ PulseFails => DriverInv'
    OBVIOUS
  <1>0. /\ lamps \in Frames /\ frame \in Frames /\ zone \in Zones /\ index \in Zones
        /\ frame[zone] \in Colours /\ TypeOK
    BY FrameFacts DEF DriverInv, TypeOK
  <1>1. ASSUME PaintZone PROVE DriverInv'
    <2>1. /\ pc \in Painting /\ zone < NumZones /\ pc' = pc /\ frame' = frame /\ zone' = zone + 1
          /\ index' = index /\ answer' = answer /\ entry' = entry /\ previous' = previous
          /\ fault' = fault /\ cleanupFault' = cleanupFault /\ trusted' = trusted
      BY <1>1 DEF PaintZone, Go
    <2>2. lamps' \in Frames /\ lamps'[zone] = frame[zone]
          /\ \A y \in Zones : y # zone => lamps'[y] = lamps[y]
      BY <1>0, <1>1, ArrivesFacts DEF PaintZone
    <2>3. TypeOK'
      BY <1>0, <2>1, <2>2, ZoneFacts DEF TypeOK
    <2>4. PaintedPart'
      BY <1>0, <2>1, <2>2, ZoneFacts DEF DriverInv, PaintedPart
    <2>5. WritePart'
      <3>1. SUFFICES ASSUME pc = "write" PROVE WritePart'
        BY <2>1 DEF WritePart
      <3>2. \A y \in Zones : lamps'[y] = IF y < zone + 1 THEN frame[y] ELSE entry.lamps[y]
        BY <1>0, <2>1, <2>2, <3>1, ZoneFacts DEF DriverInv, WritePart
      <3>3. lamps' = [y \in Zones |-> IF y < zone + 1 THEN frame[y] ELSE entry.lamps[y]]
        BY <2>2, <3>2 DEF Frames
      <3> QED BY <2>1, <3>1, <3>3 DEF DriverInv, WritePart
    <2>6. DarkPart' /\ TrustPart' /\ RememberPart'
      BY <2>1 DEF DriverInv, DarkPart, TrustPart, RememberPart, Painting
    <2> QED BY <2>3, <2>4, <2>5, <2>6 DEF DriverInv
  <1>2. ASSUME NEW point \in {"stimulus", "cleanup", "pulseLight", "pulseClose", "pulseCleanup"},
               NEW colours \in Frames, NEW z \in Zones, Go(point, colours, z),
               pc \notin {"idle", "write"}, lamps' \in Frames, previous' \in {previous, AllBlack},
               UNCHANGED cleanupFault, fault' \in BOOLEAN, UNCHANGED trusted,
               point # "stimulus" => colours = AllBlack, z = 1 \/ point = "pulseLight"
        PROVE  DriverInv'
    <2>1. /\ pc' = point /\ frame' = colours /\ zone' = z
          /\ index' = index /\ answer' = answer /\ entry' = entry /\ trusted' = trusted
          /\ cleanupFault' = cleanupFault
      BY <1>2 DEF Go
    <2>2. previous' \in Frames \cup {NoFrame}
      BY <1>0, <1>2, FrameFacts DEF TypeOK
    <2>3. TypeOK'
      BY <1>0, <1>2, <2>1, <2>2 DEF TypeOK, Points
    <2>4. PaintedPart' /\ DarkPart' /\ TrustPart' /\ WritePart'
      BY <1>2, <2>1, ZoneFacts DEF PaintedPart, DarkPart, TrustPart, WritePart, Painting
    <2>5. RememberPart'
      BY <1>2, <2>1 DEF DriverInv, RememberPart
    <2> QED BY <2>3, <2>4, <2>5 DEF DriverInv
  <1>3. pc = "stimulus" => pc \notin {"idle", "write"} /\ fault \in BOOLEAN
    BY <1>0 DEF TypeOK
  <1>4. ASSUME StimulusEnds \/ StimulusGoesOn PROVE DriverInv'
    <2>1. lamps' \in Frames
      BY <1>0, <1>4, ArrivesFacts DEF StimulusEnds, StimulusGoesOn
    <2>2. Rotated(frame) \in Frames
      BY <1>0, RotatedIsFrame
    <2> QED BY <1>2, <1>3, <1>4, <2>1, <2>2, ZoneFacts, FrameFacts DEF StimulusEnds, StimulusGoesOn
  <1>5. ASSUME StimulusFails PROVE DriverInv'
    <2>1. lamps' \in Frames
      BY <1>0, <1>5, FailsFacts DEF StimulusFails
    <2> QED BY <1>2, <1>5, <2>1, ZoneFacts, FrameFacts DEF StimulusFails
  <1>6. ASSUME CleanupZone PROVE DriverInv'
    <2>1. /\ pc = "cleanup" /\ zone < NumZones /\ pc' = pc /\ frame' = frame /\ zone' = zone + 1
          /\ index' = index /\ answer' = answer /\ entry' = entry /\ previous' = previous
          /\ fault' = fault /\ trusted' = trusted
          /\ (Arrives(zone, Black) /\ cleanupFault' = cleanupFault)
             \/ (Fails(zone, Black) /\ cleanupFault' = TRUE)
      BY <1>6 DEF CleanupZone, Go
    <2>2. lamps' \in Frames
      BY <1>0, <2>1, FrameFacts, ArrivesFacts, FailsFacts
    <2>3. TypeOK'
      BY <1>0, <2>1, <2>2, ZoneFacts DEF TypeOK
    <2>4. DarkPart'
      <3>1. ASSUME ~cleanupFault' PROVE \A z \in Zones : z < zone + 1 => lamps'[z] = Black
        <4>1. Arrives(zone, Black) /\ ~cleanupFault
          BY <2>1, <3>1
        <4>2. lamps'[zone] = Black /\ \A y \in Zones : y # zone => lamps'[y] = lamps[y]
          BY <1>0, <4>1, FrameFacts, ArrivesFacts
        <4>3. \A z \in Zones : z < zone => lamps[z] = Black
          BY <2>1, <4>1 DEF DriverInv, DarkPart
        <4>4. \A z \in Zones : z < zone + 1 <=> z < zone \/ z = zone
          BY <1>0, ZoneFacts
        <4>5. ASSUME NEW z \in Zones, z < zone + 1 PROVE lamps'[z] = Black
          <5>1. CASE z = zone
            BY <4>2, <5>1
          <5>2. CASE z # zone
            BY <4>2, <4>3, <4>4, <4>5, <5>2
          <5> QED BY <5>1, <5>2
        <4> QED BY <4>5
      <3> QED BY <2>1, <3>1 DEF DriverInv, DarkPart
    <2>5. PaintedPart' /\ TrustPart' /\ WritePart' /\ RememberPart'
      BY <2>1 DEF DriverInv, PaintedPart, TrustPart, WritePart, RememberPart, Painting
    <2> QED BY <2>3, <2>4, <2>5 DEF DriverInv
  <1>7. pc \in {"pulseOpen", "pulseLight", "pulseClose"} => frame = AllBlack /\ fault \in BOOLEAN
    BY <1>0 DEF DriverInv, DarkPart, TypeOK
  <1>8. ASSUME PulseOpened \/ PulseLit PROVE DriverInv'
    <2>1. lamps' \in Frames
      BY <1>0, <1>8, FrameFacts, ArrivesFacts DEF PulseOpened, PulseLit
    <2> QED BY <1>0, <1>2, <1>7, <1>8, <2>1, ZoneFacts DEF PulseOpened, PulseLit
  <1>9. ASSUME PulseFails PROVE DriverInv'
    <2>1. lamps' \in Frames
      BY <1>0, <1>9, FrameFacts, FailsFacts DEF PulseFails
    <2> QED BY <1>0, <1>2, <1>7, <1>9, <2>1, ZoneFacts DEF PulseFails
  <1> QED BY <1>1, <1>4, <1>5, <1>6, <1>8, <1>9

(* The reports with which a call returns.                                    *)
LEMMA ReturningStep ==
    DriverInv /\ (WriteDone \/ WriteFails \/ (\E failed \in BOOLEAN : CleanupLast(failed))
                  \/ PulseClosed \/ PulseCleanupFails) => DriverInv'
  <1> SUFFICES ASSUME DriverInv
               PROVE  WriteDone \/ WriteFails \/ (\E failed \in BOOLEAN : CleanupLast(failed))
                      \/ PulseClosed \/ PulseCleanupFails => DriverInv'
    OBVIOUS
  <1>0. /\ lamps \in Frames /\ frame \in Frames /\ zone \in Zones
        /\ frame[zone] \in Colours /\ TypeOK
    BY FrameFacts DEF DriverInv, TypeOK
  <1>1. ASSUME NEW value \in {"ok", "error"}, NEW known \in BOOLEAN, Return(value, known),
               lamps' \in Frames, previous' \in Frames \cup {NoFrame}, known => lamps' = previous'
        PROVE  DriverInv'
    <2>1. /\ pc' = "idle" /\ answer' = value /\ trusted' = known /\ frame' = frame /\ zone' = zone
          /\ index' = index /\ fault' = fault /\ cleanupFault' = cleanupFault /\ entry' = entry
      BY <1>1 DEF Return
    <2>2. TypeOK'
      BY <1>0, <1>1, <2>1 DEF TypeOK, Points
    <2> QED BY <1>1, <2>1, <2>2 DEF DriverInv, PaintedPart, DarkPart, TrustPart, WritePart,
           RememberPart, Painting
  <1>2. previous \in Frames \cup {NoFrame}
    BY <1>0 DEF TypeOK
  <1>3. ASSUME WriteDone PROVE DriverInv'
    <2>1. lamps' = frame
      BY <1>0, <1>3, LastZone DEF WriteDone, DriverInv, PaintedPart, Painting
    <2> QED BY <1>0, <1>1, <1>3, <2>1 DEF WriteDone
  <1>4. ASSUME WriteFails PROVE DriverInv'
    <2>1. lamps' \in Frames
      BY <1>0, <1>4, FailsFacts DEF WriteFails
    <2> QED BY <1>1, <1>2, <1>4, <2>1 DEF WriteFails
  <1>5. ASSUME NEW failed \in BOOLEAN, CleanupLast(failed) PROVE DriverInv'
    <2>1. lamps' \in Frames
      BY <1>0, <1>5, FrameFacts, ArrivesFacts, FailsFacts DEF CleanupLast
    <2>2. ASSUME CleanupKnown(failed) PROVE lamps' = AllBlack /\ previous' = AllBlack
      <3>1. Arrives(zone, AllBlack[zone]) /\ zone = NumZones /\ previous' = AllBlack
            /\ \A z \in Zones : z < zone => lamps[z] = AllBlack[z]
        BY <1>0, <1>5, <2>2, FrameFacts DEF CleanupLast, CleanupKnown, DriverInv, DarkPart
      <3> QED BY <1>0, <3>1, FrameFacts, LastZone
    <2>3. previous' \in Frames \cup {NoFrame}
      BY <1>2, <1>5, FrameFacts DEF CleanupLast
    <2>4. CleanupKnown(failed) \in BOOLEAN
      BY Zenon DEF CleanupKnown
    <2> QED BY <1>1, <1>5, <2>1, <2>2, <2>3, <2>4 DEF CleanupLast
  <1>6. ASSUME PulseClosed PROVE DriverInv'
    <2>1. lamps' = AllBlack
      <3>1. zone = NumZones /\ frame = AllBlack /\ Arrives(zone, frame[zone])
            /\ \A z \in Zones : z < zone => lamps[z] = frame[z]
        BY <1>0, <1>6, FrameFacts DEF PulseClosed, DriverInv, DarkPart, PaintedPart, Painting
      <3> QED BY <1>0, <3>1, LastZone
    <2> QED BY <1>1, <1>6, <2>1, FrameFacts DEF PulseClosed
  <1>7. ASSUME PulseCleanupFails PROVE DriverInv'
    <2>1. lamps' \in Frames
      BY <1>0, <1>7, FrameFacts, FailsFacts DEF PulseCleanupFails
    <2> QED BY <1>1, <1>2, <1>7, <2>1 DEF PulseCleanupFails
  <1> QED BY <1>3, <1>4, <1>5, <1>6, <1>7

LEMMA DriverStutter == DriverInv /\ UNCHANGED vars => DriverInv'
  BY DEF vars, callVars, DriverInv, TypeOK, PaintedPart, DarkPart, TrustPart, WritePart, RememberPart

LEMMA DriverStep == DriverInv /\ [Next]_vars => DriverInv'
  BY CallStep, GoingOnStep, ReturningStep, DriverStutter DEF Next, Report

LEMMA DriverInvariant == Spec => []DriverInv
  BY DriverInit, DriverStep, PTL DEF Spec

(* The frame that the driver remembers is on the lamps as long as no call    *)
(* has failed since it was stored, for any number of zones, and every state  *)
(* is well-typed: write may skip a frame that it remembers.                  *)
THEOREM TrustedIsShown == Spec => []TrustedFrameIsShown
  <1>1. DriverInv => TrustedFrameIsShown
    BY DEF DriverInv, TrustPart, TrustedFrameIsShown
  <1> QED BY <1>1, DriverInvariant, PTL

-----------------------------------------------------------------------------
(* The refinement.                                                           *)
View == IF pc = "idle" THEN [lamps |-> lamps, previous |-> previous] ELSE entry

(* Device's operators, as they are instantiated, are the driver's.           *)
LEMMA ViewOps ==
    /\ DeviceView!Frames = Frames /\ DeviceView!AllBlack = AllBlack
    /\ \A lamp, known : DeviceView!Done(lamp, known) = Done(lamp, known)
                         /\ DeviceView!Failed(lamp, known) = Failed(lamp, known)
    /\ \A d, f : DeviceView!WriteOutcomes(d, f) = WriteOutcomes(d, f)
    /\ \A d : DeviceView!BlackoutOutcomes(d) = BlackoutOutcomes(d)
    /\ \A lamp : DeviceView!Opened(lamp) = Opened(lamp)
  <1>1. DeviceView!Zones = Zones
    BY DEF DeviceView!Zones, Zones
  <1>2. DeviceView!Frames = Frames /\ DeviceView!AllBlack = AllBlack
    BY <1>1 DEF DeviceView!Frames, DeviceView!AllBlack, Frames, AllBlack
  <1>3. \A lamp, known : /\ DeviceView!Done(lamp, known) = Done(lamp, known)
                         /\ DeviceView!Failed(lamp, known) = Failed(lamp, known)
    BY DEF DeviceView!Done, DeviceView!Failed, Done, Failed
  <1>4. \A lamp : DeviceView!Opened(lamp) = Opened(lamp)
    BY DEF DeviceView!Opened, Opened
  <1>5. ASSUME NEW lamp, NEW f, NEW z, NEW hit
        PROVE  DeviceView!Painted(lamp, f, z, hit) = Painted(lamp, f, z, hit)
    BY <1>1, Zenon DEF DeviceView!Painted, Painted
  <1>6. ASSUME NEW d, NEW f
        PROVE  DeviceView!PaintOutcomes(d, f) = PaintOutcomes(d, f)
    BY <1>1, <1>3, <1>5 DEF DeviceView!PaintOutcomes, PaintOutcomes
  <1>7. \A d, f : DeviceView!WriteOutcomes(d, f) = WriteOutcomes(d, f)
    BY <1>6 DEF DeviceView!WriteOutcomes, WriteOutcomes
  <1>8. \A d : DeviceView!BlackoutOutcomes(d) = BlackoutOutcomes(d)
    BY <1>2, <1>6 DEF DeviceView!BlackoutOutcomes, BlackoutOutcomes
  <1> QED BY <1>2, <1>3, <1>4, <1>7, <1>8

LEMMA PartlyPaintedIsOutcome ==
    ASSUME NEW d, NEW f, NEW z \in Zones, NEW hit \in BOOLEAN
    PROVE  Failed(Painted(d.lamps, f, z, hit), d.previous) \in PaintOutcomes(d, f)
  BY DEF PaintOutcomes

(* A write whose report for a zone failed leaves an outcome of the whole     *)
(* call, whether that report reached the lamp or not.                        *)
LEMMA FailedWriteIsOutcome ==
    ASSUME DriverInv, WriteFails
    PROVE  Failed(lamps', previous') \in PaintOutcomes(entry, frame)
  <1>1. /\ lamps \in Frames /\ frame \in Frames /\ zone \in Zones /\ frame[zone] \in Colours
        /\ previous = entry.previous /\ previous' = previous
        /\ lamps = [z \in Zones |-> IF z < zone THEN frame[z] ELSE entry.lamps[z]]
    BY FrameFacts DEF DriverInv, TypeOK, WritePart, WriteFails
  <1>2. ~(zone < zone)
    BY <1>1 DEF Zones
  <1>3. CASE Arrives(zone, frame[zone])
    <2>1. lamps' \in Frames /\ lamps'[zone] = frame[zone]
          /\ \A y \in Zones : y # zone => lamps'[y] = lamps[y]
      BY <1>1, <1>3, ArrivesFacts
    <2>2. lamps' = Painted(entry.lamps, frame, zone, TRUE)
      BY <1>1, <1>2, <2>1 DEF Painted, Frames
    <2> QED BY <1>1, <2>2, PartlyPaintedIsOutcome
  <1>4. CASE lamps' = lamps
    <2>1. lamps' = Painted(entry.lamps, frame, zone, FALSE)
      BY <1>1, <1>4 DEF Painted
    <2> QED BY <1>1, <2>1, PartlyPaintedIsOutcome
  <1> QED BY <1>3, <1>4 DEF WriteFails, Fails

(* Report by report, the driver does what Device promises call by call, for  *)
(* any number of zones: only the report with which a call returns changes    *)
(* what the caller sees, and then to an outcome of the call.                 *)
THEOREM DriverImplementsDevice == Spec => ImplementsDevice
  <1>1. Init => DeviceView!Init
    BY ViewOps DEF Init, DeviceView!Init, Opened
  <1>2. ASSUME DriverInv, [Next]_vars
        PROVE  [DeviceView!Next]_<<View, answer>>
    <2>0. /\ lamps \in Frames /\ frame \in Frames /\ zone \in Zones /\ TypeOK
          /\ frame[zone] \in Colours
      BY <1>2, FrameFacts DEF DriverInv, TypeOK
    <2>1. ASSUME pc # "idle", pc' # "idle", UNCHANGED <<entry, answer>>
          PROVE  UNCHANGED <<View, answer>>
      BY <2>1 DEF View
    <2>2. CASE UNCHANGED vars
      BY <2>2 DEF vars, callVars, View
    <2>3. ASSUME NEW first \in {"write", "stimulus", "cleanup", "pulseOpen"}, NEW colours, NEW z,
                 Begin(first, colours, z)
          PROVE  UNCHANGED <<View, answer>>
      BY <2>3 DEF Begin, View
    <2>4. CASE (\E colours \in Frames : Write(colours)) \/ Blackout \/ Calibrate
               \/ \E z \in Zones : Pulse(z)
      BY <2>3, <2>4 DEF Write, Blackout, Calibrate, Pulse
    <2>5. CASE \E colours \in Frames : WriteUnchanged(colours)
      <3>1. View' = View /\ View = [lamps |-> lamps, previous |-> previous]
            /\ previous \in Frames /\ answer' = "ok"
        BY <2>5 DEF WriteUnchanged, View, callVars
      <3>2. [device |-> View, ok |-> TRUE] \in WriteOutcomes(View, previous)
        BY <3>1 DEF WriteOutcomes
      <3>3. DeviceView!Write
        BY <3>1, <3>2, ViewOps DEF DeviceView!Write, DeviceView!Returns, View
      <3> QED BY <3>3 DEF DeviceView!Next
    <2>6. CASE PulseInvalid
      <3>1. View' = View /\ View = [lamps |-> lamps, previous |-> previous] /\ answer' = "error"
        BY <2>6 DEF PulseInvalid, View, callVars
      <3>2. DeviceView!Diagnostic
        BY <2>0, <3>1, ViewOps DEF DeviceView!Diagnostic, DeviceView!Returns, Failed, View
      <3> QED BY <3>2 DEF DeviceView!Next
    <2>7. CASE PaintZone \/ StimulusEnds \/ StimulusGoesOn \/ StimulusFails \/ CleanupZone
               \/ PulseOpened \/ PulseLit \/ PulseFails
      BY <2>1, <2>7 DEF PaintZone, StimulusEnds, StimulusGoesOn, StimulusFails, CleanupZone,
         PulseOpened, PulseLit, PulseFails, Go, Painting
    <2>8. ASSUME NEW value, NEW known, Return(value, known), pc # "idle"
          PROVE  /\ View = entry /\ View' = [lamps |-> lamps', previous |-> previous']
                 /\ answer' = value
      BY <2>8 DEF Return, View
    <2>9. CASE WriteDone \/ WriteFails
      <3>1. PICK o \in PaintOutcomes(entry, frame) :
               o.device = [lamps |-> lamps', previous |-> previous']
               /\ answer' = IF o.ok THEN "ok" ELSE "error"
        <4>1. CASE WriteDone
          <5>1. lamps' = frame /\ previous' = frame /\ answer' = "ok"
            BY <1>2, <2>0, <2>8, <4>1, LastZone
               DEF WriteDone, DriverInv, PaintedPart, Painting
          <5>2. Done(frame, frame) \in PaintOutcomes(entry, frame)
            BY DEF PaintOutcomes
          <5> QED BY <5>1, <5>2 DEF Done
        <4>2. CASE WriteFails
          <5>1. answer' = "error"
            BY <2>8, <4>2 DEF WriteFails
          <5>2. Failed(lamps', previous') \in PaintOutcomes(entry, frame)
            BY <1>2, <4>2, FailedWriteIsOutcome
          <5> QED BY <5>1, <5>2 DEF Failed
        <4> QED BY <2>9, <4>1, <4>2
      <3>2. /\ View = entry /\ View' = [lamps |-> lamps', previous |-> previous']
            /\ pc = "write"
        BY <2>8, <2>9 DEF WriteDone, WriteFails
      <3>3. entry.previous # frame \/ frame = AllBlack
        BY <1>2, <3>2 DEF DriverInv, WritePart
      <3>4. CASE frame = AllBlack
        <4>1. DeviceView!Blackout
          BY <3>1, <3>2, <3>4, ViewOps DEF DeviceView!Blackout, DeviceView!Returns, BlackoutOutcomes, View
        <4> QED BY <4>1 DEF DeviceView!Next
      <3>5. CASE entry.previous # frame
        <4>1. WriteOutcomes(View, frame) = PaintOutcomes(entry, frame)
          BY <3>2, <3>5 DEF WriteOutcomes
        <4>2. DeviceView!Write
          BY <2>0, <3>1, <3>2, <4>1, ViewOps DEF DeviceView!Write, DeviceView!Returns, View
        <4> QED BY <4>2 DEF DeviceView!Next
      <3> QED BY <3>3, <3>4, <3>5
    <2>10. ASSUME pc # "idle", View = entry, View' = [lamps |-> lamps', previous |-> previous'],
                  lamps' \in Frames, previous' \in {entry.previous, AllBlack},
                  answer' = "error" \/ (answer' = "ok" /\ lamps' = AllBlack /\ previous' = AllBlack)
           PROVE  DeviceView!Next
      <3>1. CASE answer' = "error"
        <4>1. View' = Failed(lamps', previous').device /\ ~Failed(lamps', previous').ok
          BY <2>10 DEF Failed
        <4>2. DeviceView!Diagnostic
          BY <2>10, <3>1, <4>1, ViewOps DEF DeviceView!Diagnostic, DeviceView!Returns, View
        <4> QED BY <4>2 DEF DeviceView!Next
      <3>2. CASE answer' = "ok"
        <4>1. View' = Done(AllBlack, AllBlack).device /\ Done(AllBlack, AllBlack).ok
          BY <2>10, <3>2 DEF Done
        <4>2. DeviceView!Diagnostic
          BY <3>2, <4>1, ViewOps DEF DeviceView!Diagnostic, DeviceView!Returns, View
        <4> QED BY <4>2 DEF DeviceView!Next
      <3> QED BY <2>10, <3>1, <3>2
    <2>11. ASSUME NEW failed \in BOOLEAN, CleanupLast(failed) PROVE DeviceView!Next
      <3>1. DriverInv'
        BY <1>2, DriverStep
      <3>2. lamps' \in Frames
        BY <3>1 DEF DriverInv, TypeOK
      <3>3. previous' \in {entry.previous, AllBlack} /\ pc = "cleanup"
        BY <1>2, <2>11 DEF CleanupLast, DriverInv, RememberPart
      <3>4. CASE CleanupKnown(failed)
        <4>1. previous' = AllBlack /\ trusted' = TRUE /\ pc' = "idle"
          BY <2>11, <3>4 DEF CleanupLast, Return
        <4>2. lamps' = AllBlack
          BY <3>1, <4>1, FrameFacts, NoFrameAssumption DEF DriverInv, TrustPart
        <4> QED BY <2>8, <2>10, <2>11, <3>2, <3>3, <4>1, <4>2 DEF CleanupLast
      <3>5. CASE ~CleanupKnown(failed)
        <4>1. answer' = "error"
          BY <2>8, <2>11, <3>3, <3>5 DEF CleanupLast, CleanupKnown
        <4> QED BY <2>8, <2>10, <2>11, <3>2, <3>3, <4>1 DEF CleanupLast
      <3> QED BY <3>4, <3>5
    <2>12. CASE PulseClosed \/ PulseCleanupFails
      <3>1. DriverInv'
        BY <1>2, DriverStep
      <3>2. lamps' \in Frames
        BY <3>1 DEF DriverInv, TypeOK
      <3>3. previous' \in {entry.previous, AllBlack} /\ pc \notin {"idle", "write", "stimulus"}
        BY <1>2, <2>12 DEF PulseClosed, PulseCleanupFails, DriverInv, RememberPart
      <3>4. CASE PulseClosed
        <4>1. previous' = AllBlack /\ trusted' = TRUE /\ pc' = "idle" /\ answer' \in {"ok", "error"}
          BY <3>4 DEF PulseClosed, Return
        <4>2. lamps' = AllBlack
          BY <3>1, <4>1, FrameFacts, NoFrameAssumption DEF DriverInv, TrustPart
        <4> QED BY <2>8, <2>10, <3>2, <3>3, <3>4, <4>1, <4>2 DEF PulseClosed
      <3>5. CASE PulseCleanupFails
        BY <2>8, <2>10, <3>2, <3>3, <3>5 DEF PulseCleanupFails
      <3> QED BY <2>12, <3>4, <3>5
    <2> QED BY <1>2, <2>2, <2>4, <2>5, <2>6, <2>7, <2>9, <2>11, <2>12 DEF Next, Call, Report
  <1> QED BY <1>1, <1>2, DriverInvariant, PTL DEF Spec, ImplementsDevice, DeviceView!DeviceSpec, View
=============================================================================
