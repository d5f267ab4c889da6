------------------------------ MODULE DeviceOps ------------------------------
(***************************************************************************)
(* The G560 as its driver sees it (struct G560 of src/usb/device.rs): what   *)
(* the lamps show and the frame the driver remembers having sent.  An        *)
(* operation is the set of its outcomes.                                     *)
(*                                                                          *)
(* A frame gives each zone its colour.  Reports go out zone by zone, in the  *)
(* order 1..NumZones (left rear, left front, right front, right rear in the  *)
(* code).  A report that fails (an error or a short transfer) may all the    *)
(* same have reached the speaker: a transfer can time out after the device   *)
(* took it.                                                                  *)
(***************************************************************************)
EXTENDS Naturals

CONSTANTS
    NumZones,   \* 4 in the code
    Colours, Black,
    NoFrame     \* `previous` is None

Zones  == 1..NumZones
Frames == [Zones -> Colours]
AllBlack == [z \in Zones |-> Black]

ASSUME ZonesAssumption   == NumZones \in Nat \ {0}
ASSUME ColoursAssumption == Black \in Colours
ASSUME NoFrameAssumption == NoFrame \notin Frames

Devices  == [lamps : Frames, previous : Frames \cup {NoFrame}]
Outcomes == [device : Devices, ok : BOOLEAN]

(* What the lamps show when the reports of the zones before z arrived and    *)
(* the report of z failed, having reached its lamp (hit) or not.             *)
Painted(lamps, frame, z, hit) ==
    [y \in Zones |-> IF y < z \/ (y = z /\ hit) THEN frame[y] ELSE lamps[y]]

Done(lamps, previous)  == [device |-> [lamps |-> lamps, previous |-> previous], ok |-> TRUE]
Failed(lamps, previous) == [device |-> [lamps |-> lamps, previous |-> previous], ok |-> FALSE]

(* write_all, and the assignment to `previous` that follows it in write and  *)
(* blackout and that its `?` skips: a failed frame is never remembered.      *)
PaintOutcomes(d, frame) ==
    {Done(frame, frame)} \cup
    {Failed(Painted(d.lamps, frame, z, hit), d.previous) : z \in Zones, hit \in BOOLEAN}

(* G560::write: nothing is sent when the frame is the remembered one.        *)
WriteOutcomes(d, frame) ==
    IF d.previous = frame THEN {[device |-> d, ok |-> TRUE]} ELSE PaintOutcomes(d, frame)

(* mutant: a blackout is coalesced as a write is *)
BlackoutCoalesced(d) == WriteOutcomes(d, AllBlack)

(* G560::blackout: always sends every report.                                *)
BlackoutOutcomes(d) == PaintOutcomes(d, AllBlack)

(* A device just opened: nothing is remembered, the lamps are as they were.  *)
Opened(lamps) == [lamps |-> lamps, previous |-> NoFrame]
=============================================================================
