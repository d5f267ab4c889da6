-------------------------------- MODULE G560 --------------------------------
(***************************************************************************)
(* The synchronous driver of the speaker (struct G560 of src/usb/device.rs), *)
(* one step per USB report: write, blackout, and the two diagnostics,        *)
(* calibrate_pacing and pulse_protocol_zone.                                 *)
(*                                                                          *)
(* Any report may fail.  How long a calibration lasts is a free choice: its  *)
(* loop looks at the clock before each frame.  The delay between reports and *)
(* the report's bytes are left out.                                          *)
(***************************************************************************)
EXTENDS DeviceOps

CONSTANTS Stimulus, White   \* calibration's first frame; the pulse's colour

ASSUME StimulusAssumption == Stimulus \in Frames /\ White \in Colours

VARIABLES
    lamps,      \* what the speaker shows
    previous,   \* the frame the driver remembers
    pc,         \* what the next report belongs to
    frame,      \* the colours the call is sending
    zone,       \* the zone of the next report
    index,      \* the zone a pulse lights
    fault,      \* calibration: first_error; cleanup: cleanup_error
    cleanupFault,
    answer,     \* what the last call returned
    entry,      \* history: the device when the call under way began
    trusted     \* history: no call has failed since `previous` was stored

callVars == <<pc, frame, zone, index, fault, cleanupFault>>
vars == <<lamps, previous, callVars, answer, entry, trusted>>

Points == {"idle", "write", "stimulus", "cleanup",
           "pulseOpen", "pulseLight", "pulseClose", "pulseCleanup"}

TypeOK ==
    /\ lamps \in Frames /\ previous \in Frames \cup {NoFrame}
    /\ pc \in Points /\ frame \in Frames /\ zone \in Zones /\ index \in Zones
    /\ fault \in BOOLEAN /\ cleanupFault \in BOOLEAN /\ trusted \in BOOLEAN
    /\ answer \in {"none", "ok", "error"}
    /\ entry \in Devices

Init ==
    /\ lamps \in Frames /\ previous = NoFrame
    /\ pc = "idle" /\ frame = AllBlack /\ zone = 1 /\ index = 1
    /\ fault = FALSE /\ cleanupFault = FALSE
    /\ answer = "none" /\ entry = Opened(lamps) /\ trusted = TRUE

(* A call begins: `first` is what its first report belongs to.               *)
Begin(first, colours, z) ==
    /\ pc = "idle" /\ pc' = first /\ frame' = colours /\ zone' = 1 /\ index' = z
    /\ fault' = FALSE /\ cleanupFault' = FALSE
    /\ entry' = [lamps |-> lamps, previous |-> previous]
    /\ UNCHANGED <<lamps, previous, answer, trusted>>

(* A call returns: known says that `previous` is stored as it does so.        *)
Return(value, known) ==
    /\ pc' = "idle" /\ answer' = value /\ trusted' = known
    /\ UNCHANGED <<frame, zone, index, fault, cleanupFault, entry>>

(* One report: it arrives, or fails and may have arrived all the same.       *)
Arrives(z, colour) == lamps' = [lamps EXCEPT ![z] = colour]
Fails(z, colour)   == Arrives(z, colour) \/ lamps' = lamps

Go(point, colours, z) ==
    /\ pc' = point /\ frame' = colours /\ zone' = z
    /\ UNCHANGED <<index, answer, entry>>

Write(colours)     == previous # colours /\ Begin("write", colours, 1)
WriteUnchanged(colours) ==
    /\ pc = "idle" /\ previous = colours
    /\ entry' = [lamps |-> lamps, previous |-> previous]
    /\ answer' = "ok"
    /\ UNCHANGED <<lamps, previous, callVars, trusted>>
Blackout           == Begin("write", AllBlack, 1)
Calibrate          == \/ Begin("stimulus", Stimulus, 1)
                      \/ Begin("cleanup", AllBlack, 1)
Pulse(z)           == Begin("pulseOpen", AllBlack, z)

(* pulse_protocol_zone refuses an index above 3 before it sends anything.    *)
PulseInvalid ==
    /\ pc = "idle" /\ answer' = "error"
    /\ entry' = [lamps |-> lamps, previous |-> previous]
    /\ UNCHANGED <<lamps, previous, callVars, trusted>>

(* The loop of write_all, before its last report; also calibration's frame.  *)
Painting == {"write", "stimulus", "pulseOpen", "pulseClose", "pulseCleanup"}
PaintZone ==
    /\ pc \in Painting /\ zone < NumZones
    /\ Arrives(zone, frame[zone])
    /\ Go(pc, frame, zone + 1)
    /\ UNCHANGED <<previous, fault, cleanupFault, trusted>>

WriteDone ==
    /\ pc = "write" /\ zone = NumZones
    /\ Arrives(zone, frame[zone]) /\ previous' = frame
    /\ Return("ok", TRUE)

(* mutant: the frame is remembered before its reports are sent *)
WriteFailsRemembered ==
    /\ pc = "write"
    /\ Fails(zone, frame[zone])
    /\ Return("error", FALSE)
    /\ previous' = frame

WriteFails ==
    /\ pc = "write"
    /\ Fails(zone, frame[zone])
    /\ Return("error", FALSE)
    /\ UNCHANGED previous

(* colors.rotate_left(1) between the frames of a calibration.                *)
Rotated(colours) == [z \in Zones |-> colours[(z % NumZones) + 1]]

StimulusEnds ==
    /\ pc = "stimulus" /\ zone = NumZones
    /\ Arrives(zone, frame[zone])
    /\ Go("cleanup", AllBlack, 1)
    /\ UNCHANGED <<previous, fault, cleanupFault, trusted>>

StimulusGoesOn ==
    /\ pc = "stimulus" /\ zone = NumZones
    /\ Arrives(zone, frame[zone])
    /\ Go("stimulus", Rotated(frame), 1)
    /\ UNCHANGED <<previous, fault, cleanupFault, trusted>>

StimulusFails ==
    /\ pc = "stimulus"
    /\ Fails(zone, frame[zone]) /\ fault' = TRUE
    /\ Go("cleanup", AllBlack, 1)
    /\ UNCHANGED <<previous, cleanupFault, trusted>>

(* Cleanup sends black to every zone, whatever fails.                        *)
CleanupZone ==
    /\ pc = "cleanup" /\ zone < NumZones
    /\ \/ Arrives(zone, Black) /\ UNCHANGED cleanupFault
       \/ Fails(zone, Black) /\ cleanupFault' = TRUE
    /\ Go("cleanup", frame, zone + 1)
    /\ UNCHANGED <<previous, fault, trusted>>

(* After the last zone the darkness is remembered if no report of the        *)
(* cleanup failed, the earlier zones' included.                              *)
CleanupKnownByLast(failed) == ~failed   \* mutant: earlier failures forgotten
CleanupKnown(failed) == ~failed /\ ~cleanupFault

CleanupLast(failed) ==
    /\ pc = "cleanup" /\ zone = NumZones
    /\ IF failed THEN Fails(zone, Black) ELSE Arrives(zone, Black)
    /\ previous' = IF CleanupKnown(failed) THEN AllBlack ELSE previous
    /\ Return(IF failed \/ cleanupFault \/ fault THEN "error" ELSE "ok",
              CleanupKnown(failed))

(* The pulse: blackout, light one zone, blackout; one more blackout when any *)
(* report failed, whose own result is ignored.                               *)
PulseOpened ==
    /\ pc = "pulseOpen" /\ zone = NumZones
    /\ Arrives(zone, Black) /\ previous' = AllBlack
    /\ Go("pulseLight", frame, index)
    /\ UNCHANGED <<fault, cleanupFault, trusted>>

PulseLit ==
    /\ pc = "pulseLight"
    /\ Arrives(zone, White)
    /\ Go("pulseClose", frame, 1)
    /\ UNCHANGED <<previous, fault, cleanupFault, trusted>>

PulseFails ==
    /\ pc \in {"pulseOpen", "pulseLight", "pulseClose"}
    /\ Fails(zone, IF pc = "pulseLight" THEN White ELSE Black)
    /\ Go("pulseCleanup", frame, 1)
    /\ UNCHANGED <<previous, fault, cleanupFault, trusted>>

PulseClosed ==
    /\ pc \in {"pulseClose", "pulseCleanup"} /\ zone = NumZones
    /\ Arrives(zone, Black) /\ previous' = AllBlack
    /\ Return(IF pc = "pulseClose" THEN "ok" ELSE "error", TRUE)

PulseCleanupFails ==
    /\ pc = "pulseCleanup"
    /\ Fails(zone, Black)
    /\ Return("error", FALSE)
    /\ UNCHANGED previous

Report ==
    \/ PaintZone \/ WriteDone \/ WriteFails
    \/ StimulusGoesOn \/ StimulusEnds \/ StimulusFails
    \/ CleanupZone \/ (\E failed \in BOOLEAN : CleanupLast(failed))
    \/ PulseOpened \/ PulseLit \/ PulseFails \/ PulseClosed \/ PulseCleanupFails

Call ==
    \/ \E colours \in Frames : Write(colours) \/ WriteUnchanged(colours)
    \/ Blackout \/ Calibrate
    \/ (\E z \in Zones : Pulse(z)) \/ PulseInvalid

Next == Call \/ Report
Spec == Init /\ [][Next]_vars

(* The transfers are bounded (100 ms each), so a call under way goes on; the *)
(* clock ends a calibration's stimulus.                                      *)
FairSpec == Spec /\ WF_vars(Report) /\ SF_vars(StimulusEnds)

-----------------------------------------------------------------------------
(* A frame the driver remembers is on the lamps as long as no call has       *)
(* failed since it was stored.  (After a failure the remembered frame is     *)
(* kept though some lamps have changed: `write` of that frame is then        *)
(* skipped.)  What is stored after a calibration whose cleanup failed at one *)
(* zone and not at the last is the hard case.  Checked with the types.       *)
TrustedFrameIsShown ==
    /\ TypeOK
    /\ pc = "idle" /\ trusted /\ previous # NoFrame => lamps = previous

(* Report by report, the driver does what Device promises call by call: a    *)
(* blackout or diagnostic that returns Ok left every lamp dark whatever the  *)
(* driver remembered, a failed write changed a prefix of the zones and       *)
(* nothing it remembers.                                                     *)
DeviceView == INSTANCE Device WITH
    device <- IF pc = "idle" THEN [lamps |-> lamps, previous |-> previous] ELSE entry
ImplementsDevice == DeviceView!DeviceSpec
=============================================================================
