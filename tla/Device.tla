------------------------------- MODULE Device -------------------------------
(***************************************************************************)
(* What the driver of the speaker promises its callers, one step per call:   *)
(* what the lamps show and what is remembered when the call returns, and     *)
(* whether it returns Ok.  G560 implements it report by report.              *)
(***************************************************************************)
EXTENDS DeviceOps

VARIABLES device, answer   \* answer: "none" (no call yet), "ok", "error"

Init == /\ device \in {Opened(lamps) : lamps \in Frames}
        /\ answer = "none"

Returns(outcome) == /\ device' = outcome.device
                    /\ answer' = IF outcome.ok THEN "ok" ELSE "error"

Write    == \E frame \in Frames : \E o \in WriteOutcomes(device, frame) : Returns(o)
Blackout == \E o \in BlackoutOutcomes(device) : Returns(o)

(* A diagnostic (a calibration, a pulse) that succeeds leaves the speaker    *)
(* dark and known to be dark.  One that fails may leave it anyhow, but it is *)
(* remembered as dark only if a whole blackout went through meanwhile.       *)
Diagnostic ==
    \/ Returns(Done(AllBlack, AllBlack))
    \/ \E lamps \in Frames, previous \in {device.previous, AllBlack} :
           Returns(Failed(lamps, previous))

Next == Write \/ Blackout \/ Diagnostic
DeviceSpec == Init /\ [][Next]_<<device, answer>>
=============================================================================
