------------------------------- MODULE Light -------------------------------
(***************************************************************************)
(* What the recovering sink promises its caller: one call at a time on a     *)
(* speaker that comes and goes.  Attempts, retries, handles and the USB      *)
(* interface are out of sight.  What is left of them is whether the speaker  *)
(* is open and which frame is believed to be on it.                          *)
(*                                                                          *)
(* Reports that fail may have reached some lamps; so every step that paints  *)
(* does it wholly, and is believed, or partly, and is not.                   *)
(***************************************************************************)
EXTENDS DeviceOps

VARIABLES
    lamps,      \* what the speaker shows, or will not show while it is away
    believed,   \* the frame that a write may skip, or NoFrame
    open,       \* the sink has opened the speaker, and it is still there
    plugged, cancelled,
    doing,      \* the call under way: "nothing", "write", "blackout"
    target,     \* what the write is asked to show, and whether it can get stale
    answer      \* what the last call returned, "none" while one is under way

light == <<lamps, believed, open>>
outside == <<plugged, cancelled>>

Init ==
    /\ lamps \in Frames /\ believed = NoFrame /\ open = FALSE
    /\ plugged \in BOOLEAN /\ cancelled = FALSE
    /\ doing = "nothing" /\ target = [frame |-> AllBlack, captured |-> FALSE]
    /\ answer = "none"

(* The speaker leaves, and comes back with its lamps as they please.         *)
Vanishes ==
    /\ plugged /\ plugged' = FALSE /\ open' = FALSE
    /\ UNCHANGED <<lamps, believed, cancelled, doing, target, answer>>

Appears ==
    /\ ~plugged /\ plugged' = TRUE /\ lamps' \in Frames
    /\ UNCHANGED <<believed, open, cancelled, doing, target, answer>>

Cancel == cancelled' = TRUE /\ UNCHANGED <<light, plugged, doing, target, answer>>

-----------------------------------------------------------------------------
Wholly(frame) == lamps' = frame /\ believed' = frame
Reaches(frame) == \A z \in Zones : lamps'[z] \in {lamps[z], frame[z]}
Partly(frame) == Reaches(frame) /\ believed' = believed

Asks(call) == doing = "nothing" /\ doing' = call /\ answer' = "none" /\ UNCHANGED <<light, outside>>
Write ==
    /\ Asks("write")
    /\ \E frame \in Frames, captured \in BOOLEAN : target' = [frame |-> frame, captured |-> captured]
Blackout == Asks("blackout") /\ UNCHANGED target

Goes(call) == doing = call /\ UNCHANGED <<outside, target>>
Continues  == UNCHANGED <<doing, answer>>
Returns(value) == doing' = "nothing" /\ answer' = value

-----------------------------------------------------------------------------
(* The steps of a write.  Opening begins with darkness, on all lamps if it   *)
(* succeeds; nothing but black is painted before.  A speaker that is given   *)
(* up is believed to show nothing.                                           *)
Opens == Goes("write") /\ ~open /\ plugged /\ Wholly(AllBlack) /\ open' = TRUE /\ Continues
FailsToOpen ==
    /\ Goes("write") /\ ~open /\ plugged /\ Partly(AllBlack)
    /\ UNCHANGED open /\ Continues

(* Black is painted in the place of a target only if that can get stale.     *)
Wanted == {target.frame} \cup (IF target.captured THEN {AllBlack} ELSE {})

FailsToPaint ==
    /\ Goes("write") /\ open /\ \E frame \in Wanted : Partly(frame)
    /\ UNCHANGED open /\ Continues

GivesUp == open' = FALSE /\ believed' = NoFrame /\ (UNCHANGED lamps \/ (open /\ Reaches(AllBlack)))
LosesPatience == Goes("write") /\ GivesUp /\ Continues

(* Its answers.  It fails for no other reason than cancellation.             *)
Rendered ==
    /\ Goes("write") /\ open /\ Wholly(target.frame) /\ UNCHANGED open
    /\ Returns("rendered")
Skipped ==
    /\ Goes("write") /\ believed = target.frame /\ UNCHANGED light
    /\ Returns(IF target.captured THEN "unchanged" ELSE "rendered")
Expired ==
    /\ Goes("write") /\ target.captured /\ UNCHANGED open
    /\ \/ open /\ Wholly(AllBlack)
       \/ believed = AllBlack /\ UNCHANGED light
    /\ Returns("expired")
Cancelled == Goes("write") /\ cancelled /\ UNCHANGED light /\ Returns("error")

(* The answers of a blackout.  It has nothing to do for a speaker that was   *)
(* never opened or was given up, and fails for one that vanished.            *)
Darkened ==
    /\ Goes("blackout") /\ open /\ Wholly(AllBlack) /\ UNCHANGED open
    /\ Returns("dark")
NothingToDarken ==
    /\ Goes("nothing") /\ ~open /\ UNCHANGED light
    /\ Returns("dark")
NotDarkened ==
    /\ Goes("blackout") /\ UNCHANGED open
    /\ UNCHANGED light \/ (open /\ Partly(AllBlack))
    /\ Returns("error")

Next ==
    \/ Vanishes \/ Appears \/ Cancel \/ Write \/ Blackout
    \/ Opens \/ FailsToOpen \/ FailsToPaint \/ LosesPatience
    \/ Rendered \/ Skipped \/ Expired \/ Cancelled
    \/ Darkened \/ NothingToDarken \/ NotDarkened
LightSpec == Init /\ [][Next]_<<light, outside, doing, target, answer>>
=============================================================================
