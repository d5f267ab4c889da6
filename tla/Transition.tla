------------------------------ MODULE Transition ------------------------------
(***************************************************************************)
(* TransitionController of src/transition.rs, the durations that the writer  *)
(* of src/engine.rs gives it, and the reports that carry a colour to the     *)
(* speaker (src/usb/protocol.rs).                                            *)
(*                                                                          *)
(* An instant is a number of milliseconds.  A colour on its way is kept as   *)
(* where it comes from, where it goes and how far it is: the mixing in Oklab *)
(* is left out.                                                              *)
(***************************************************************************)
EXTENDS Zones, Integers

CONSTANT Colour, BlackColour     \* 8-bit colours; black is one of them

DEFAULT_TRANSITION_DURATION == 90
NORMAL_FADE_TO_BLACK_DURATION == 200
NotStarted == -1

(* smoothstep of elapsed / duration, over duration^3.                        *)
Progress(elapsed, duration) == elapsed * elapsed * (3 * duration - 2 * elapsed)
Interpolated(start, target, elapsed, duration) ==
    [start |-> start, target |-> target,
     num |-> Progress(elapsed, duration), den |-> duration * duration * duration]

NewTransition(initial, duration) ==
    [start |-> initial, target |-> initial, startedAt |-> NotStarted,
     durations |-> [zone \in ZoneIds |-> duration]]

(* saturating_duration_since.                                                *)
Elapsed(now, startedAt) == IF now > startedAt THEN now - startedAt ELSE 0

ColorAt(t, zone, now) ==
    IF t.startedAt = NotStarted \/ Elapsed(now, t.startedAt) >= t.durations[zone]
    THEN t.target[zone]
    ELSE Interpolated(t.start[zone], t.target[zone],
                      Elapsed(now, t.startedAt), t.durations[zone])
ColorsAt(t, now) == [zone \in ZoneIds |-> ColorAt(t, zone, now)]

IsComplete(t, now) ==
    \/ t.startedAt = NotStarted
    \/ \A zone \in ZoneIds : Elapsed(now, t.startedAt) >= t.durations[zone]

(* retarget_with_zone_durations; retarget keeps the durations.               *)
RetargetWithZoneDurations(t, target, now, durations) ==
    [start |-> ColorsAt(t, now), target |-> target, startedAt |-> now, durations |-> durations]
Retarget(t, target, now) == RetargetWithZoneDurations(t, target, now, t.durations)

(* normal_transition_durations.                                              *)
NormalTransitionDurations(displayed, target) ==
    [zone \in ZoneIds |->
        IF displayed[zone] # BlackColour /\ target[zone] = BlackColour
        THEN NORMAL_FADE_TO_BLACK_DURATION ELSE DEFAULT_TRANSITION_DURATION]

(* accept_update begins at what the lamps show.                              *)
Accepted(displayed, target, now) ==
    RetargetWithZoneDurations(NewTransition(displayed, DEFAULT_TRANSITION_DURATION),
                              target, now, NormalTransitionDurations(displayed, target))

-----------------------------------------------------------------------------
(* encode_solid: the report for one zone, by the zone's index in the speaker. *)
REPORT_LEN == 20
ZoneIndex(zone) ==
    CASE zone = "LeftRear"   -> 2
      [] zone = "LeftFront"  -> 0
      [] zone = "RightFront" -> 1
      [] zone = "RightRear"  -> 3
EncodeSolidIndex(index, color) ==
    [i \in 1..REPORT_LEN |->
        IF i > 9 THEN 0
        ELSE <<17, 255, 4, 58, index, 1, color.r, color.g, color.b>>[i]]
EncodeSolid(zone, color) == EncodeSolidIndex(ZoneIndex(zone), color)
=============================================================================
