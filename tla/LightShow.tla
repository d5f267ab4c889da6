----------------------------- MODULE LightShow -----------------------------
(***************************************************************************)
(* What the lighting engine promises to someone who watches the lights.      *)
(*                                                                          *)
(* The frames it shows come from one epoch at a time, and in order.  An      *)
(* epoch ends, at a capture stall or when the engine stops, by closing:      *)
(* what is under way may still be seen.  Then the lights are dark, and only  *)
(* then a new epoch opens, or none.  An epoch whose blackout fails stays     *)
(* closing.  Tasks, channels and deadlines are out of sight.                 *)
(***************************************************************************)
EXTENDS Integers

CONSTANTS Frame, NoFrame    \* what can be shown; NoFrame is black

VARIABLES
    light,     \* what the lights show
    epoch,     \* the tag of the frames that may be shown
    phase,     \* "open", "closing", "dark", "over"
    oldest     \* the frames before this one will never be shown again

Init == light = NoFrame /\ epoch = 0 /\ phase = "open" /\ oldest = 1

Show ==
    /\ phase \in {"open", "closing"}
    /\ light' \in Frame
    /\ light'.gen = epoch /\ light'.id \in oldest..oldest'
    /\ UNCHANGED <<epoch, phase>>

GoDark ==
    /\ phase \in {"open", "closing"}
    /\ light' = NoFrame /\ oldest' >= oldest
    /\ UNCHANGED <<epoch, phase>>

(* Frames are dropped, or overtaken by newer ones.                           *)
PassOver == oldest' >= oldest /\ UNCHANGED <<light, epoch, phase>>

Close ==
    /\ phase = "open" /\ phase' = "closing"
    /\ UNCHANGED <<light, epoch, oldest>>

Darken ==
    /\ phase = "closing" /\ phase' = "dark"
    /\ light' = NoFrame
    /\ UNCHANGED <<epoch, oldest>>

(* The next epoch, or the end.                                               *)
Reopen ==
    /\ phase = "dark" /\ phase' \in {"open", "over"}
    /\ epoch' > epoch
    /\ UNCHANGED <<light, oldest>>

Next == Show \/ GoDark \/ PassOver \/ Close \/ Darken \/ Reopen
ShowSpec == Init /\ [][Next]_<<light, epoch, phase, oldest>>
=============================================================================
