------------------------------- MODULE MCG560 -------------------------------
(***************************************************************************)
(* G560 on three zones and two colours: enough for a failure at the first,   *)
(* a middle and the last zone, and for lamps that agree with a frame in part.*)
(***************************************************************************)
EXTENDS G560

MCColours  == {"black", "white"}
MCStimulus == [z \in Zones |-> IF z = 1 THEN "white" ELSE "black"]
=============================================================================
