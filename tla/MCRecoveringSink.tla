-------------------------- MODULE MCRecoveringSink --------------------------
(***************************************************************************)
(* RecoveringSink with two zones, so that a failed write can leave one lamp  *)
(* of a frame lit, and two colours.                                          *)
(***************************************************************************)
EXTENDS RecoveringSink
MCColours == {"black", "white"}
=============================================================================
