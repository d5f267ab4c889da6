------------------------------ MODULE MCEngine ------------------------------
(***************************************************************************)
(* Engine on small instances.  Two stalls and three frames let a frame of    *)
(* the first, the second and the third generation be held at every place of  *)
(* the pipeline while a blackout is requested, served and acknowledged.      *)
(***************************************************************************)
EXTENDS Engine

MCFrames == 3
MCStalls == 2
=============================================================================
