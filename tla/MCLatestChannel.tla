--------------------------- MODULE MCLatestChannel ---------------------------
(***************************************************************************)
(* LatestChannel on a small instance: with four sends a send can fall into  *)
(* every gap of two consecutive receives, before and after the last one.    *)
(***************************************************************************)
EXTENDS LatestChannel

MCMaxSends == 4
=============================================================================
