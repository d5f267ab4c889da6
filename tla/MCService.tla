------------------------------ MODULE MCService ------------------------------
(***************************************************************************)
(* Service with two manual colours and a proxy channel of two: a write the   *)
(* engine gave up and its final blackout are both left behind when the       *)
(* engine ends, and the channel is then full for the next engine.            *)
(***************************************************************************)
EXTENDS Service
MCManual == {"red", "blue"}
=============================================================================
