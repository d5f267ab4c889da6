------------------------------ MODULE MCCapture ------------------------------
(***************************************************************************)
(* Small instance of Capture: a landscape and a portrait monitor, three caps *)
(* events per pipeline (a rotation and back, and one more during an         *)
(* install), two errors in Gamescope's queue.  The masks are compiled for     *)
(* landscape, portrait, odd and very small frames; a centre lies on the      *)
(* diagonal of 10 x 11 and of 66 x 33.                                       *)
(***************************************************************************)
EXTENDS SampledFrames

MCDimensions == {"160x90", "160x284"}
MCMaxCaps == 3
MCMaxErrors == 2
MCBackends == {"desktop", "gamescope"}
MCSizes == ((1..12) \X {1, 2, 3, 7}) \cup {<<10, 11>>, <<40, 23>>, <<18, 32>>, <<66, 33>>}
=============================================================================
