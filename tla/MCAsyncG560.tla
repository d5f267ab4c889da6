----------------------------- MODULE MCAsyncG560 -----------------------------
(***************************************************************************)
(* AsyncG560 with two zones, so that a failed command can leave one lamp   *)
(* lit, and a queue of two.  Three calls, all in flight at once when their *)
(* client gives them up, hold two blackouts around a write or two writes   *)
(* around a blackout, fill the queue and overtake one another.             *)
(***************************************************************************)
EXTENDS AsyncG560

MCColours == {"black", "white"}
=============================================================================
