----------------------------- MODULE MCControl -----------------------------
(***************************************************************************)
(* Control with one window, two requests over a queue of two, and the        *)
(* service started twice at most.  Three units of work in all, the requests  *)
(* among them: grants, engine events, crashes, stops, closed windows.  Two   *)
(* settings besides the default, one new token; the first file is whole or   *)
(* not one the program reads.  ControllerModel is there for its constant.    *)
(***************************************************************************)
EXTENDS Control, ControllerModel
=============================================================================
