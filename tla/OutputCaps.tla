----------------------------- MODULE OutputCaps -----------------------------
(***************************************************************************)
(* OutputCapsCoordinator of src/capture/gstreamer.rs.  The streaming thread  *)
(* sees every upstream caps event (the probe) and requests an update of the  *)
(* caps filter, or invalidates the output when the event has no usable       *)
(* dimensions; one worker at a time, started through call_async, drains the  *)
(* requests and installs them outside the lock.  `expected` gates the frames *)
(* the source accepts.                                                      *)
(*                                                                          *)
(* Caps are their scaled dimensions.  A streaming thread may send a caps     *)
(* event at any time, as often as revision <= MaxCaps allows (the code's     *)
(* revision is a wrapping u64).                                             *)
(***************************************************************************)
EXTENDS Naturals

CONSTANTS
    Dimensions,         \* scaled dimensions of usable upstream caps
    InitialDimensions,  \* what the caps filter starts with (160 x 90)
    Closed,             \* expected_dimensions = 0: no frame passes
    Unusable,           \* upstream caps without usable dimensions, or none yet
    NoUpdate,           \* OutputCapsState.pending = None
    MaxCaps

ASSUME CapsAssumption ==
    /\ InitialDimensions \in Dimensions
    /\ Closed \notin Dimensions /\ Unusable \notin Dimensions
    /\ MaxCaps \in Nat

VARIABLES
    upstream,     \* scaled dimensions of the newest upstream caps
    revision,     \* OutputCapsState
    pending,
    running,      \* worker_running
    worker,       \* "idle", "take", "install", "commit": where drain is
    update,       \* the update drain holds
    filter,       \* the caps property of the caps filter
    expected      \* expected_dimensions

capsVars == <<upstream, revision, pending, running, worker, update, filter, expected>>

Updates == [revision : 1..MaxCaps, dimensions : Dimensions]
ASSUME NoUpdateAssumption == NoUpdate \notin Updates

CapsTypeOK ==
    /\ upstream \in Dimensions \cup {Unusable}
    /\ revision \in 0..MaxCaps
    /\ pending \in Updates \cup {NoUpdate}
    /\ worker \in {"idle", "take", "install", "commit"}
    /\ update \in Updates \cup {NoUpdate}
    /\ filter \in Dimensions
    /\ expected \in Dimensions \cup {Closed}
    /\ running \in BOOLEAN

CapsInit ==
    /\ upstream = Unusable
    /\ revision = 0
    /\ pending = NoUpdate
    /\ running = FALSE
    /\ worker = "idle"
    /\ update = NoUpdate
    /\ filter = InitialDimensions
    /\ expected = Closed

-----------------------------------------------------------------------------
(* The probe, on the streaming thread.                                      *)

Shut(gate) == Closed

Request(d) ==
    /\ revision < MaxCaps
    /\ upstream' = d
    /\ revision' = revision + 1
    /\ pending' = [revision |-> revision + 1, dimensions |-> d]
    /\ expected' = Shut(expected)
    /\ running' = TRUE
    /\ worker' = IF running THEN worker ELSE "take"
    /\ UNCHANGED <<update, filter>>

Invalidate ==
    /\ revision < MaxCaps
    /\ upstream' = Unusable
    /\ revision' = revision + 1
    /\ pending' = NoUpdate
    /\ expected' = Closed
    /\ UNCHANGED <<running, worker, update, filter>>

-----------------------------------------------------------------------------
(* drain, on a thread of call_async.                                        *)

DrainTake ==
    /\ worker = "take"
    /\ IF pending = NoUpdate
       THEN running' = FALSE /\ worker' = "idle" /\ update' = NoUpdate
       ELSE running' = running /\ worker' = "install" /\ update' = pending
    /\ pending' = NoUpdate
    /\ UNCHANGED <<upstream, revision, filter, expected>>

DrainInstall ==
    /\ worker = "install"
    /\ filter' = update.dimensions
    /\ worker' = "commit"
    /\ UNCHANGED <<upstream, revision, pending, running, update, expected>>

NewestAlways(u) == TRUE      \* mutant: the revision is not compared
Newest(u) == revision = u.revision

DrainCommit ==
    /\ worker = "commit"
    /\ IF Newest(update) THEN expected' = update.dimensions ELSE UNCHANGED expected
    /\ IF ~Newest(update) /\ pending # NoUpdate
       THEN running' = running /\ worker' = "take"
       ELSE running' = FALSE /\ worker' = "idle"
    /\ update' = NoUpdate
    /\ UNCHANGED <<upstream, revision, pending, filter>>

Drain == DrainTake \/ DrainInstall \/ DrainCommit

CapsNext == (\E d \in Dimensions : Request(d)) \/ Invalidate \/ Drain

-----------------------------------------------------------------------------
(* Frames pass only when the newest upstream caps are the ones installed,    *)
(* whatever arrived while an older update was being installed outside the    *)
(* lock.                                                                    *)
GateFollowsCaps == expected # Closed => expected = upstream /\ filter = expected

(* No wake-up is lost: when no worker runs, the newest usable upstream caps  *)
(* are installed and the gate is open, so capture cannot stay gated for ever *)
(* because request saw worker_running just before drain cleared it.          *)
NoCapsLost == ~running /\ upstream # Unusable => expected = upstream /\ filter = upstream
=============================================================================
