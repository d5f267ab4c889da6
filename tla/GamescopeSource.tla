--------------------------- MODULE GamescopeSource ---------------------------
(***************************************************************************)
(* GamescopeFrameSource of src/capture/gamescope.rs: a thread that owns the  *)
(* PipeWire main loop, announces itself on a one-place channel to an opener  *)
(* that waits at most 5 s on a blocking thread, and is told to quit through  *)
(* a command channel.  Frames go through a latest-value channel, errors      *)
(* through an unbounded queue that next_frame reads first.                   *)
(*                                                                          *)
(* PipeWire is external: set-up ends or fails at any time, the stream has    *)
(* frames and errors at any time; at most MaxErrors errors are queued.  The  *)
(* pacing and decoding of frames are in FrameLayout.                           *)
(***************************************************************************)
EXTENDS Naturals, FrameSource

CONSTANT MaxErrors
ASSUME MaxErrorsAssumption == MaxErrors \in Nat

VARIABLES
    thread,    \* run_worker: "none", "setup", "announce", "loop", "gone"
    startup,   \* the startup channel: "none", "open", "ok", "err", "closed" (no receiver)
    opener,    \* "idle", "waiting", "joining", "shutting" (spawn_blocking join)
    stop,      \* WorkerCommand::Stop was sent
    orphaned,  \* the command sender was dropped without Stop
    errors,    \* error_receiver
    frame      \* frame_receiver holds a frame

gamescopeVars == <<thread, startup, opener, stop, orphaned, errors, frame>>

GamescopeTypeOK ==
    /\ thread \in {"none", "setup", "announce", "loop", "gone"}
    /\ startup \in {"none", "open", "ok", "err", "closed"}
    /\ opener \in {"idle", "waiting", "joining", "shutting"}
    /\ stop \in BOOLEAN /\ orphaned \in BOOLEAN /\ frame \in BOOLEAN
    /\ errors \in 0..MaxErrors

GamescopeInit ==
    /\ thread = "none" /\ startup = "none" /\ opener = "idle"
    /\ stop = FALSE /\ orphaned = FALSE /\ errors = 0 /\ frame = FALSE

-----------------------------------------------------------------------------
(* GamescopeFrameSource::open.                                              *)

StartWorker ==
    /\ Awaiting("open") /\ opener = "idle"
    /\ thread' = "setup" /\ startup' = "open" /\ opener' = "waiting"
    /\ stop' = FALSE /\ orphaned' = FALSE /\ errors' = 0 /\ frame' = FALSE
    /\ UNCHANGED sourceVars

WorkerStarted ==
    /\ opener = "waiting" /\ startup = "ok"
    /\ startup' = "closed" /\ opener' = "idle"
    /\ Reply(Ok)
    /\ UNCHANGED <<thread, stop, orphaned, errors, frame>>

(* recv_timeout gives up, or the set-up failed: join, on the async thread.   *)
StartupTimeout ==
    /\ opener = "waiting" /\ startup = "open"
    /\ startup' = "closed" /\ opener' = "joining" /\ stop' = TRUE
    /\ UNCHANGED <<thread, orphaned, errors, frame, sourceVars>>

SetupFailed ==
    /\ opener = "waiting" /\ startup = "err"
    /\ startup' = "closed" /\ opener' = "joining"
    /\ UNCHANGED <<thread, stop, orphaned, errors, frame, sourceVars>>

OpenJoined ==
    /\ opener = "joining" /\ thread = "gone"
    /\ opener' = "idle"
    /\ Reply(Error("pipewire"))
    /\ UNCHANGED <<thread, startup, stop, orphaned, errors, frame>>

(* The blocking wait outlives the future that was dropped.                   *)
WaitEnds ==
    /\ orphaned /\ startup \in {"open", "ok", "err"}
    /\ startup' = "closed"
    /\ UNCHANGED <<thread, opener, stop, orphaned, errors, frame, sourceVars>>

-----------------------------------------------------------------------------
(* next_frame: errors first; with every sender gone, the end of the stream.  *)

NextError ==
    /\ Awaiting("next") /\ errors > 0
    /\ errors' = errors - 1
    /\ Reply(Error("pipewire"))
    /\ UNCHANGED <<thread, startup, opener, stop, orphaned, frame>>

NextEnds ==
    /\ Awaiting("next") /\ errors = 0 /\ thread = "gone"
    /\ Reply(EndOfStream)
    /\ UNCHANGED gamescopeVars

NextFrame ==
    /\ Awaiting("next") /\ errors = 0 /\ thread # "gone" /\ frame
    /\ frame' = FALSE
    /\ Reply(AFrame)
    /\ UNCHANGED <<thread, startup, opener, stop, orphaned, errors>>

-----------------------------------------------------------------------------
(* shutdown: Stop, then a join on a blocking thread.                         *)

SendStopForgotten ==   \* mutant: shutdown joins without telling the thread to quit
    /\ Awaiting("shutdown") /\ opener = "idle"
    /\ opener' = "shutting"
    /\ UNCHANGED <<thread, startup, stop, orphaned, errors, frame, sourceVars>>
SendStop ==
    /\ Awaiting("shutdown") /\ opener = "idle"
    /\ stop' = TRUE /\ opener' = "shutting"
    /\ UNCHANGED <<thread, startup, orphaned, errors, frame, sourceVars>>

ShutdownJoined ==
    /\ opener = "shutting" /\ thread = "gone"
    /\ opener' = "idle"
    /\ Reply(Ok)
    /\ UNCHANGED <<thread, startup, stop, orphaned, errors, frame>>

(* The future is dropped at an await.  An opener takes the command sender    *)
(* with it; a source being shut down has sent Stop already.                  *)
GamescopeDropped ==
    /\ answer = NoAnswer
    /\ \/ call = "open" /\ opener = "waiting" /\ orphaned' = TRUE
       \/ call = "next" /\ UNCHANGED orphaned
       \/ call = "shutdown" /\ opener = "shutting" /\ UNCHANGED orphaned
    /\ opener' = "idle"
    /\ UNCHANGED <<thread, startup, stop, errors, frame>>

-----------------------------------------------------------------------------
(* run_worker, on its thread.                                               *)

Worker(from, to) == thread = from /\ thread' = to /\ UNCHANGED <<opener, stop, orphaned, sourceVars>>

SetupDone == Worker("setup", "announce") /\ UNCHANGED <<startup, errors, frame>>

(* An error of the set-up goes to the opener, or else to the error queue.    *)
SetupFails ==
    /\ Worker("setup", "gone")
    /\ startup' = IF startup = "open" THEN "err" ELSE startup
    /\ UNCHANGED <<errors, frame>>

Announce ==
    /\ Worker("announce", IF startup = "open" THEN "loop" ELSE "gone")
    /\ startup' = IF startup = "open" THEN "ok" ELSE startup
    /\ UNCHANGED <<errors, frame>>

Quit == stop /\ Worker("loop", "gone") /\ UNCHANGED <<startup, errors, frame>>

(* Process and state_changed callbacks of the stream.                        *)
StreamFrame ==
    /\ Worker("loop", "loop") /\ ~frame /\ frame' = TRUE
    /\ UNCHANGED <<startup, errors>>

StreamError ==
    /\ Worker("loop", "loop") /\ errors < MaxErrors
    /\ errors' = errors + 1
    /\ UNCHANGED <<startup, frame>>

OpenerStep == StartWorker \/ WorkerStarted \/ SetupFailed \/ OpenJoined
NextStep == NextError \/ NextEnds \/ NextFrame
GamescopeStep == OpenerStep \/ NextStep \/ SendStop \/ ShutdownJoined
WorkerStep == SetupDone \/ SetupFails \/ Announce \/ Quit
GamescopeEvent == StartupTimeout \/ WaitEnds \/ StreamFrame \/ StreamError

GamescopeCapturing == thread \in {"setup", "announce", "loop"}
=============================================================================
