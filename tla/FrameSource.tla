----------------------------- MODULE FrameSource -----------------------------
(***************************************************************************)
(* The FrameSource and FrameSourceFactory traits as their caller sees them:  *)
(* one call at a time (open, next_frame, shutdown), answered with a value or *)
(* a CaptureError, and the retry rules of the two factories of               *)
(* src/service/runtime.rs.  A source's module starts when `call` is set and  *)
(* sets `answer`; the caller takes the answer.                               *)
(***************************************************************************)

VARIABLES
    call,      \* the future awaited: "none", "open", "next", "shutdown"
    answer     \* what it resolved to

sourceVars == <<call, answer>>

(* CaptureError.  MissingSampleData, UnsupportedCaps and InvalidFrameLayout  *)
(* are one kind, "layout"; "streams" is UnexpectedStreamCount.  EndOfStream  *)
(* never leaves a source (it is Ok(None)).                                   *)
ErrorKinds == {"cancelled", "portal", "streams", "gstreamer", "pipewire",
               "pipeline", "layout", "shutdown"}

(* CaptureError::Cleanup keeps the error it cleaned up after as `primary`.   *)
Errors == [is : {"error"}, kind : ErrorKinds, cleanup : BOOLEAN]
Error(kind) == [is |-> "error", kind |-> kind, cleanup |-> FALSE]
WithCleanupFailure(error) == [error EXCEPT !.cleanup = TRUE]

NoAnswer == [is |-> "none"]
Ok       == [is |-> "ok"]
AFrame   == [is |-> "frame"]
EndOfStream == [is |-> "end"]
Answers == {NoAnswer, Ok, AFrame, EndOfStream} \cup Errors

SourceTypeOK ==
    /\ call \in {"none", "open", "next", "shutdown"}
    /\ answer \in Answers

SourceInit == call = "none" /\ answer = NoAnswer

Begin(c) == call' = c /\ answer' = NoAnswer
Awaiting(c) == call = c /\ answer = NoAnswer
Reply(a) == answer' = a /\ UNCHANGED call
Taken == call' = "none" /\ answer' = NoAnswer

(* capture_error_is_retryable: a Cleanup error is as retryable as the error  *)
(* it wraps.                                                                *)
KindIsRetryable(kind, opened) ==
    \/ kind = "portal"
    \/ opened /\ kind \in {"pipeline", "shutdown", "gstreamer", "pipewire"}

PortalShouldRetryCleanup(error, opened) ==   \* mutant: the wrapper decides
    error.cleanup \/ KindIsRetryable(error.kind, opened)
PortalShouldRetry(error, opened) == KindIsRetryable(error.kind, opened)

(* capture_was_cancelled does not look into a Cleanup error.                 *)
GamescopeShouldRetry(error) == error # Error("cancelled")
=============================================================================
