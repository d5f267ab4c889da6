---------------------------- MODULE LatestChannel ----------------------------
(***************************************************************************)
(* The latest-value channel of src/latest.rs, lock by lock.                 *)
(*                                                                          *)
(* It keeps "is there an unread value?" twice: in the version numbers of a  *)
(* tokio `watch` (which `recv` awaits) and in a mutex-protected flag        *)
(* `unread` (which `send` reports and `try_recv` tests).  `recv` consults   *)
(* the watch OUTSIDE the mutex and takes the value under it, so a send can  *)
(* slip in between.  The sender and the receiver are one thread each.       *)
(***************************************************************************)
EXTENDS Naturals

CONSTANT MaxSends          \* bound on the number of sends
ASSUME SendsAssumption == MaxSends \in Nat

VARIABLES
    value,      \* the Option<T> inside the watch: the n-th value sent, 0 = None
    version,    \* the watch's version, bumped by every send
    seen,       \* the receiver's version: what it has been told about
    txOpen, rxOpen,   \* the two ends exist
    lock,       \* holder of Mutex<LatestState>: "free", "tx" or "rx"
    unread,     \* LatestState::unread
    spc,        \* sender: "idle", "locked", "mark", "refused"
    reports,    \* the sender's local `replaced`
    rpc,        \* receiver: "idle", "recv", "tell", "take", "try"
    sent, replaced, received, newest, finished   \* results, as in LatestSlot

txVars  == <<spc, reports, sent, replaced>>
rxVars  == <<rpc, seen, received, newest, finished>>
ends    == <<txOpen, rxOpen>>
vars    == <<value, version, seen, txOpen, rxOpen, lock, unread, spc, reports,
             rpc, sent, replaced, received, newest, finished>>

TypeOK ==
    /\ value \in 0..MaxSends /\ version \in 0..MaxSends /\ seen \in 0..version
    /\ txOpen \in BOOLEAN /\ rxOpen \in BOOLEAN /\ unread \in BOOLEAN
    /\ lock \in {"free", "tx", "rx"}
    /\ spc \in {"idle", "locked", "mark", "refused"} /\ reports \in BOOLEAN
    /\ rpc \in {"idle", "recv", "tell", "take", "try"}
    /\ {sent, replaced, received, newest} \subseteq 0..MaxSends
    /\ finished \in BOOLEAN

Init ==
    /\ value = 0 /\ version = 0 /\ seen = 0
    /\ txOpen = TRUE /\ rxOpen = TRUE
    /\ lock = "free" /\ unread = FALSE
    /\ spc = "idle" /\ reports = FALSE /\ rpc = "idle"
    /\ sent = 0 /\ replaced = 0 /\ received = 0 /\ newest = 0
    /\ finished = FALSE

-----------------------------------------------------------------------------
(* LatestSender::send.  The mutex is held from SendLock to SendUnlock.       *)

SendLock ==
    /\ txOpen /\ spc = "idle" /\ sent < MaxSends
    /\ lock = "free" /\ lock' = "tx"
    /\ reports' = unread
    /\ spc' = "locked"
    /\ UNCHANGED <<value, version, unread, ends, rxVars, sent, replaced>>

\* watch::Sender::send fails, and stores nothing, once the receiver is gone.
SendWatch ==
    /\ spc = "locked"
    /\ IF rxOpen
       THEN /\ value' = sent + 1 /\ version' = version + 1
            /\ sent' = sent + 1
            /\ replaced' = IF reports THEN replaced + 1 ELSE replaced
            /\ spc' = "mark"
       ELSE /\ spc' = "refused"
            /\ UNCHANGED <<value, version, sent, replaced>>
    /\ UNCHANGED <<lock, unread, reports, ends, rxVars>>

SendUnlock ==
    /\ spc \in {"mark", "refused"}
    /\ unread' = IF spc = "mark" THEN TRUE ELSE unread
    /\ lock' = "free"
    /\ spc' = "idle"
    /\ UNCHANGED <<value, version, reports, sent, replaced, ends, rxVars>>

DropSender ==
    /\ txOpen /\ spc = "idle"
    /\ txOpen' = FALSE
    /\ UNCHANGED <<value, version, lock, unread, rxOpen, txVars, rxVars>>

-----------------------------------------------------------------------------
(* What a take leaves behind: borrow_and_update() marks the value seen, and  *)
(* `unread = false`.  The second of each pair is a mutant that forgets it.   *)

VersionLeftUnseen == seen
VersionSeen       == version
FlagLeftSet       == unread
FlagCleared       == FALSE

(* LatestReceiver::recv.  RecvAbandon is a tokio::select! that took another  *)
(* branch: the future is dropped at its one suspension point.                *)

RecvCall ==
    /\ rxOpen /\ rpc = "idle" /\ ~finished
    /\ rpc' = "recv"
    /\ UNCHANGED <<value, version, lock, unread, ends, txVars, seen, received,
                   newest, finished>>

RecvAbandon ==
    /\ rpc = "recv" /\ rpc' = "idle"
    /\ UNCHANGED <<value, version, lock, unread, ends, txVars, seen, received,
                   newest, finished>>

\* Mutant: marks the version after the one it was told of.
RecvChangedAhead ==
    /\ rpc = "recv" /\ seen # version
    /\ seen' = version + 1
    /\ rpc' = "tell"
    /\ UNCHANGED <<value, version, lock, unread, ends, txVars, received,
                   newest, finished>>

\* changed(): a version not yet seen wins over the sender being gone.
RecvChanged ==
    /\ rpc = "recv" /\ seen # version
    /\ seen' = version
    /\ rpc' = "tell"
    /\ UNCHANGED <<value, version, lock, unread, ends, txVars, received,
                   newest, finished>>

\* Mutant: asks whether the sender is gone before it looks for a value.
RecvClosedFirst ==
    /\ rpc = "recv" /\ ~txOpen
    /\ finished' = TRUE
    /\ rpc' = "idle"
    /\ UNCHANGED <<value, version, lock, unread, ends, txVars, seen, received,
                   newest>>

RecvClosed ==
    /\ rpc = "recv" /\ seen = version /\ ~txOpen
    /\ finished' = TRUE
    /\ rpc' = "idle"
    /\ UNCHANGED <<value, version, lock, unread, ends, txVars, seen, received,
                   newest>>

RecvLock ==
    /\ rpc = "tell" /\ lock = "free"
    /\ lock' = "rx"
    /\ rpc' = "take"
    /\ UNCHANGED <<value, version, unread, ends, txVars, seen, received,
                   newest, finished>>

\* borrow_and_update().clone(), then `unread = false`, then the lock is freed.
RecvTake ==
    /\ rpc = "take"
    /\ seen' = VersionSeen
    /\ IF value # 0
       THEN /\ unread' = FlagCleared
            /\ newest' = value /\ received' = received + 1
            /\ rpc' = "idle"
       ELSE rpc' = "recv" /\ UNCHANGED <<unread, newest, received>>
    /\ lock' = "free"
    /\ UNCHANGED <<value, version, ends, txVars, finished>>

(* LatestReceiver::try_recv tests the flag, under the mutex from the start.  *)
TryLock ==
    /\ rxOpen /\ rpc = "idle" /\ lock = "free"
    /\ lock' = "rx"
    /\ rpc' = "try"
    /\ UNCHANGED <<value, version, unread, ends, txVars, seen, received,
                   newest, finished>>

TryTake ==
    /\ rpc = "try"
    /\ IF unread
       THEN /\ seen' = VersionSeen /\ unread' = FlagCleared
            /\ newest' = value /\ received' = received + 1
       ELSE UNCHANGED <<seen, unread, newest, received>>
    /\ lock' = "free" /\ rpc' = "idle"
    /\ UNCHANGED <<value, version, ends, txVars, finished>>

DropReceiver ==
    /\ rxOpen /\ rpc = "idle"
    /\ rxOpen' = FALSE
    /\ UNCHANGED <<value, version, lock, unread, txOpen, txVars, rxVars>>

-----------------------------------------------------------------------------
Sending   == SendWatch \/ SendUnlock
Receiving == RecvChanged \/ RecvClosed \/ RecvLock \/ RecvTake \/ TryTake

Next ==
    \/ SendLock \/ SendWatch \/ SendUnlock \/ DropSender
    \/ RecvCall \/ RecvAbandon \/ RecvChanged \/ RecvClosed \/ RecvLock
    \/ RecvTake \/ TryLock \/ TryTake \/ DropReceiver

Spec == Init /\ [][Next]_vars

(* Both threads run.  A receiver that is told of a value finishes its call,  *)
(* and one that keeps asking (a loop over recv) is not abandoned for ever.   *)
FairSpec ==
    /\ Spec
    /\ WF_vars(Sending) /\ WF_vars(RecvCall)
    /\ SF_vars(Receiving)

-----------------------------------------------------------------------------
(* The slot this channel implements: what the watch holds is unread from     *)
(* the moment the watch has it, although the flag is raised a step later.    *)

Unread == unread \/ spc = "mark"

Slot == INSTANCE LatestSlot WITH
    Item   <- 1..MaxSends,
    NoItem <- 0,
    slot   <- [val |-> IF Unread THEN value ELSE 0, tx |-> txOpen, rx |-> rxOpen]

(* The lock-by-lock channel behaves as one atomic slot: no value is          *)
(* delivered twice, none disappears without a send reporting it as replaced, *)
(* and None is only ever returned when nothing is left to read.              *)
SlotRefinement == Slot!SlotSpec

(* `unread` and the watch's versions agree whenever nobody is inside a call, *)
(* so recv (which asks the watch) and try_recv (which asks the flag) can be  *)
(* mixed, as the lighting writer does.                                       *)
FlagAgreesWithWatch ==
    (lock = "free" /\ rpc # "tell") => (unread <=> seen # version)

(* Every value sent was delivered, was reported as replaced, or is still     *)
(* unread: the engine's drop statistics rest on this count.  Here with the   *)
(* type invariant and FlagAgreesWithWatch, without which the count cannot be *)
(* right for long.                                                           *)
SendsAccountedFor ==
    /\ TypeOK /\ FlagAgreesWithWatch
    /\ sent = received + replaced + (IF Unread THEN 1 ELSE 0)

(* The newest value reaches a receiver that keeps receiving, unless one of   *)
(* the two ends is dropped first; a sender that leaves cannot take it away.  *)
NewestDelivered ==
    \A n \in 1..MaxSends :
        (sent = n /\ rxOpen) ~> (newest = n \/ sent > n \/ ~rxOpen)
=============================================================================
