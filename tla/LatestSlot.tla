----------------------------- MODULE LatestSlot -----------------------------
(***************************************************************************)
(* What the channel of src/latest.rs promises: a single slot that always    *)
(* holds the newest value nobody has read.  A send overwrites what is there *)
(* and reports whether it did; a receive empties the slot.  Both are one    *)
(* atomic step.  Values are numbered in the order they are sent, and the    *)
(* counters record what the calls returned.                                 *)
(***************************************************************************)
EXTENDS Naturals, SlotOps

CONSTANT MaxSends          \* bound on the number of sends

VARIABLES
    slot,       \* the slot itself
    sent,       \* sends that returned Ok
    replaced,   \* of those, the ones that returned Ok(true)
    received,   \* receives that returned a value
    newest,     \* the value the last of them returned, 0 before the first
    finished    \* a receive has returned None

slotVars == <<slot, sent, replaced, received, newest, finished>>

SlotInit ==
    /\ slot = FreshSlot
    /\ sent = 0 /\ replaced = 0 /\ received = 0 /\ newest = 0
    /\ finished = FALSE

SlotSend ==
    /\ slot.tx /\ slot.rx /\ sent < MaxSends
    /\ sent' = sent + 1
    /\ replaced' = IF HasItem(slot) THEN replaced + 1 ELSE replaced
    /\ slot' = Put(slot, sent + 1)
    /\ UNCHANGED <<received, newest, finished>>

SlotReceive ==
    /\ slot.rx /\ HasItem(slot)
    /\ newest' = slot.val
    /\ received' = received + 1
    /\ slot' = Taken(slot)
    /\ UNCHANGED <<sent, replaced, finished>>

SlotFinish ==
    /\ slot.rx /\ Ended(slot)
    /\ finished' = TRUE
    /\ UNCHANGED <<slot, sent, replaced, received, newest>>

SlotDropTx ==
    /\ slot.tx /\ slot' = WithoutTx(slot)
    /\ UNCHANGED <<sent, replaced, received, newest, finished>>

SlotDropRx ==
    /\ slot.rx /\ slot' = WithoutRx(slot)
    /\ UNCHANGED <<sent, replaced, received, newest, finished>>

SlotNext == SlotSend \/ SlotReceive \/ SlotFinish \/ SlotDropTx \/ SlotDropRx

SlotSpec == SlotInit /\ [][SlotNext]_slotVars
=============================================================================
