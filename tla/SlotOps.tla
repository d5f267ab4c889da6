------------------------------ MODULE SlotOps ------------------------------
(***************************************************************************)
(* One slot that holds the newest unread value: the state of a channel made *)
(* by latest_channel() in src/latest.rs, and what its calls do to it, as    *)
(* pure operators.  LatestSlot is the channel as a specification and        *)
(* LatestChannel the code that implements it; Engine has two such slots.    *)
(***************************************************************************)
CONSTANTS
    Item,      \* the values sent
    NoItem     \* an empty slot: not an Item

\* A slot: its unread value and which of its two ends still exist.
Slots == [val : Item \cup {NoItem}, tx : BOOLEAN, rx : BOOLEAN]

FreshSlot == [val |-> NoItem, tx |-> TRUE, rx |-> TRUE]

HasItem(s) == s.val # NoItem

\* The receiver's next call returns None: the sender is gone and so is the
\* last value.  A value outlives its sender.
Ended(s)   == ~HasItem(s) /\ ~s.tx

Put(s, v)    == [s EXCEPT !.val = v]
Taken(s)     == [s EXCEPT !.val = NoItem]
WithoutTx(s) == [s EXCEPT !.tx = FALSE]
WithoutRx(s) == [s EXCEPT !.rx = FALSE]
=============================================================================
