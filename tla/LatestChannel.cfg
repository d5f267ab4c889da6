CONSTANT MaxSends <- MCMaxSends
SPECIFICATION FairSpec
INVARIANTS
    SendsAccountedFor
PROPERTIES
    SlotRefinement
    NewestDelivered
CHECK_DEADLOCK FALSE
