CONSTANTS
    MaxFrames <- MCFrames
    MaxStalls <- MCStalls
SPECIFICATION FairSpec
INVARIANTS
    BlackoutProtocol
    FramesAccountedFor
    NeverAnEmptySelect
PROPERTIES
    ImplementsLightShow
    StallEndsWithAcceptableFrame
    StallGoesDark
    StopsWhenAsked
    WriterFailureIsReported
    UpdatesAreNotStarved
