\* A text that may be shared before the channel is set up.
SPECIFICATION Spec
CONSTANTS
    UserChannelBase = 1001
    UserID = 6
    IOChannel = 1003
    ClipChannel = 1004
    MaxTexts = 1
    ClientChunks = 1
    ServerChunks = 1
INVARIANT EveryOfferKept
CHECK_DEADLOCK FALSE
