\* Texts of the client that need two chunks.
SPECIFICATION Spec
CONSTANTS
    UserChannelBase = 1001
    UserID = 6
    IOChannel = 1003
    ClipChannel = 1004
    MaxTexts = 2
    ClientChunks = 2
    ServerChunks = 1
INVARIANT PasteIntact
CHECK_DEADLOCK FALSE
