\* A session from the connection request to the clipboard: two texts shared and
\* two copied, texts of the client in one chunk, texts of the server in two.
SPECIFICATION FairSpec
CONSTANTS
    UserChannelBase = 1001
    UserID = 6
    IOChannel = 1003
    ClipChannel = 1004
    MaxTexts = 2
    ClientChunks = 1
    ServerChunks = 2
INVARIANTS TypeOK CredentialsAfterTrust NoMutualWait NoStrayData CutTextIntact OfferKept
PROPERTIES LiveNotTimedOut DialEnds PasteIsFresh CopyArrives
CHECK_DEADLOCK FALSE
