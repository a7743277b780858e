\* The client's own delays, in seconds; the handshake is bounded, as rdp.Dial's is.
SPECIFICATION FairSpec
CONSTANTS
    HandshakeDeadline = TRUE
    InitialDelay = 1
    MaxDelay = 30
    UiQueueBound = 4
INVARIANTS TypeOK NoStatusLost BackoffExact
PROPERTIES ClosingAttachedTabEnds Reconnects
