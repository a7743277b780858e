\* A tab closed before its WebSocket was attached.
SPECIFICATION FairSpec
CONSTANTS
    HandshakeDeadline = TRUE
    InitialDelay = 1
    MaxDelay = 2
    UiQueueBound = 3
PROPERTIES ClosingTabEnds
