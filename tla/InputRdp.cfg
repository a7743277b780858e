SPECIFICATION Spec
CONSTANTS
    Protocols = {"rdp"}
    Buttons = {"left"}
    MaxEvents = 3
    MaxStrokes = 2
    MaxDrops = 1
    QueueBound = 2
CHECK_DEADLOCK FALSE
INVARIANT ButtonsFollow
