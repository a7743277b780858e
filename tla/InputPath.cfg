SPECIFICATION Spec
CONSTANTS
    Protocols = {"vnc", "rdp"}
    Buttons = {"left"}
    MaxEvents = 3
    MaxStrokes = 2
    MaxDrops = 1
    QueueBound = 2
CHECK_DEADLOCK FALSE
INVARIANTS
    TypeOK
    VncButtonsFollow
    RdpKeysFollow
PROPERTIES
    NeverBackwards
    Settles
