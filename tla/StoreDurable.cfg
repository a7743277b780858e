SPECIFICATION FairSpec
CONSTANTS
    Ids = {i1}
    Entries = {e1, e2}
    Passwords = {p1, p2}
    Addrs = {a1}
    Prints = {f1, f2}
    Settings = {s1}
    Callers = {c1, c2}
    Absent = Absent
    NoPassword = NoPassword
    NoCaller = NoCaller
    None = None
    Torn = Torn
    Unsure = Unsure
    Idle = Idle
    DiskFails = TRUE
    KeyringFails = TRUE
    Crashes = TRUE
INVARIANTS
    TypeOK
    AckDurable
    PinDurable
PROPERTIES
    LockFreed
