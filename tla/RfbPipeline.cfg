\* All three pixel levels of the client, the client's own cooldown, a screen of
\* one or two cells that changes size twice.
SPECIFICATION FairSpec
CONSTANTS
    MaxLevel = 2
    AdaptCooldown = 3
    MaxWidth = 2
    MaxResizes = 2
    ResizeAlone = TRUE
INVARIANTS TypeOK FormatAgreement OneRequestInFlight NoProtocolError JudgesSettled
PROPERTIES EveryChangeSent ExchangeSpec
