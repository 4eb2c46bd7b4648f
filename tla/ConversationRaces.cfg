\* Three messages racing in two channels, nothing fails.
CONSTANTS
    c1 = c1
    c2 = c2
    None = None
    NumMessages = 3
    MaxBlocks = 2
    MaxCrashes = 0
    Channels = {c1, c2}
    Inputs <- TwoInputs
    Faults = {}
SPECIFICATION Spec
INVARIANTS
    OneTurnPerChannel
    UserTextsInTurnOrder
    BlockedMessageUnanswered
PROPERTIES
    CancelledTurnStartsNothing
\* No more messages than NumMessages arrive: the system comes to rest.
CHECK_DEADLOCK FALSE
