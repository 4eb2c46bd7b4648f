\* Two messages, every fault, one crash, under fairness.
CONSTANTS
    c1 = c1
    c2 = c2
    None = None
    NumMessages = 2
    MaxBlocks = 2
    MaxCrashes = 1
    Channels = {c1, c2}
    Inputs <- ThreeInputs
    Faults = {"discord", "db", "llm", "tool"}
SPECIFICATION FairSpec
INVARIANTS
    TypeOK
    HistoryMatchesDiscord
    FinishedTurnRecorded
    BlockedTextDiscarded
PROPERTIES
    KeepsChannelPromise
    ChannelReleased
    CancelledTurnKeepsBlocks
\* No more messages than NumMessages arrive: the system comes to rest.
CHECK_DEADLOCK FALSE
