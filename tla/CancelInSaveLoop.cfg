\* A turn cancelled while it saves the blocks it sent.
CONSTANTS
    c1 = c1
    c2 = c2
    None = None
    NumMessages = 2
    MaxBlocks = 2
    MaxCrashes = 0
    Channels = {c1, c2}
    Inputs <- ThreeInputs
    Faults = {}
SPECIFICATION Spec
INVARIANT SentBlocksKeptOnCancel
CHECK_DEADLOCK FALSE
