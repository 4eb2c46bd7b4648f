\* Images put in place of another channel's message.
CONSTANTS
    c1 = c1
    c2 = c2
    None = None
    NumMessages = 2
    MaxBlocks = 2
    MaxCrashes = 0
    Channels = {c1, c2}
    Inputs <- ThreeInputs
    Faults = {}
SPECIFICATION Spec
INVARIANT ImagesReplaceOwnText
CHECK_DEADLOCK FALSE
