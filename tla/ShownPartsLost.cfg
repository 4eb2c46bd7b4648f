\* A reply of which only the first part could be sent.
CONSTANTS
    r1 = r1
    r2 = r2
    a1 = a1
    a2 = a2
    None = None
    Requests = {r1, r2}
    Authors = {a1, a2}
    Scripts <- TwoScripts
    NumHandlers = 2
    MaxParts = 2
    Client <- OneOfEach
    MaxCrashes = 0
    Faults = {"discord"}
SPECIFICATION Spec
INVARIANTS
    ShownPartsOnList
\* The owner gives no more than NumHandlers commands: the system comes to rest.
CHECK_DEADLOCK FALSE
