\* Two scripts, three handlers, every fault, one crash.
CONSTANTS
    r1 = r1
    r2 = r2
    a1 = a1
    a2 = a2
    None = None
    Requests = {r1, r2}
    Authors = {a1, a2}
    Scripts <- TwoScripts
    NumHandlers = 3
    MaxParts = 2
    Client <- OneOfEach
    MaxCrashes = 1
    Faults = {"discord", "db", "llm", "body"}
SPECIFICATION Spec
INVARIANTS
    AnsweredOnce
    AnswerMatchesRequest
    ShownPartsClearable
    CompletedIsAnswered
\* The owner gives no more than NumHandlers commands: the system comes to rest.
CHECK_DEADLOCK FALSE
