SPECIFICATION FairSpec
CONSTANTS
    Concrete <- ConcreteProviders
    Resolvers <- ResolverProviders
    Default = "local"
    Fallback <- AnyFallback
    Apis <- OfferedApis
    MaxRetries <- Retries
    Backoff <- OneSecond
    MaxWait <- TwoSeconds
    RetryOnTimeout <- OnlyCloud
    RetryAfters = {0, 3}
    GuardOn = TRUE
    Tools <- ToolNames
    None = None
    Kind <- Kinds
    Config <- Yamls
    FinalReply <- Writers
    MaxIterations = 2
    LimitModes = {"summarize", "message"}
    MAX_TOOL_CALL_DEPTH = 2
    MaxCalls = 2
INVARIANTS
    CallsAnswered
    BudgetShared
    NestingBounded
    WrittenByTarget
    AuthPassedUp
    BlockedEndsInRefusal
    RetriesBounded
    AnswersRecorded
PROPERTIES
    RecordedUnderInnermostTool
    ConversationEnds
CHECK_DEADLOCK FALSE
