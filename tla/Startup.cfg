SPECIFICATION FairSpec
CONSTANTS
    Decl <- Declared
    Installed <- Packages
    ReservedNames = {"usage", "api", "admin"}
    Reserved <- KeptKeys
    CatalogKeys = {"common"}
    CoreSections = {"ui", "llm", "tools"}
    ReservedProviders = {"default"}
    CommandsOf <- Commands
    Upper <- Capitals
    Matches <- PathsServed
    CorsOrigins = {"https://app.example"}
    Files <- Found
    ToolRoot = "tools"
    SameDirectory <- Directories
    EscapingFiles <- Links
    ModuleTypes = {"backup.task", "gone.module"}
    ImportableTools = {"backup.task"}
    BuiltinFiles = {"llm_expert", "drive_read"}
    CoreContextKeys = {"llm_tools", "client_type"}
    Launches <- AllLaunches
    CoreRepos = 1
    Readies = 2
    MaxRuns = 2
INVARIANTS
    RegistryConsistent
    SetUpBeforeServing
    RoutesServedAsDeclared
    JobsOnce
    ToolSetsSound
PROPERTIES
    ReadySchedules
CHECK_DEADLOCK FALSE
