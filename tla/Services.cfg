SPECIFICATION Spec
CONSTANTS
    c1 = c1
    c2 = c2
    c3 = c3
    t1 = t1
    t2 = t2
    Calls = {c1, c2, c3}
    ToolCalls = {t1, t2}
    r1 = r1
    r2 = r2
    Readers = {r1, r2}
    channels <- MCchannels
    HoursPerDay = 2
    MaxHour = 2
    MaxTexts = 3
    MaxDeletes = 1
    max_history_turns = 2
    history_days = 1
    max_turns = 1
    SCOPES = {"read", "write"}
    ChecksScopes = TRUE
    ConsentScopes <- MCConsents
    FirstScopes <- MCConsents
    MaxConsents = 3
    Nodes = {"root", "w", "r", "f", "t", "s"}
    MimeOf <- MCMimeOf
    Trees <- MCTrees
    read_only_folders = {"r"}
    writable_folders = {"w"}
    MAX_ANCESTOR_DEPTH = 3
    MaxMoves = 1
    Roots <- MCRoots
    Links <- MCLinks
    FirstDirs <- MCDirs
    FirstFiles <- MCFiles
    Requested <- MCRequested
SYMMETRY Interchangeable
INVARIANTS
    HistoryWindow
    NotesOfPastDays
    GrantSound
    DriveWhitelist
    FilesKept
CHECK_DEADLOCK FALSE
