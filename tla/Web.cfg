SPECIFICATION Spec
CONSTANTS
    c1 = c1
    c2 = c2
    c3 = c3
    Calls = {c1, c2, c3}
    Passwords = {"first", "short"}
    validate_password <- LongEnough
    Ips = {"here"}
    LOGIN_MAX_FAILURES = 2
    LOGIN_ATTEMPT_WINDOW = 1
    _LOGIN_FAILURES_MAX_ENTRIES = 0
    SESSION_TTL = 1
    MaxTime = 1
    MaxRestarts = 1
    MaxDeletions = 1
    Labels = {"default"}
    Actions = {"a"}
SYMMETRY Interchangeable
INVARIANTS
    DashboardAccess
    ThrottleCountsFailures
    IssuedTokens
    ButtonActionOnce
CHECK_DEADLOCK FALSE
