SPECIFICATION Spec
CONSTANTS
    Sessions <- TwoSessions
    Main = "main"
    Env = {"again", "user", "error", "limit", "stop", "foreign_stop", "crash", "clear", "delete"}
    MaxEvents = 2
    MaxQueue = 2
INVARIANT StagedIsCovered
PROPERTY KeptUntilDistilled
CHECK_DEADLOCK FALSE
