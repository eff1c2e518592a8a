SPECIFICATION Spec
CONSTANTS
    kind <- KindOf
    MinKeep = 1
    MaxAttempts = 3
    MaxEvents = 4
    MaxCrashes = 1
    Env = {"fallback", "switch", "late_answer"}
INVARIANTS InStep FoldedWasRead
CHECK_DEADLOCK FALSE
