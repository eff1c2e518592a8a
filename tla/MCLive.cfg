SPECIFICATION FairSpec
CONSTANTS
    Sessions <- TwoSessions
    Main = "main"
    Kinds <- PlainKinds
    Env = {"crash", "fail", "stop", "clear", "delete", "reset"}
    MaxRows = 2
    MaxNow = 0
    MaxCrashes = 1
    MaxAttempts = 2
    MaxTurns = 1
    StaleAge = 1
    Delays <- Now
INVARIANT NoStrandedRow
PROPERTIES EveryTriggerSettles StopsSettle ClearsEnd
CHECK_DEADLOCK FALSE
