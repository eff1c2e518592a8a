SPECIFICATION Spec
CONSTANTS
    Sessions <- MainOnly
    Main = "main"
    Kinds <- KeyedKinds
    Env = {"crash", "fail", "stop"}
    MaxRows = 3
    MaxNow = 2
    MaxCrashes = 1
    MaxAttempts = 2
    MaxTurns = 1
    StaleAge = 1
    Delays <- NowOrLater
INVARIANTS OneCarrier RunsOnlyClaimed UniqueKeys
PROPERTIES QueuedWorkIsKept KeepsPromise
CHECK_DEADLOCK FALSE
