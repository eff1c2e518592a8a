SPECIFICATION Spec
CONSTANTS
    Sessions <- TwoSessions
    Main = "main"
    Kinds <- PileKinds
    Env = {"stop", "clear", "fail"}
    MaxRows = 3
    MaxNow = 0
    MaxCrashes = 0
    MaxAttempts = 2
    MaxTurns = 1
    StaleAge = 1
    Delays <- Now
INVARIANTS TurnsAreApart
PROPERTIES FenceHolds StopEndsRun ParkedResetIsQuiet
CHECK_DEADLOCK FALSE
