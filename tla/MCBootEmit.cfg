SPECIFICATION Spec
CONSTANTS
    Sessions <- MainOnly
    Main = "main"
    Kinds <- PlainKinds
    Env = {"boot_emit"}
    MaxRows = 2
    MaxNow = 0
    MaxCrashes = 0
    MaxAttempts = 2
    MaxTurns = 1
    StaleAge = 1
    Delays <- Now
INVARIANTS OneCarrier
CHECK_DEADLOCK FALSE
