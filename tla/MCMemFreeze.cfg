SPECIFICATION Spec
CONSTANTS
    Sessions <- TwoSessions
    Main = "main"
    Env = {"stop", "clear", "delete", "thread", "tear", "rotate"}
    MaxEvents = 4
    MaxQueue = 2
INVARIANT FrozenOnlyInRun
PROPERTY OwnEventsStayOut
CHECK_DEADLOCK FALSE
