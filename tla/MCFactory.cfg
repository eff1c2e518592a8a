SPECIFICATION FairSpec
CONSTANTS
    MissionsCap = 4
    StallsCap = 3
    Backoff <- Backoffs
    MaxIdle = 2
    Env = {}
    MaxQueued = 2
    MaxRequests = 3
    MaxCrashes = 2
INVARIANTS WithinBudget NoEmptyLoop
PROPERTIES OneResumeAtATime StopHolds ArcSettles
CHECK_DEADLOCK FALSE
