SPECIFICATION FairSpec
CONSTANTS
    Once = {"a"}
    Recurring = {"r"}
    MaxTasks = 2
    MaxCrashes = 2
    Env = {"contended"}
INVARIANTS NeverLost EnabledHasLoop OneLoop
PROPERTIES FiresOnce OffIsOff EventuallyFires
CHECK_DEADLOCK FALSE
