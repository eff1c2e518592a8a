SPECIFICATION FairSpec
CONSTANTS
    Ids = {1, 2}
    Kinds = {"coro", "thread", "shell", "sandbox", "subagent"}
    Env = {"crash", "kill_fails"}
    Workers = 1
    MaxTurns = 2
INVARIANTS StopIsQuiet NothingSpins
PROPERTIES KillsOnlyItsRun StopSettles
CHECK_DEADLOCK FALSE
