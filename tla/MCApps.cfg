SPECIFICATION Spec
CONSTANTS
    Apps = {a1, a2}
    Ports = {1, 2}
    Procs = {q1, q2}
    Users = {u1, u2}
    Env = {"cancel", "crash"}
    Delays = 1
    Dog = dog
    NoApp = NoApp
    NoProc = NoProc
INVARIANTS OneWriter PortsApart
PROPERTY SparesServing
CHECK_DEADLOCK FALSE
SYMMETRY Symmetric
