CONSTANTS
    Keys <- TwoKeys
    NoKey = "no key"
    Calls <- TwoCalls
    Window = 1
    IntentTtl = 2
    DoneTtl = 3
    MaxRun = 1
    MaxNow = 5
SPECIFICATION Spec
INVARIANTS InFlightIsRunning OneAtATime
PROPERTIES NoBlindRepeat
