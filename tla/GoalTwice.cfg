CONSTANTS
    None = None
    Events = {goal}
    MaxTarget = 0
    MaxRestarts = 0
    RefiningChoices = {TRUE}
    Pair = {goal, card}
    GifWorkers = 1
    CommandLines <- MCCommandLines
    Mishaps = {"stall", "release"}
    MaxMishaps = 1
    Corrected = {goal}
    Versions <- MCVersions
    Calibrated = TRUE
    MaxStarts = 2
    MaxTime = 3
    Buffer = 1
    SearchBefore = 1
    ClipBefore = 1
    LookBack = 1
    After = 1
    Budget = 1
    Ttl = 2
    LiveEdge = 16
    Lengths = {2, 3}
    Silences = {0, 1, 3, 4}
    Requests <- MCWindows
    MinDegraded = 3
    MaxAnchorGap = 3
    MaxAnchorShift = 1
SPECIFICATION MCSpec
CHECK_DEADLOCK FALSE
INVARIANTS OneDurableEvent
