CONSTANTS
    goal = goal
    card = card
    match = match
    Events = {goal}
    GifWorkers = 1
    CommandLines <- Early
    Mishaps = {"crash"}
    MaxMishaps = 1
SPECIFICATION MCSpec
CHECK_DEADLOCK FALSE
INVARIANTS CursorHasVisuals
