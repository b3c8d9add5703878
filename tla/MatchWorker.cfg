CONSTANTS
    goal = goal
    card = card
    match = match
    Events = {goal}
    GifWorkers = 1
    CommandLines <- Live
    Mishaps = {"crash", "interrupt", "slot"}
    MaxMishaps = 2
SPECIFICATION LiveSpec
CHECK_DEADLOCK FALSE
INVARIANTS  CursorHasTasks CompletedMeansSettled
PROPERTIES VideoKeptForWork TaskSettles NewsBecomesTask SessionsMove
