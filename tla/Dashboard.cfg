CONSTANTS
    Matches = {a, b}
    MaxConcurrent = 1
    EmptyNeeded = 2
    MaxRestarts = 1
SPECIFICATION MCSpec
INVARIANTS WorkersWithinLimit StoppedMeansGone PlayedNotRestarted
PROPERTIES OneGroupPerMatch StopNotUndone 
SYMMETRY Symmetry
