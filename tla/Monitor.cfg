CONSTANTS
    None = None
    Processes = {dash, mon}
    Publishes = {dash}
    Events = {early, late}
    Match <- MCMatch
    Gifs = {g, h}
    Accounts = {x, y}
    MaxCalls = 2
    MaxChanges = 1
    Servers = {"dashboard", "monitor"}
    MaxTokens = 3
    MaxArticles = 3
    MaxRestarts = 1
    Clips = {first, second, third}
    Keys = {early, late}
    Operators = {x}
    MaxArmings = 1
    MaxUpdates = 1
    Window = 2
    ClipRange = 2
    MaxSegments = 3
    MaxRuns = 2
    Browsers = {first, second}
    Users = {x}
    Guests = {y}
    Boss = dash
SPECIFICATION MCSpec
CHECK_DEADLOCK FALSE
   
PROPERTIES  AccessIsGranted
SYMMETRY Symmetry
