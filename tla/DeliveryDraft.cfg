CONSTANTS
    goal = goal
    clip = clip
    edit = edit
    dashboard = dashboard
    monitor = monitor
    Tasks <- MCTasks
    Kind <- OcrKind
    Workers <- MCWorkers
    WorkerKinds <- ClaimsOcr
    Enqueuers = {"pipeline"}
    MaxArtifact = 2
    Archived = 0
    Archive <- ArchiveOf
    Trusted = {1, 2}
    RetryLimit = 1
    ManualMode = "publish"
    MaxMishaps = 0
    HandTasks <- MCHandTasks
    HandKind <- ClipOrEdit
    HandWorkers <- MCHandWorkers
    HandKinds <- ClaimsManual
    HandArchived = 1
    HandArchive <- HandArchiveOf
    HandRetries = 0
    HandMode = "draft"
SPECIFICATION MCSpec
CHECK_DEADLOCK FALSE
INVARIANTS NoDraftOfNewTask
