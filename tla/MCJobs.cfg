SPECIFICATION JobsSpec
CONSTANTS
    Writer = {a1, a2}
    Interval = 2
    Recompute = 1
    Overlap = 2
    RightClosed = TRUE
    Time = {2, 3}
    Window = {{0}}
    MaxClock = 4
    MaxWrite = 1
    MaxRun = 1
    MaxGap = 1
    NoRow = NoRow
    Never = Never
    BucketInterval = 20
    Spacing = 5
    BucketsToRecompute = 1
    SourceTime = {9, 15, 30}
    Reading <- MCReading
    RefTime = {20, 41}
    JobConfig <- MCJobConfig
    Foi = {a1, a2}
    Windows <- MCWindows
    MaxBucket = 3
    MaxObs = 2
    MaxPause = 1
    Null = Null
    JobPost = {a1, a2}
    Name = {"x", "y", "z"}
    Payload <- MCPayload
    MaxDatastream = 3
    MaxJob = 2
    MaxChange = 2
    NoName = NoName
    NoDatastream = NoDatastream
    NoJob = NoJob
    Job = {a1, a2}
    Conf <- MCConf
    Horizon = 5
    Day = 3
    Chunk = 2
    Source = {1, 2, 4, 5}
    NoData = {4}
    Sheet = {0, 3, 4}
    Step = 2
    Bin = 2
    Period <- MCPeriod
    Sampling = 1
    BufferWindow = 2
    Need = 2
    Stored = {{0, 3}, {4, 5}}
    MaxRuns = 3
    MaxPosts = 1
    NoReading = NoReading
SYMMETRY Symmetry
INVARIANTS
    JobsTypeOK
    GapsFound
    RowsCurrent
    AsRebuilt
    AcceptedJobsRun
    OneJobPerPair
    AloneComplete
PROPERTIES
    AllCaught
    MeasurementsKept
CHECK_DEADLOCK FALSE
