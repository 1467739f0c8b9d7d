SPECIFICATION ServicesSpec
CONSTANTS
    Name = {"A", "B"}
    Mapping <- MCMapping
    Payload <- MCPayload
    QueueMax = 1
    MaxMessage = 2
    MaxGeneration = 2
    MaxSignal = 2
    NoId = NoId
    Idle = Idle
    Run = {r1, r2}
    File = {"f1", "f2"}
    Content <- MCContent
    Policy = {"append", "backfill", "update"}
    BulkAbove = 1
    BatchSize = 2
    MaxStart = 2
    MaxTime = 2
    MaxFault = 1
    Foreign <- MCForeign
    NoRow = NoRow
    NoFile = NoFile
    MaxId = 4
    Initial = {1, 2}
    Tops = {0, 1, 2}
    Chunk = 2
    OrderKey <- MCOrderKey
    MaxDeletes = 2
    MaxBreaks = 1
    Stores <- MCStores
    Requests <- MCRequests
    Infinity = 9
    DefaultTop = 5
    Upload = {b1, b2}
    Shape <- MCShape
    Series = {"x", "y"}
    RowTime = {1, 2}
    Unique = TRUE
    NoBatch = NoBatch
INVARIANTS
    ServicesTypeOK
    InOrderOnce
    SentCovered
    WalkMissesOnlyDeletions
    AnswersAsked
    AnswersTell
PROPERTIES
    SignalHeeded
    InboxEmptied
    BatchesAnswered
CHECK_DEADLOCK FALSE
