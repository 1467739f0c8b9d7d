SPECIFICATION FtpSpec
CONSTANTS
    Run = {r1}
    File = {"f1", "f2"}
    Content <- LateContent
    Policy = {"backfill"}
    BulkAbove = 1
    BatchSize = 2
    MaxStart = 1
    MaxTime = 2
    MaxFault = 0
    Foreign = {}
    NoRow = NoRow
    NoFile = NoFile
INVARIANT GapsFilled
CHECK_DEADLOCK FALSE
