SPECIFICATION RecordsSpec
CONSTANTS
    Req = {r1, r2, r3}
    Kinds = {"post", "change", "link", "delete", "filtered", "force", "replace"}
    Datastream = {d1, d2}
    Time = {1, 2}
    MaxOpen = 3
    NoReq = NoReq
    NoRow = NoRow
    NoRange = NoRange
    MaxId = 3
    MaxRequests = 3
    Run = {e1, e2, x}
    EyeOnWater = {e1, e2}
    Wanted <- MCWanted
    Standing <- MCStanding
    UniqueNames = TRUE
    MaxStarts = 3
    AccountRequest = {r1, r2, r3}
    User = {d1, d2}
    PolicyName = {p1}
    NoRole = NoRole
    Patch = {q1, q2}
    Body <- MCBody
    Column = {"name", "properties", "time"}
    Mandatory = {"name", "time"}
    Moving = {"time"}
    Original <- MCOriginal
    MaxMove = 2
    NoPatch = NoPatch
    NoEntity = NoEntity
    Invalid = Invalid
SYMMETRY Symmetry
INVARIANTS
    RecordsTypeOK
    TimesCovered
    TimesTight
    NoOrphans
    EveryItemStored
    GrantsAgree
    SerialPatches
PROPERTIES
    NeverRevived
    EveryMoveRecorded
    RerunAddsNothing
    AnswersHold
CHECK_DEADLOCK FALSE
