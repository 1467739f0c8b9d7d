SPECIFICATION LoadSpec
CONSTANTS
    Req = {1, 2, 3}
    Kinds = {"post", "explicit", "bulk", "move", "delete", "reshape", "remove"}
    Datastream = {d1, d2}
    Name = {n1}
    MaxFoi = 4
    Given = 1
    MaxSets = 1
    UniqueNames = FALSE
    NoReq = NoReq
    NoName = NoName
    NoObs = NoObs
INVARIANTS
    TypeOK
    GenFoiExists
    AreaCovers
    NoDeadlock
PROPERTIES
    StampedOnce
    Answered
CHECK_DEADLOCK FALSE
