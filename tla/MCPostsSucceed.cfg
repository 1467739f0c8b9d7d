SPECIFICATION Spec
CONSTANTS
    Req = {r1, r2, r3}
    Kinds = {"post", "move"}
    Datastream = {d1}
    Name = {n1, n2}
    MaxFoi = 3
    Given = 0
    MaxSets = 1
    UniqueNames = TRUE
    NoReq = NoReq
    NoName = NoName
    NoObs = NoObs
INVARIANT PostsSucceed
CHECK_DEADLOCK FALSE
