SPECIFICATION Spec
CONSTANTS
    Req = {r1, r2, r3}
    Kinds = {"post", "bulk"}
    Datastream = {d1}
    Name = {n1}
    MaxFoi = 3
    Given = 0
    MaxSets = 1
    UniqueNames = FALSE
    NoReq = NoReq
    NoName = NoName
    NoObs = NoObs
INVARIANT SingleFoi
CHECK_DEADLOCK FALSE
