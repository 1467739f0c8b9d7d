SPECIFICATION Spec
CONSTANTS
    Req = {r1, r2, r3}
    Kinds = {"post", "delete"}
    Datastream = {d1}
    Time = {1, 2}
    MaxOpen = 2
    NoReq = NoReq
    NoRow = NoRow
    NoRange = NoRange
INVARIANT InsertCovered
CHECK_DEADLOCK FALSE
