SPECIFICATION Spec
CONSTANTS
    Writer = {w1, w2}
    Interval = 2
    Recompute = 1
    Overlap = 2
    RightClosed = TRUE
    Time = {2, 3}
    Window = {{0}}
    MaxClock = 4
    MaxWrite = 3
    MaxRun = 1
    MaxGap = 1
    NoRow = NoRow
    Never = Never
SYMMETRY Symmetry
PROPERTIES
    ChangesRecomputed
CHECK_DEADLOCK FALSE
