SPECIFICATION BoundSpec
CONSTANTS
    Id = {i1, i2}
    Val = {v1, v2}
    Aux = {a1, a2}
    Txn = {t1, t2, t3}
    Instant = {0, 1, 2, 3}
    NoRow = NoRow
    NoTxn = NoTxn
    NoId = NoId
    MaxPending = 2
SYMMETRY Symmetry
INVARIANTS
    TypeOK
    OneVersionPerInstant
    NoGap
PROPERTIES
    SettledAsOf
    ImplementsTemporalStore
CHECK_DEADLOCK FALSE
