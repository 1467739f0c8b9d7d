SPECIFICATION Spec
CONSTANTS
    Id = {i1}
    Val = {v1, v2}
    Aux = {a1, a2}
    Txn = {t1, t2, t3}
    Instant = {0, 1, 2, 3, 4}
    NoRow = NoRow
    NoTxn = NoTxn
    NoId = NoId
    MaxPending = 3
PROPERTY CitationIsPermanent
CHECK_DEADLOCK FALSE
