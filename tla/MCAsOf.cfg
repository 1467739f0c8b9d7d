SPECIFICATION QuerySpec
CONSTANTS
    Stores <- MCStores
    Requests <- AsOfRequests
    Infinity = 9
    DefaultTop = 5
INVARIANT ServedAsOf
CHECK_DEADLOCK FALSE
