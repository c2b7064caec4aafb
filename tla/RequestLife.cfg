SPECIFICATION Spec
CONSTANTS
    r1 = r1
    r2 = r2
    Requests <- MCRequests
    Finals = {"ok", "fail"}
    HistoryDays = 1
    MaxDay = 2
    MaxSteps = 1
    MaxFaults = 1
    MaxStops = 1
    MaxClears = 1
INVARIANTS
    TypeOK
    RowsAgree
PROPERTIES
    ClearedStaysCleared
    EventuallySettled
CHECK_DEADLOCK FALSE
