\* The scan that may stop early, asked for nulls first
SPECIFICATION PageSpec
CONSTANTS
    Pleas <- MCPleas
    Null = Null
    Absent = Absent
    TrimFactor = 2
    LeastTrim = 1
INVARIANT PagesAreExact
CHECK_DEADLOCK FALSE
