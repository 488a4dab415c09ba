SPECIFICATION DocSpec
CONSTANTS
    c1 = c1
    c2 = c2
    Uploaders <- MCUploaders
    MaxFiles = 3
INVARIANT HistoryKept
CHECK_DEADLOCK FALSE
