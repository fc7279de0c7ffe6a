CONSTANTS
    Thread = {t1, t2}
    Block = {"b1", "b2", "c"}
    root <- MCroot
    Representative = TRUE
    MaxPackets = 3
    None = "none"
SPECIFICATION RangeSpec
INVARIANT EndIsSent
CHECK_DEADLOCK FALSE
