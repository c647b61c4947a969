\* A message that overlaps the open.
SPECIFICATION Spec
CONSTANTS
    RingMask = 1
    MaxRx = 1
    MaxTty = 0
    FlowChars = {}
    NoChar = NoChar
    MaxChars = 1
    HasConsole = TRUE
    MaxCon = 1
INVARIANTS
    OpenPortListens
CHECK_DEADLOCK FALSE
