CONSTANTS
    d1 = d1  d2 = d2  d3 = d3
    Levels <- TwoLevels
    MaxFaults = 2
    Lengths = {3, 9, 11}
    Downloads = {d1, d2, d3}
SPECIFICATION Spec
INVARIANTS PathTypeOK OneTrace Logged Tolerates FilesTypeOK Whole Redacted Harmless
PROPERTIES Answered
CHECK_DEADLOCK FALSE
