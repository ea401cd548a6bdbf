CONSTANTS
    Paths = {1, 2}
    Contents = {a, b}
    Absent = Absent
    Scanners = {s1}
    ScanBound = 2
    EditBound = 3
    PageBound = 6
SPECIFICATION Spec
INVARIANTS
    CurrentProposalsAreAccepted
CHECK_DEADLOCK FALSE
