CONSTANTS
    Paths = {1, 2, 3, 4}
    Contents = {a, b}
    Absent = Absent
    Scanners = {s1, s2}
    ScanBound = 3
    EditBound = 2
    PageBound = 3
SPECIFICATION Spec
CONSTRAINTS FewFiles JobsEndInOrder OneIsDown
ACTION_CONSTRAINT JobsEndBetweenScans
SYMMETRY Symmetry
INVARIANTS
    AcceptedScansAreWhole
    SupersededScansAreScheduled
PROPERTIES
    WithdrawnPathsAreGone
CHECK_DEADLOCK FALSE
