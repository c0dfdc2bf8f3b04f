SPECIFICATION Spec
CONSTANTS
    Savers = {s1, s2}
    NormalSize = 2
    HostileSize = 3
SYMMETRY Symmetry
INVARIANTS HostileHeld SavedModeHeld ReportJudgedAsSaved
CHECK_DEADLOCK FALSE
