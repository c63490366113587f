SPECIFICATION Spec
CONSTANTS
    Dashboard = {d1, d2}
    Resident = {r1}
    Policy = {p1, p2}
    None = None
    MaxChanges = 2
    MaxEdits = 1
    MaxFails = 1
    MaxDeaths = 1
SYMMETRY Symmetry
INVARIANTS
    OriginalsAreKept
PROPERTIES
    ReportsTellTruth
    OverwritesOnlyWhatItSaw
CHECK_DEADLOCK FALSE
