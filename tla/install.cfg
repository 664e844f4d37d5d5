CONSTANTS
    Version = {v1, v2, v3}
    MaxBuild = 4
    Keep = 2
    KeepDays = 1
    Interrupts = 2
    None = None
SPECIFICATION Spec
CHECK_DEADLOCK FALSE
SYMMETRY Symmetry
INVARIANTS UpgradeIsSafe CurrentExists UpgradeHasBackup MarkerIsTrue
