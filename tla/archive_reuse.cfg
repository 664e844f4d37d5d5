CONSTANTS
    Dev = {a, b}
    Name = {n1, n2}
    Path = {n1, n2}
    PathOf <- Distinct
    Reuse = TRUE
    Alike = FALSE
    Worker = {w1}
    Shell = {}
    MaxCommit = 4
    MinLines = 2
    HeadLines = 1
    Budget <- RenameBudget
    None = None
SPECIFICATION BackupSpec
CHECK_DEADLOCK FALSE
INVARIANTS NeverServesOther
