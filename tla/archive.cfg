CONSTANTS
    Dev = {a, b}
    Name = {n1, n2, n3}
    Path = {n1, n2, n3}
    PathOf <- Distinct
    Reuse = FALSE
    Alike = FALSE
    Worker = {w1, w2}
    Shell = {}
    MaxCommit = 4
    MinLines = 2
    HeadLines = 1
    Budget <- OneOfEach
    None = None
SPECIFICATION BackupSpec
CHECK_DEADLOCK FALSE
SYMMETRY Symmetry
CONSTRAINT NotWritten
INVARIANTS BackupTypeOK NeverServesOther CommitIsOwnVersion RestoreIsConsistent
PROPERTIES  EveryVersionIsNewer ImplementsLedger
