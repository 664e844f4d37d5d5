CONSTANTS
    Name = {n1, n2}
    CredName = {c1, c2, blank}
    Blank = blank
    MaxId = 2
    MaxBorn = 2
    Client = {r1, r2}
    Server = server
    Shell = {shell}
    Lines = 2
    None = None
SPECIFICATION Spec
CHECK_DEADLOCK FALSE
SYMMETRY Symmetry
CONSTRAINT FewBeside
INVARIANTS KeepsCredential StoredIsReadable ImportedAsNamed
PROPERTIES ImportIsWhole
