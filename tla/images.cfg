CONSTANTS
    Upload = {u1, u2, u3}
    Delete = {d1, d2}
    Edit = {e1, e2}
    File = {f1, f2}
    Kind = {k1, k2}
    Standard = {s1}
    MaxImage = 3
    Faults <- Twice
    None = None
SPECIFICATION Spec
CHECK_DEADLOCK FALSE
SYMMETRY Symmetry
INVARIANTS TypeOK LibraryAgrees NeverMislabelled
PROPERTIES OwnFilesOnly LinkKeepsImage
