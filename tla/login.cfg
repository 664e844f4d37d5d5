CONSTANTS
    Key = {k1, k2}
    Thread = {t1, t2}
    Id = {1, 2, 3, 4}
    MaxFailures = 2
    Window = 2
SPECIFICATION FairSpec
INVARIANTS GuessesBounded
PROPERTIES BlockEnds
