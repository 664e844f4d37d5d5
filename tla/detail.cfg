CONSTANTS
    Device = {d1, d2, d3}
    none = none
    MaxRequests = 3
SPECIFICATION DialogSpec
INVARIANTS ListIsOwn
PROPERTIES LoadingEnds
