CONSTANTS
    MaxDevice = 2
    MaxRun = 3
    MaxWait = 1
    Worker = {w1, w2}
    Shell = {}
    Freq = {1}
    DefaultFreq = 1
    Retry = 1
    Retention = 2
    StaleAfter = 0
    NewEnabled = {TRUE}
    Budget <- ServerBudget
    NoRow = NoRow
SPECIFICATION Spec
CHECK_DEADLOCK FALSE
SYMMETRY Symmetry
INVARIANTS TypeOK GateExact RunningIsOwned LatestRunShown
PROPERTIES ImplementsGate FinishedRunsStay
