CONSTANTS
    MaxDevice = 1
    MaxRun = 2
    MaxWait = 2
    Worker = {w1}
    Shell = {c1}
    Freq = {2}
    DefaultFreq = 2
    Retry = 1
    Retention = 2
    StaleAfter = 2
    NewEnabled = {TRUE, FALSE}
    Budget <- LiveBudget
    NoRow = NoRow
SPECIFICATION FairSpec
CHECK_DEADLOCK FALSE
PROPERTIES OverdueIsAttemptedIfUndisturbed OverdueIsNoticed GateOpens
