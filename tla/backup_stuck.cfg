CONSTANTS
    MaxDevice = 1
    MaxRun = 2
    MaxWait = 2
    Worker = {w1}
    Shell = {}
    Freq = {2}
    DefaultFreq = 2
    Retry = 1
    Retention = 2
    StaleAfter = 2
    NewEnabled = {TRUE, FALSE}
    Budget <- DbErrorBudget
    NoRow = NoRow
SPECIFICATION FairSpec
CHECK_DEADLOCK FALSE
PROPERTIES OverdueIsAttempted
