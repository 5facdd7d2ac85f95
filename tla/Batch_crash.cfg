CONSTANTS
    b1 = b1  b2 = b2  s1 = s1  s2 = s2
    None = None
    Queue <- MCQueue
    Writers <- MCWriters
    Stems <- MCStems
    StemOf <- MCStemOf
    Options <- RestartOptions
    MaxRuns = 2
    MaxFaults = 1
    MayCrash = TRUE
    Serial = FALSE
SPECIFICATION FairBatchSpec
CHECK_DEADLOCK FALSE
INVARIANTS
    RecordsAreBacked
PROPERTIES
    BatchReturns
