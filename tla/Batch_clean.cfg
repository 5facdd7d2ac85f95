CONSTANTS
    b1 = b1  b2 = b2  s1 = s1  s2 = s2
    None = None
    Queue <- MCQueue
    Writers <- MCWriters
    Stems <- MCStems
    StemOf <- MCStemOf
    Options <- CleanOptions
    MaxRuns = 2
    MaxFaults = 1
    MayCrash = FALSE
    Serial = TRUE
SPECIFICATION BatchSpec
CHECK_DEADLOCK FALSE
INVARIANTS
    ReportIsTrue
    IndexIsCurrent
    PairAgreement
PROPERTIES
    UsesPairWriter
    SkipKeepsPairs
