CONSTANTS
    Files = {a, b, index}
    Documents = {a, b}
    Texts <- MCTexts
    Words <- MCWords
    Lower <- MCLower
    Jobs = 2
    MaxRuns = 2
    MaxFaults = 1
    None = None
    Torn = Torn
    Absent = Absent
SPECIFICATION Spec
CHECK_DEADLOCK FALSE
INVARIANTS
    EveryReportHasItsVerdict
    RaiseCostsOnlyFailures
PROPERTIES
    EvalReturns
