CONSTANTS
    w1 = w1  w2 = w2  w3 = w3  a = a  b = b
    Writers <- MCWriters
    Stems <- MCStems
    StemOf <- MCStemOf
    None = None
    Serial = FALSE
SPECIFICATION WriterSpec
CHECK_DEADLOCK FALSE
INVARIANTS
    TextNeverAlone
    NoTemporaryLeft
PROPERTIES
    ReportsAreAtomicFiles
