CONSTANTS
    RAX = RAX
    Regs = {RAX, RDX}
    AbiRegs = {RAX}
    Known = {zero, f}
    Other = {}
    Functions = {f}
    StringData = {}
    StringHeaders = {}
    Arrays = {}
    Blobs = {}
    Zero = zero
    MaxSlot = 1
    MaxPushed = 2
    None = None
    Opaque = Opaque
SPECIFICATION Spec
CONSTRAINT InSight
INVARIANTS
    RegistersTrue
    StackArgsTrue
    DataflowSubsumes
