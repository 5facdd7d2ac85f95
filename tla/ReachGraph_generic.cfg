CONSTANTS
    m = m  a = a  b = b  u = u  nm = nm  na = na  nb = nb  nu = nu
    Elsewhere = Elsewhere
    Functions <- MCFunctions
    UserOrder <- GenericUserOrder
    Names <- MCNames
    NameOf <- GenericNameOf
    ShortOf <- GenericNameOf
    Programs <- MCPrograms
    EntryName = nm
    Candidates <- MCCandidates
    MaxFallbacks = 2
    MaxDepth = 3
SPECIFICATION Spec
CHECK_DEADLOCK FALSE
INVARIANTS
    ReachableUserFunctionsDisassembled
