CONSTANTS
    End = 6
    Shapes <- MCShapes
    NoTarget = NoTarget
    Ops = {"xor", "add"}
    Strong = {"xor"}
    ByteOps = 3
    MaxInsns = 5
    MaxLoop = 4
    MaxListed = 1
SPECIFICATION Spec
CHECK_DEADLOCK FALSE
INVARIANTS
    BlocksPartition
    JumpsKept
    EdgesAndLoopsTrue
    TransformLoopsTrue
