SPECIFICATION Spec
CONSTANTS
    Names <- MCNames
    Library <- MCLibrary
    Urls <- NoLiterals
    Paths <- NoLiterals
    Commands <- NoLiterals
    FileNames <- NoLiterals
    Tools <- NoLiterals
    Fields <- NoLiterals
    Fragments <- NoLiterals
    Domains <- NoLiterals
    DllNames <- NoLiterals
    Noise <- NoLiterals
    IMPORTANT_RUNTIME_CALLS <- NoTable
    API_BEHAVIOR_HINTS <- NoTable
    CHUNK_SIZE = 4
    MIN_BLOB_SIZE = 2
    LARGE_COPY_THRESHOLD = 2
    ENTROPY_SAMPLE_LIMIT = 4
    MAGIC_HITS = 1
    ARTIFACT_BLOBS = 2
    TRANSFORM_CALL_HINTS <- MCTransform
    LOADER_CALL_HINTS <- MCLoader
    ApiReturns <- MCApiReturns
    AllocReturns <- MCAllocReturns
    MagicValues <- MCMagicValues
    ExecValues <- MCExec
    AllocValues <- MCAlloc
    Programs <- MCPrograms
INVARIANTS
    BlobsApart
    CopiesCovered
    SignaturesReported
    SourcesTraceable
CHECK_DEADLOCK FALSE
