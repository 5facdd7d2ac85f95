SPECIFICATION Spec
CONSTANTS
    Names <- MCNames
    Library <- MCLibrary
    Urls <- MCUrls
    Paths <- MCPaths
    Commands <- MCCommands
    FileNames <- MCFileNames
    Tools <- NoLiterals
    Fields <- MCFields
    Fragments <- MCFragments
    Domains <- MCDomains
    DllNames <- MCDllNames
    Noise <- MCNoise
    IMPORTANT_RUNTIME_CALLS <- MCRuntimeCalls
    API_BEHAVIOR_HINTS <- MCApiHints
    CALL_MARKERS <- MCMarkers
    REASON_LIMIT = 3
    RANKING_LIMIT = 3
    MAX_FLOW_OPS_PER_FUNCTION = 3
    MAX_DATA_ITEMS_PER_FUNCTION = 2
    SINK_LIMIT = 4
    CHAIN_LIMIT = 6
    ACTION_LIMIT = 5
    B64Text <- MCB64
    HexText <- MCHex
    Plain <- MCPlain
    LongBase64 <- MCLongBase64
    LongHex <- MCLongHex
    Strong <- MCStrong
    MAX_CONSUMERS = 1
    INDICATOR_LIMIT = 4
    Inflated <- MCInflated
    Executables <- MCExecutables
    MAX_LAYER_DEPTH = 2
    MAX_ENCODED_STATIC_SOURCES = 2
    MAX_DECODED_ARTIFACTS = 8
    MAGIC_LIMIT = 2
    MAX_SOURCE_READ_BYTES = 8
    ALIGNMENT = 4
    DEFAULT_ARRAY_WINDOW = 4
    MAX_ARRAY_WINDOW = 6
    MIN_ARRAY_SIZE = 2
    MAX_LARGE_COPY_ARRAY_BYTES = 8
    CHUNK_SIZE = 4
    MIN_BLOB_SIZE = 2
    LARGE_COPY_THRESHOLD = 3
    ENTROPY_SAMPLE_LIMIT = 4
    MAGIC_HITS = 1
    ARTIFACT_BLOBS = 2
    TRANSFORM_CALL_HINTS <- MCTransform
    LOADER_CALL_HINTS <- MCLoader
    ApiReturns <- MCApiReturns
    AllocReturns <- MCAllocReturns
    MagicValues <- MCMagicValues
    ExecValues <- MCExec
    AllocValues <- MCAlloc
    ContentTypes <- MCContentTypes
    Bodies <- MCBodies
    HttpVerbs <- NoLiterals
    ApiShapes <- MCApiShapes
    MethodNames <- NoLiterals
    BodyBuilders <- MCBodyBuilders
    TextLength = 2
    Words <- MCWords
    MAX_COMPONENTS = 3
    MAX_SINKS = 12
    MAX_STRINGS = 3
    MAX_DATA_SOURCES = 3
    TARGET_HINTS <- MCTargetHints
    Libraries <- MCLibraries
    Procedures <- MCProcedures
    Programs <- MCPrograms
    MaxFailures = 1
INVARIANTS
    ViewsAgree
    DecryptionSubsumes
    IndicatorsReachStory
    StoryTrue
    ReferencesKept
    SinksTellCalls
    ArgumentsPassed
PROPERTIES
    ImplementsPassDriver
CHECK_DEADLOCK FALSE
