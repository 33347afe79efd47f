SPECIFICATION OtherProgramsSpec
CONSTANTS
    CacheKeys = {k1, k2}
    CacheTasks = {t1, t2}
    CacheTtls = {0}
    DefaultTtl = 2
    MaxSizes = {1, 2}
    ForeignKeys = {{k2}}
    MaxVersion = 1
    MaxCacheNow = 3
    Calls = {c1, c2}
    BatchItems = 2
    Concurrency = 2
    ErrorPercent = 50
    ContinueOnError = FALSE
    Producers = {p1, p2}
    StreamItems = 5
    MaxBuffer = 2
    FlushLimit = 1
    Queries = {q1}
    Readers = {r1}
    MaxHistory = 2
    MaxSent = 2
    MaxSessions = 2
    DagIds = {n1, n2, n3}
    MaxNodes = 3
    MaxEdges = 3
    ScenarioSize = 3
    AgentLimit = 3
    Rounds = 2
    Period = 2
    Topics <- MCTopics
    MaxMade = 4
    MaxSaid = 4
    Characters = 2
    CmpRounds = 3
    CmpWorkers = 2
    Positions = 3
    CmpThreshold = 1
    Speakers = 3
    VsRounds = 3
    Provocations = {2}
    DeltaAgents = {d1, d2}
    Axis = 2
    DeltaThreshold = 2
    MaxDeltaChain = 2
    MaxCompressed = 4
    IdeTasks = {t1, t2}
    MaxAsked = 2
    MaxLoads = 2
    MaxEdits = 3
    Managers = {m1, m2}
    WindowSize = 2
    CogonValues = {100, 1000}
    MaxProfiles = 2
    MaxUses = 1
    Recorders = {t1, t2}
    KeptDurations = 1
    MaxRecords = 2
    MaxScrapes = 2
    Grain = 1000
    FrameIds = {1}
    AgentNames <- MCAgentNames
    CrcBytes <- MCCrcBytes
    Patches <- MCPatches
    MaxHops = 3
    EnvFiles <- MCEnvFiles
    MaxMenu = 2
    MaxSetups = 2
    SeedTexts = 3
    MinRecords = 2
    MaxPipelines = 3
    SourceCount = 2
    SampleIds = {"a", "b"}
    Weights = {1, 2}
    Limits = {2, 3}
    VmTasks = {t1, t2}
    VmModes = {"auto"}
    MaxRequests = 3
    MaxChats = 2
    GrpcClients = {g1, g2}
    GrpcAgents = {a1, a2}
    MaxGrpcRequests = 3
    QueueSize = 1
    BatchSize = 2
    AnswerSize = 1
    MaxStops = 1
INVARIANT ProgramsTypeOK
INVARIANT CacheSafe
INVARIANT CallsSound
INVARIANT TalksSound
INVARIANT MessagesKept
INVARIANT SettingsSound
INVARIANT DebatesSound
SYMMETRY MCTasks
CHECK_DEADLOCK FALSE
