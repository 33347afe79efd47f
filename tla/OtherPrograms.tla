----------------------------- MODULE OtherPrograms ------------------------------
(***************************************************************************)
(* The rest of the code that keeps state: the SDK's cache, batches, agent,  *)
(* messages, delta compression, configuration, context, metrics and IDE     *)
(* adapters, the wire format of calibration, its pipeline and its sources,  *)
(* leet-vm with leet-py, setup.py, the simulators, and the gRPC service.    *)
(* They are libraries and programs that share no state: in a behaviour one  *)
(* of them is used, and the variables of the others are 0.                  *)
(***************************************************************************)
EXTENDS Cache, BatchProcessor, StreamingBatcher, Agent1337, Messages, Debates,
        WireComparison, VersusEnglish, DeltaCompressor, IdeAdapter, SdkConfig,
        ContextManager, Metrics, MCWireCodec, SetupMenu, Calibration, SourceMix, LeetVM,
        BatchQueue

VARIABLE program   \* the one of this behaviour

programVars ==
    <<program, cacheVars, batchVars, streamVars, agentVars, messageVars, debateVars, cmpVars,
      vsVars, deltaVars, ideVars, cfgVars, ctxVars, metVars, codecVars, setupVars, calVars,
      mixVars, vmVars, grpcVars>>

Programs ==
    {"cache", "batch", "stream", "agent", "messages", "debates", "comparison", "versus",
     "delta", "ide", "config", "context", "metrics", "codec", "setup", "calibration", "mix", "vm",
     "grpc"}

\* A program that is not used has no state.
CacheUnused ==
    /\ backend = 0 /\ maxSize = 0 /\ entries = 0 /\ clock = 0 /\ source = 0 /\ caller = 0
    /\ foreign = 0 /\ stored = 0 /\ order = 0 /\ floor = 0 /\ late = 0 /\ servedOld = 0
BatchUnused ==
    /\ call = 0 /\ job = 0 /\ doneQueue = 0 /\ collected = 0 /\ errors = 0 /\ projecting = 0
    /\ cached = 0
StreamUnused ==
    /\ putCount = 0 /\ buffer = 0 /\ flush = 0 /\ task = 0 /\ results = 0 /\ tracked = 0
    /\ closer = 0 /\ unheard = 0 /\ returned = 0 /\ yielded = 0
AgentUnused ==
    /\ agentState = 0 /\ socket = 0 /\ phase = 0 /\ listening = 0 /\ verified = 0
    /\ inbox = 0 /\ history = 0 /\ wire = 0 /\ handlers = 0 /\ query = 0 /\ iterator = 0
    /\ session = 0 /\ sentCount = 0 /\ early = 0 /\ confirmed = 0 /\ c5 = 0
MessageUnused == dagNodes = 0 /\ dagEdges = 0 /\ topoCache = 0 /\ msg = 0
DebateUnused ==
    /\ script = 0 /\ running = 0 /\ roster = 0 /\ everyone = 0 /\ names = 0 /\ agenda = 0
    /\ said = 0 /\ heard = 0 /\ netLog = 0 /\ monitor = 0
ComparisonUnused ==
    /\ useDeepseek = 0 /\ cmpRound = 0 /\ cmpPhase = 0 /\ thread = 0 /\ roundRecords = 0
    /\ prev = 0 /\ seq = 0 /\ wires = 0 /\ records = 0
VersusUnused ==
    /\ mode = 0 /\ vsRound = 0 /\ vsTurn = 0 /\ utterances = 0 /\ prevTexts = 0
    /\ prevCogons = 0 /\ vsHistory = 0 /\ turns = 0
DeltaUnused ==
    /\ senderBaselines = 0 /\ receiverBaselines = 0 /\ deltaChains = 0 /\ channel = 0
    /\ messageLog = 0 /\ deltaMetrics = 0 /\ decompressed = 0
IdeUnused ==
    /\ ide = 0 /\ asks = 0 /\ asked = 0 /\ toolRuns = 0 /\ servedBy = 0 /\ answerOf = 0
    /\ ideHistory = 0 /\ ideCogons = 0 /\ forgottenAsks = 0 /\ command = 0
    /\ leetIdeExit = 0
CfgUnused ==
    /\ environ = 0 /\ configFile = 0 /\ globalConfig = 0 /\ origin = 0 /\ loads = 0
    /\ edits = 0
ContextUnused ==
    /\ profiles = 0 /\ recent = 0 /\ currentProfile = 0 /\ customProfiles = 0
    /\ contextCogon = 0 /\ uses = 0
MetUnused ==
    /\ counters = 0 /\ durations = 0 /\ recording = 0 /\ happened = 0 /\ scraping = 0
    /\ lastScrape = 0 /\ scrapes = 0
CodecUnused == held = 0 /\ first = 0 /\ frame = 0 /\ hops = 0
SetupUnused ==
    /\ envFile = 0 /\ env = 0 /\ osEnviron = 0 /\ compose = 0 /\ backup = 0 /\ installed = 0
    /\ menuAt = 0 /\ loadedFrom = 0 /\ lastWhole = 0 /\ killed = 0 /\ menuChoices = 0
    /\ setups = 0
CalUnused ==
    /\ dataset = 0 /\ lineEnd = 0 /\ existing = 0 /\ nextText = 0 /\ wNpy = 0 /\ wBin = 0
    /\ exported = 0 /\ step = 0 /\ skipGenerate = 0 /\ stage = 0 /\ failed = 0
    /\ cleanStart = 0 /\ generated = 0 /\ pipelines = 0
MixUnused ==
    /\ kinds = 0 /\ weights = 0 /\ maxSamples = 0 /\ sourceLimit = 0 /\ balance = 0
    /\ dedupe = 0 /\ at = 0 /\ tries = 0 /\ taken = 0 /\ samples = 0 /\ raised = 0
    /\ offered = 0
VmUnused ==
    /\ storeKind = 0 /\ projector = 0 /\ vmMode = 0 /\ rows = 0 /\ storedCogons = 0 /\ sessions = 0
    /\ chatNo = 0 /\ cogonsStored = 0 /\ calls = 0 /\ stamp = 0 /\ begun = 0
    /\ overlapped = 0
GrpcUnused ==
    /\ agentOf = 0 /\ serviceStore = 0 /\ cogons = 0 /\ requested = 0 /\ streamState = 0
    /\ rxOpen = 0 /\ handler = 0 /\ jobQueue = 0 /\ senders = 0 /\ pendingJobs = 0 /\ reply = 0
    /\ answers = 0 /\ received = 0 /\ encoded = 0 /\ stops = 0

OtherProgramsInit ==
    /\ program \in Programs
    /\ IF program = "cache" THEN CacheInit ELSE CacheUnused
    /\ IF program = "batch" THEN BatchInit ELSE BatchUnused
    /\ IF program = "stream" THEN StreamInit ELSE StreamUnused
    /\ IF program = "agent" THEN AgentInit ELSE AgentUnused
    /\ IF program = "messages" THEN MessageInit ELSE MessageUnused
    /\ IF program = "debates" THEN DebateInit ELSE DebateUnused
    /\ IF program = "comparison" THEN ComparisonInit ELSE ComparisonUnused
    /\ IF program = "versus" THEN VersusInit ELSE VersusUnused
    /\ IF program = "delta" THEN DeltaInit ELSE DeltaUnused
    /\ IF program = "ide" THEN IdeInit ELSE IdeUnused
    /\ IF program = "config" THEN CfgInit ELSE CfgUnused
    /\ IF program = "context" THEN ContextInit ELSE ContextUnused
    /\ IF program = "metrics" THEN MetInit ELSE MetUnused
    /\ IF program = "codec" THEN CodecInit ELSE CodecUnused
    /\ IF program = "setup" THEN SetupInit ELSE SetupUnused
    /\ IF program = "calibration" THEN CalInit ELSE CalUnused
    /\ IF program = "mix" THEN MixInit ELSE MixUnused
    /\ IF program = "vm" THEN VmInit ELSE VmUnused
    /\ IF program = "grpc" THEN GrpcInit ELSE GrpcUnused

\* Program p makes a step: the variables of the others do not change.
Only(p) ==
    /\ program = p /\ UNCHANGED program
    /\ p # "cache" => UNCHANGED cacheVars
    /\ p # "batch" => UNCHANGED batchVars
    /\ p # "stream" => UNCHANGED streamVars
    /\ p # "agent" => UNCHANGED agentVars
    /\ p # "messages" => UNCHANGED messageVars
    /\ p # "debates" => UNCHANGED debateVars
    /\ p # "comparison" => UNCHANGED cmpVars
    /\ p # "versus" => UNCHANGED vsVars
    /\ p # "delta" => UNCHANGED deltaVars
    /\ p # "ide" => UNCHANGED ideVars
    /\ p # "config" => UNCHANGED cfgVars
    /\ p # "context" => UNCHANGED ctxVars
    /\ p # "metrics" => UNCHANGED metVars
    /\ p # "codec" => UNCHANGED codecVars
    /\ p # "setup" => UNCHANGED setupVars
    /\ p # "calibration" => UNCHANGED calVars
    /\ p # "mix" => UNCHANGED mixVars
    /\ p # "vm" => UNCHANGED vmVars
    /\ p # "grpc" => UNCHANGED grpcVars

OtherProgramsNext ==
    \/ Only("cache") /\ CacheNext
    \/ Only("batch") /\ BatchNext
    \/ Only("stream") /\ StreamNext
    \/ Only("agent") /\ AgentNext
    \/ Only("messages") /\ MessageNext
    \/ Only("debates") /\ DebateNext
    \/ Only("comparison") /\ ComparisonNext
    \/ Only("versus") /\ VersusNext
    \/ Only("delta") /\ DeltaNext
    \/ Only("ide") /\ IdeNext
    \/ Only("config") /\ CfgNext
    \/ Only("context") /\ ContextNext
    \/ Only("metrics") /\ MetNext
    \/ Only("codec") /\ CodecNext
    \/ Only("setup") /\ SetupNext
    \/ Only("calibration") /\ CalNext
    \/ Only("mix") /\ MixNext
    \/ Only("vm") /\ VmNext
    \/ Only("grpc") /\ GrpcNext

OtherProgramsSpec == OtherProgramsInit /\ [][OtherProgramsNext]_programVars

-----------------------------------------------------------------------------
(* Properties *)

\* The program that is used has states of its type.
ProgramsTypeOK ==
    /\ program = "cache" => CacheTypeOK
    /\ program = "batch" => BatchTypeOK
    /\ program = "stream" => StreamTypeOK
    /\ program = "agent" => AgentTypeOK
    /\ program = "messages" => MessageTypeOK
    /\ program = "debates" => DebateTypeOK
    /\ program = "comparison" => ComparisonTypeOK
    /\ program = "versus" => VersusTypeOK
    /\ program = "delta" => DeltaTypeOK
    /\ program = "ide" => IdeTypeOK
    /\ program = "config" => CfgTypeOK
    /\ program = "context" => ContextTypeOK
    /\ program = "metrics" => MetTypeOK
    /\ program = "codec" => CodecTypeOK
    /\ program = "setup" => SetupTypeOK
    /\ program = "calibration" => CalTypeOK
    /\ program = "mix" => MixTypeOK
    /\ program = "vm" => VmTypeOK
    /\ program = "grpc" => GrpcTypeOK

\* A value of the cache is never older than its last invalidation, unless it
\* was being computed then, nor served after its time: CacheSound,
\* OldOnlyIfInFlight.
CacheSafe == program = "cache" => CacheSound /\ OldOnlyIfInFlight

\* Every call of a batch gets the results of its own items, a stream loses and
\* repeats none and its close() returns what it waited for, the counters agree
\* with the calls, and the gRPC service answers each request with its own
\* vector: OwnResults, StreamKeeps, CloseReturnsAll, MetricsSound, GrpcSound.
CallsSound ==
    /\ program = "batch" => OwnResults
    /\ program = "stream" => StreamKeeps /\ CloseReturnsAll
    /\ program = "metrics" => MetricsSound
    /\ program = "grpc" => GrpcSound

\* Of an agent, of an IDE's tool and of a VM, what a conversation keeps is what
\* was said in it: AgentSound, IdeSound, LeetVmSound.
TalksSound ==
    /\ program = "agent" => AgentSound
    /\ program = "ide" => IdeSound
    /\ program = "vm" => LeetVmSound

\* What is sent arrives as far as its form keeps it: MessagesSound for a DAG
\* and its envelope, CogonKept for the wire format, DeltaSound for deltas.
MessagesKept ==
    /\ program = "messages" => MessagesSound
    /\ program = "codec" => CogonKept
    /\ program = "delta" => DeltaSound

\* Settings and files come from their sources and from nowhere else: ConfigSound,
\* ContextSound, SetupSound, CalibrationSound, MixSound.
SettingsSound ==
    /\ program = "config" => ConfigSound
    /\ program = "context" => ContextSound
    /\ program = "setup" => SetupSound
    /\ program = "calibration" => CalibrationSound
    /\ program = "mix" => MixSound

\* The simulators' agents hear what was said before them, and the reports
\* count it once: DebateSound, ComparisonSound, VersusSound.
DebatesSound ==
    /\ program = "debates" => DebateSound
    /\ program = "comparison" => ComparisonSound
    /\ program = "versus" => VersusSound

-----------------------------------------------------------------------------
(* The values of the constants in the runs *)

MCTopics == <<"plato", "both">>
MCEnvFiles == {<<>>, <<Comment, Junk, [key |-> "port", val |-> "v"], [key |-> "api", val |-> ""],
                       [key |-> "port", val |-> "d"], [key |-> "w", val |-> ""]>>}
MCTasks == Permutations(VmTasks) \cup Permutations(GrpcClients) \cup Permutations(GrpcAgents)
=============================================================================
