# TLA+ models of 1337

1337 is an inter-agent communication language: texts become COGONs (32 semantic
values, 32 uncertainties), which are stored, compared, blended and exchanged.
The repository holds a Rust workspace, a Python SDK, a small VM and many
demonstration scripts. This directory models the parts that keep state.

## 1. The system

| Component | State | Operations | Meets | What is hard, and what makes it correct |
|---|---|---|---|---|
| `leet-mcp` store and index (`store.rs`, `index.rs`) | `.leet/store.bin` (append-only records), `.leet/index.bin` (levels, consolidation flags, recall cursor), both mirrored in memory | open, append with its cascade, force, rebuild, recall cursor | opened by the MCP server and by `leet consolidate`; written by `leet absorb` | Crashes between and inside writes, failed fsyncs and flushes, two files that must agree. A memory reported as remembered stays recallable; merges keep the order of time; merged entries name exactly what they merged; the pyramid stays small |
| `leet-mcp` server and tools | none beyond the store | `leet_remember`, `leet_recall`, `leet_recall_delta`, and stateless encode, decode, dist | the store | What a recall without a query shows |
| `leet consolidate` | none | `force`, `rebuild-index`, `inspect` | the store, while no server runs | Ends with nothing left to merge |
| `leet absorb` | the session files of Claude Code, read | import of sessions as records | appends to `store.bin` while a server may have it open | Duplicates, sessions missed, a store that no longer opens |
| `leet-service` TCP daemon (`tcp_server.rs`, `leet-server.rs`) | registry of agents behind an RwLock, a bounded channel and a writer task per agent, metrics | handshake, register, read, route, broadcast, remove | one connection per agent, over TCP or a Unix socket | Slow readers, full channels, disconnections in the middle of a broadcast, the order of Ready and registration. Messages arrive once, in order, at those they are for; the registry follows the connections |
| `leet-agent`, `AgentClient` | one connection | connect, send, recv, recv_timeout, answer | the daemon | A timeout in the middle of a line; agents that write before they read |
| `leet-service` gRPC (`server.rs`, `batch.rs`, `store.rs`) | a batch queue and its worker, a store of COGONs | encode, encode_batch, decode, delta, recall, health | clients through gRPC | Batches cut by size or by time, a store that fails, clients that leave. Each answer carries the vector of its request, in order |
| Python `client/resilient_client.py` | circuit state, counters, a sticky index | call with breaker, with retry, with fallback | wraps other clients | Late answers of calls made in an earlier state of the breaker, cancelled calls, retries of refused calls |
| Python `client/pool.py` | clients with their health, a rotation, a sticky map | start, stop, acquire, health check, sticky assignment | wraps gRPC and ZeroMQ clients | Health that changes between check and use. A client that failed too often is out of the rotation and comes back; nothing stays open behind a stop |
| Python `client/websocket_client.py` | connection state, two loops, a count of reconnections; the table of the manager | connect, receive loop, heartbeat, reconnect, close; register, disconnect, broadcast | a WebSocket server | Two loops that reconnect at once, close during a reconnection, a table that changes around awaits |
| Python `client/agent.py`, `zmq_client.py` | state of the agent, handlers, a socket with one request out, a broker's proxy | handshake, send, query, iterate; request, subscribe, start and stop | peers over ZeroMQ | Sends in the middle of a handshake, late replies, two readers of one socket |
| Python `cache.py` | entries with expiry and order of use, in memory, SQLite, Redis or MongoDB | get, set, evict, get_or_compute, clear, cleanup | encoders | Check then act between tasks, limits, expiry. Nothing is served after its time or its removal |
| Python `batch.py` | tasks, queues, counters, results | process, project_with_cache; put, flush, close, results | encoders | Shared counters, termination of the result stream, order across flushes. Every item gets its own result |
| Python `context.py`, `metrics.py` | profiles, a window, a kept context; counters and a histogram | choose, add, adjust; record, export | SDK, threads | A kept context must be the one of now; no increment is lost, two exports in turn never go back |
| Python `types.py`, `validate.py`, `codec.py`, `config.py` | a DAG with a cached order; the process-wide configuration | add nodes and edges, validate, encode and decode, load and merge | agents, `leet-core` | A cached order that is stale, rules the core has and the SDK has not, quantization, precedence |
| Python adapters (`adapters/*.py`) | history and cogons of a session, tools that run | send to a coding tool, fall back to an API, export | `claude`, `codex`, `kimi`, `aider` | A tool that runs on after its timeout |
| `leet-vm`, `leet-py` | sessions (cogons in order), personal store, counters | process, chat, stream, remember | providers, Redis | Requests that overlap in a session, a failure between two writes |
| `net1337.py` and the discussions | roster, log, histories, statistics | add, remove, inject, talk, chat; scripts | a language model | Who hears what, a roster that changes, a call that raises |
| Comparisons (`comparison_1337_vs_english.py`, `consciencia_vs_english.py`), `delta_compression.py` | previous vectors and texts, baselines, records | rounds of calls in threads, two phases, compress and decompress | a language model | Results out of order, small changes that add up, a baseline the receiver has not |
| `calibration` | the dataset and three matrix files | score, train, evaluate, export; mix sources | its own programs | Runs that are killed and resumed, a failed step after an earlier success |
| `setup.py` | `.env`, `docker-compose.yml` and its backup | the menu | a user | Files cut off in the middle, keys asked for and kept |
| `leet-core`, `leet-bridge`, vector operators | none | pure functions in floating point, a codec, validation | everyone | Ranges, boundaries of the codec, the rules on messages |
| `leet` commands `doctor`, `setup`, `chat`, `encode`, ... | files of the user | one run each | the above | Little that lasts beyond a run |
| Deployment files, scripts that print once | none | | | |

The components share little. `store.bin` and `index.bin` are shared by the server,
`consolidate` and `absorb` through the file system, without a lock. The agents
share the daemon's registry. The Python clients wrap one another by calls.

## 2. Plan

In this order, the behaviour that keeps or loses a user's data first.

1. `PersonalStore`, `MemoryCover`, `StoreRefinement`, `Absorb`: done.
2. `LeetServer`: done, its safety proved. To come: an abstract ordered multicast
   that it implements over TCP.
3. `ResilientClient` (circuit breaker, retries, fallback): done, its safety proved.
4. `ClientPool`, `WebSocketClient`, `WebSocketManager`, `ZmqClient`, composed in
   `PythonClients`: done, their safety proved.
5. The other programs and libraries, composed in `OtherPrograms`: done.
   `Cache`; `BatchProcessor`, `StreamingBatcher`; `Metrics`, `ContextManager`,
   `SdkConfig`; `Agent1337`, `IdeAdapter`; `LeetVM`; `Messages`, `WireCodec`;
   `Debates`, `WireComparison`, `VersusEnglish`, `DeltaCompressor`;
   `Calibration`, `SourceMix`, `SetupMenu`.
6. `BatchQueue`: the worker of the gRPC service, with its handlers and store,
   composed in `OtherPrograms` too: done.
7. Operators of `leet-core`: `blend_n_records`, the codec boundaries, checked against
   reference definitions. To come.

Every safety property that a run checks is proved for all constants, but for
`ProgramsTypeOK` (section 6). Worth stating next: the abstract multicast of item 2 and
the refinement it allows, and the operators of item 7.

## 3. The modules and the code

`PROJECT.json` maps every definition to the lines it stands for. A definition
whose name ends in what was changed (`OldestReversed`, `DeliverTry`, ...) and whose
comment calls it a mutant is not used by the specification: it is the plausible
bug that the property next to it must detect.

**PersonalStore** (`leet-mcp/src/store.rs`, `index.rs`, `tools.rs`, `server.rs`;
`leet-cli/src/cmd/consolidate.rs`). A memory is named by the nanosecond of its
`leet_remember`, and a record is the set of the memories its centroid and excerpt
stand for, with its `unix_ns`; the arithmetic of the blend is abstracted to the
union of these sets and the maximum of the times. `cells` and `torn` are
`store.bin` in chunks of 360 bytes, `index` is `index.bin`, and `records`,
`entries`, `cursor` are the mirrors in memory. `decode_record` checks nothing but the
frame, the first 96 bytes of a chunk (`store.rs:546-568`). So `torn`, what a failed
write left at the end, is kept as what its chunk will decode to once more bytes are
behind it: the record whose write failed if its frame is there, nothing
otherwise (`Part`); and the record that was written behind it begins in the
middle of a chunk from then on (`Chunk`, `Rest`). Two history variables follow
this: `spoiled`, that a record was written behind a part of one, and `misled`,
that the process loaded a store that was spoiled by then. The program counter
stands at the points where the files have just changed, since a crash can only
tell these apart:

| Actions | Code |
|---|---|
| `OpenCreate`, `CreateEmpty`, `LoadAll`, `OpenIndex`, `RefuseIndex`, `CreateFresh` | `open_or_create` of the store and of the index, step by step |
| `Remember`, `Consolidate`, `NothingToConsolidate`, `AppendFlush` | `leet_remember`: the record, its cascade, the index |
| `TouchRecall` | the cursor of `leet_recall` and `leet_recall_delta` |
| `ForceMerge`, `ForceFlush`, `ForceNothing` | `consolidate force`: its levels and passes |
| `RemoveIndex`, then the opening | `consolidate rebuild-index` |
| `...Fails`, `Crash`, `CrashInWrite` | a failed write, fsync or flush; the end of the process between two steps or inside a write |

**MemoryCover** is what a reader of the memory may rely on: live summaries, replaced
only by the union of their batch, and all of them live again at worst.
**StoreRefinement** maps the store to it: what is live is what the index in memory
says, or what an opening would make of the two files.

**Absorb** adds to PersonalStore a second process, `leet absorb`, that appends to
`store.bin` without opening the store, and the sessions it imports: it skips those it
knows by their time and those whose embedding fails, writes nothing in a dry run,
and can leave part of a record. Where there is no store it creates one in two
steps, the look (`LooksForStore`) and the header (`AbsorbHeader`), which race with
the server's creation: a header that is written late cuts off what was there.

**LeetServer** (`leet-service/src/tcp_server.rs`, `bin/leet-server.rs`,
`agent_client.rs`, `bin/leet-agent.rs`). One member of `Agents` is one connection
with its client, its task and its writer task. An action ends where the code
awaits: reading a line, the lock of the registry, room in a channel, the socket.
The tokio lock serves in order of arrival, readers together (`MayRead`,
`MayWrite`). A line that the writer task holds counts with its channel. A client may
send a line that is not UTF-8, with which `read_line` fails (`ReadFails`) as it does
when the connection is lost. Over the
Unix socket the handler differs in two ways, and both are modelled: an error of
`read_line` returns without cleaning up, and the writer is not aborted.

**ResilientClient** (`python/leet/client/resilient_client.py`). asyncio runs one
task at a time, and the lock of the breaker is never held across an await, so what
happens between two awaits is one action: `Start`, `Succeed`, `Fail`, `Retry`,
`Cancel`. Each goes as far as the code does before the next request is out or the
next sleep begins, through the breaker, the retry loop, the read of `state` for
the metrics and the next client of the fallback. A client of the list is a
`ResilientClient` (in `Guarded`) or bare.

**The connections of the Python SDK.** A step of these modules is the code between two
awaits of one event loop. They do not call one another, so `PythonClients` lets a
behaviour use one of them (`used`); the others stay as they were made.

| Module | Code | State and actions |
|---|---|---|
| `ClientPool` | `client/pool.py` | `members` keeps every client ever made, `pool` the list `_pool`; `Acquire`, `RequestFails`, `Release` of the tasks, `HealthWakes` and `HealthAnswers` of the health loop, `AcquireSticky`; start and stop client by client, with a start that fails half way |
| `WebSocketClient` | `client/websocket_client.py` | The n-th connection, its two loops and its socket share a number, the caller is task 0; `Receive...`, `Ping`, `SleepEnds`, `DialSucceeds`, `DialFails`, `Close...`, and `Lose` for the network. A task that closes a connection read `_websocket` before its await (`shuts`), and closes that one whatever is there by then |
| `WebSocketManager` | the same file | `table` in the order of `_clients`, calls that await in `connect`, `disconnect` and `broadcast`; a client's id is made from the length of the table, or given by the caller (`GivenIds`) |
| `ZmqClient` | `client/zmq_client.py` | A REQ socket with one request out, a SUB socket whose messages go to the receive loop or to an iterator, the broker and its proxy loop |

**The other programs.** `OtherPrograms` lets a behaviour use one of these (`program`),
and the variables of the others are 0.

| Module | Code | What it keeps, and what it abstracts |
|---|---|---|
| `Cache` | `cache.py` | Entries with their expiry, for each backend, and the order of use as the set of pairs of keys one of which is older; the callers of `get_or_compute` with the steps look, compute, store. Time in half seconds |
| `BatchProcessor`, `StreamingBatcher` | `batch.py` | Tasks admitted by the semaphore, results in the order of their end; buffer, flushes, results and close, whose `gather` hears only the tasks there are when it is called (`unheard`) |
| `Metrics` | `metrics.py` | Each lock's operation is a step: the increments of a record call, the reads of an export. Without `timed`, which raises a `NameError` where it is applied (`metrics.py:372`) |
| `ContextManager` | `context.py` | Managers that share the built-in profiles, a window and a kept context on one axis |
| `SdkConfig` | `config.py` | One field for each kind the merge tells apart: what a load takes from the environment, the file and the defaults, `get_config`, `set_config`, `init_config` |
| `Messages` | `types.py`, `validate.py`, `leet-core/src/validate.rs` | The DAG with `_topo_cache`, Kahn's algorithm as a recursive function of the turns of its loop, the rules of the SDK and of the core as predicates; the COGON_ZERO of the SDK (`types.py:91-98`) and that of the core (`types.rs:56-65`) are two values |
| `WireCodec`, `MCWireCodec` | `codec.py` | One axis and its quantization; a frame as a cogon and the bytes behind it, which `decode_msg` takes for checksum, addressees and patches of 32 bytes each. A short one raises |
| `Agent1337` | `client/agent.py` over the DEALER socket | start with the C5 handshake, the sends of other tasks, queries and iterators; nothing reads the socket after the handshake |
| `IdeAdapter` | `adapters/*.py` | Tasks that share an adapter, tools that run on after a timeout, Kimi's API, `leet-ide` |
| `LeetVM` | `leet-vm`, `leet-py` | Overlapping requests through projector, store, session and agent; a cogon is its stamp, a session its rows. The agent's handler answers, fails, or echoes the query's cogon |
| `Debates` | `net1337.py`, `plato_discussion.py`, `consciencia_debate.py`, `dual_book_simulation.py`, `dual_book_delta.py` | A command or script is an agenda of turns; a message is a number |
| `WireComparison` | `comparison_1337_vs_english.py` | The thread pool of a round, the sparse delta on one axis |
| `VersusEnglish` | `consciencia_vs_english.py` | Two phases, what each speaker hears; everything said has a number |
| `DeltaCompressor` | `delta_compression.py` | Baselines and chains of a sender and a receiver, a cogon as value and uncertainty, a delta as the positions that changed |
| `Calibration` | `calibration/run_pipeline.py` and the programs it starts | What is in the dataset and the three files after each end a program can come to |
| `SourceMix` | `calibration/sources` | The shares of the sources (`Sums` of their weights), what each gives, duplicates |
| `SetupMenu` | `setup.py` | The lines of `.env`: comments, settings, and lines that are neither, which `save_env` drops; a save that is killed may leave part of a line (`Remains`). The compose file and its backup, whole or torn |
| `BatchQueue` | `leet-service/src/batch.rs`, `server.rs`, `store.rs`, `main.rs` | A handler for each stream, which waits for room in the queue, for its vector and for room in its answers; the worker with its two causes to flush; the store, whose saves fail; clients that end, break off or leave; a service that is killed. A text is told apart by its projection, and a recall is the set of the nearest |
| `Subsequences` | | What is left of a sequence when some positions are taken out (`Keeping`), and its members in order (`Nth`): used wherever the code filters a list |

## 4. The runs

| Run | Shows | Bounds, and why they are enough |
|---|---|---|
| `store_crash` | With crashes, failed fsyncs and failed flushes at every step, by three programs in turn, each step of the store is one of `MemoryCover` | Batches of 2, levels 0 to 2, 5 ticks, 3 openings: two merges on level 0 make one on level 1, a rebuild can follow each and be followed by merges |
| `store_faults` | With those faults and writes that fail in a process that lives on: nothing is hidden, what was acknowledged stays recallable, merges keep the order of time, merged entries name what they merged, delta recall misses nothing, by any process that loaded a store that was intact then (`Trusted`), also when it spoils the file itself | The same, so that a torn write meets every stage of a merge, a reopening and a rebuild; 1.9 million states |
| `store_clean` | Without faults: the store always opens, one cascade per append keeps level 0 below a batch, and every level as long as `force` merged nothing early, and `force` finishes | Batches of 3, so that a level can hold more than one and less than a batch; 10 ticks and 4 openings, so that level 2 fills and `force` needs several passes |
| `store_refused` (violation) | A crash between the record and the index leaves a store that does not open | |
| `absorb_safe` | Next to a running server absorb harms no acknowledged memory and imports an unchanged session once, both creating the store or leaving parts of records | Two sessions, so that one can change while the other does not; fewer than `MaxCells` records before absorb starts; batches of 2, 3 ticks and 2 openings, so that the server merges before, between and after two imports and opens what they left; 10.1 million states |
| `server_safe` | Handshakes see no message, messages arrive in order, once and at their recipients, the registry follows the TCP connections, a routed message has reached all that are still there | Three agents: one over the Unix socket that answers everything, one that times out, one that sends what it likes. Two messages each, channels and sockets of one line, so that every queue is full and every wait occurs; 2.7 million states |
| `server_live` | Nobody waits for ever for the lock or for room, messages are received, those who leave are removed | Two agents and three lines: socket, writer and channel of the receiver are full and one more line waits in the broadcast |
| `clients` | Late answers of calls admitted in an earlier state of the breaker neither let more through than a cooldown allows nor keep it shut; the fallback gives up only when all clients failed; every operation ends | Three callers, one of them cancellable, two probes, a threshold of 2: a call can be admitted closed, fail half open, and race with two probes. One guarded and one bare client; callers repeat for ever |
| `clients_stuck` (violation) | A cancelled probe keeps its place, and the breaker refuses every call from then on | |
| `connections` | Clients that failed too often leave the rotation whatever a health check says late, and come back; nothing stays open behind a stop; one WebSocket connection at a time, none after close, a new one after a loss; the manager's table agrees with what is open; replies go to their requests | Pools of two, three clients over restarts, two failures; two reconnections; two tasks on the manager and three connects, with an id that is also made from a length and one that is not (`GivenIds`); two iterators and the receive loop, three messages, three starts |
| `programs` | `CacheSafe`, `CallsSound`, `TalksSound`, `MessagesKept`, `SettingsSound`, `DebatesSound`: see below | About 1.8 million states, each program with two tasks, threads or managers where the code has several. Two cache keys, of which one or two fit; two calls of two items; five items through a buffer of two; three nodes and three edges of a DAG; three agents, two rounds; chains of two deltas; three texts to score and three runs of the pipeline; two sources; three requests in two sessions; two streams and three requests on a queue and answers of one, batches of two |
| `wire_message` (violation) | A message that `encode_msg` made does not come out of `decode_msg` | |

The invariants of `programs` are conjunctions, one part for each program, defined and
explained in its module:

- `CacheSafe`: nothing is served after its time, eviction takes the least recently used
  key, and a value from before a removal is there only if it was being computed then.
- `CallsSound`: a call of a batch gets the results of its own items, an item put into a
  stream is in exactly one place, the counters agree with what happened, and the gRPC
  service answers a stream in order with the vectors of its texts, loses no job and
  recalls what `encode` answered. `close()` of a stream returns every item but those
  of a flush that still waited when it had nothing to flush itself.
- `TalksSound`: the first message of a session is COGON_ZERO, no agent is active unless a
  peer vouched for it, handlers are there as long as they are waited for; the history
  of a coding session is what the tools answered; the two cogons of an exchange
  stay together in a session and are in the store.
- `MessagesKept`: the topological order is exact for the nodes as they are; of the
  messages the SDK accepts the core rejects exactly four kinds, those with a value
  out of range, a negative stamp, a hash of zeros, or a COGON_ZERO, which is another
  there; quantization does not add up; every delta meets its baseline.
- `SettingsSound`: a configuration is put together from the environment, the file and the
  defaults of one load (a field the environment gave has that value, but for
  "false" for a flag of `LeetConfig`; another has the file's or the default, and the
  file's if it is an optional, a list or a flag); contexts are fresh; a `setup.py` that
  is killed and run again keeps the comments and settings of `.env` in order, loads
  what it saved and has a whole compose file or backup; a pipeline is complete only
  on fresh data; sources take nothing from one another.
- `DebatesSound`: nobody answers itself or old news, everybody gets its turns, a receiver
  of sparse deltas drifts by at most the threshold for each message it was not
  sent, and the two phases of a comparison are the same experiment.

The tasks of `programs` are interchangeable (`MCTasks` permutes them); no property names
one, and no liveness is checked there.

Deadlock is not checked for the store, for absorb and for the daemon, where a run
of the program ends: the clock and the number of openings are bounded, and agents
leave; nor for `connections` and `programs`, where tasks end and every counter has a
bound. It is checked for the clients, whose callers never stop.

Every property of a passing run is broken by a mutant of a mapped definition, listed
in `PROJECT.json`: a dropped guard, an off-by-one, a missing reset. The conjunctions
have one for each of their parts that code can break by itself.

**Fairness.** Only `server_live`, `connections` and the runs of the clients assume any. In the daemon every connection task and every writer task is weakly fair:
tokio polls a task that is ready. The members of `Listeners` go on reading what
they are sent and answering it, as the loop of `leet-agent` does; nothing obliges a
client to send or to leave. An agent that does not read stops the broadcasts and
with them the registry (`tcp_server.rs:354` waits under the lock), so the
liveness properties hold under this assumption only. In the clients a request that
is out ends, with a result or an error, as the deadlines of the base clients
intend, a sleep of `with_retry` ends, and the cooldown passes; no caller is obliged
to call. In the pool (`PoolFairness`) the health loop wakes from its sleep and a health
check that was asked gets an answer or an error. In the WebSocket client
(`WsFairness`) a loop notices what its socket tells it, the sleeps of a
reconnection end and a dial succeeds or fails; neither the server nor the network
is obliged to anything.

## 5. What is proved

Eight modules hold theorems, listed in `PROJECT.json`. Each proves properties that the
runs check, for every value of the constants under the named assumptions of the
modules it extends (`StoreAssumption`, `AbsorbAssumption`, `ServerAssumption`,
`ClientAssumption`, `PoolAssumption`, `WsAssumption`, `ManagerAssumption`, `ZmqAssumption`,
`CacheAssumption`, `BatchAssumption`, `StreamAssumption`, `MetAssumption`, `GrpcAssumption`,
`VmAssumption`, `AgentAssumption`, `IdeAssumption`, `CfgAssumption`, `ContextAssumption`,
`SetupAssumption`, `CalAssumption`, `MixAssumption`, `CodecAssumption`,
`CompressorAssumption`, `MessageAssumption`, `ComparisonAssumption`, `VersusAssumption`,
`DebateAssumption`): counts are positive and bounds are natural numbers. The sets of
agents, callers, clients and tasks are arbitrary, infinite ones included, but for
those whose members are counted (`Calls`, `Recorders`, `GrpcClients`), which are finite.
Each inductive invariant was first checked by TLC on the run of its component.

**The store** (`PersonalStore_proofs`). For every threshold, number of levels and passes,
set of programs, set of faults and length of the history:

- `TypeCorrect`: `TypeOK`, with `Shape`, which has it that an open store has an entry
  for each record in memory. Nothing is assumed of the store here.
- `NothingIsHidden`, `MemoryKept`, `MergesKeepOrder`, `RangesAreExact`,
  `DeltaMissesNothing`: the five safety properties of the store.
- `IntactImplementsCover` (`Spec /\ []Intact => ImplementsCover`): every behaviour that
  stays intact implements `MemoryCover`; `StoreImplementsCover`: all behaviours do if
  `"write" \notin Faults`.
- `ToldStaysLive`: in `MemoryCover` an acknowledged memory is in a live summary for
  ever; with the previous theorem it holds of the store.
- `AbsorbHarmless` and `ImportedOnce`: `AckedSurvivesAbsorb` and `UnchangedOnce` with a second
  process that appends, leaves part of a record, cuts off the file or is run again.

Two conditions state what the code loses. A server that lives on after a write that
failed part way, and remembers something else, writes behind a fragment. From then
on the file is `spoiled`: to a reader the chunk of the fragment is the record whose
write failed, if 96 bytes of it had been written, and nothing otherwise; the records
behind it begin in the middle of a chunk. The index may agree in number all the
same, and then the store opens without the memories that were acknowledged last.
`Intact == ~spoiled` is what the refinement assumes of the file. The five properties
assume less: `Trusted == Up /\ ~misled`, that the process loaded a store that was not
spoiled by then. What that process told and showed it has in memory, and keeps
until it ends, even while it spoils the file; what it wrote behind the fragment is
lost with it (section 7). All other faults, a failed write followed by a restart
included, leave the store intact: that `Intact` is preserved without failed writes
is a lemma (`StaysIntact`), that a load is misled by nothing but a spoiled store
another (`Loads`).

The invariant is `StoreInv`: `TypeInv`; `~misled => MemSafe`, of the memory; and
`Intact => Safe`, of the files too. Its parts, for the memory (`...Now`) and for the
files:

- `Aligned`, `Clean`: the memory of a process never runs ahead of `store.bin`, nor
  `index.bin` ahead of that memory, so that when the two files have the same
  length, the index describes the records. Without it a failed fsync (a record in
  the file and not in memory) followed by a flush could pair entries with the
  wrong records.
- `CoveredNow`, `Covered`: every memory of a record is in a live record.
- `KeptNow`, `Kept`: acknowledged memories are there, and so is the one whose
  `leet_remember` is under way.
- `OrderedNow`, `Ordered`: the live records are consecutive periods of the past, unless
  an index was rebuilt.
- `TracedNow`, `Traced`: a merged entry stands behind its sources, which are marked and
  hold together what it holds, and at each level the marked entries come first.
  This is what makes a range exact although a batch is taken out of a level with
  others in between.

`Alone` and `OwnNow` say that there is nothing but memories on file and in memory, since
`MemoryCover` is instantiated with `0 .. MaxNow`. The proof of a step goes by the
actions in the groups `Opening`, `Remembering`, `TouchRecall`, `Forcing`, `Ending`; the
lemmas on `Append`, on marking and on merging a batch are stated once and cited.

With absorb the invariant is `AbsorbInv`: `Alone` does not hold then, and in its place are
`Sound` (a record stands for something, and a session that was imported alone has its
own time), `Discovered` (what absorb has found is what there was at a time that has
come) and `Unknown` (the session it looks at is not in the file, unless its time is
known): the summaries the server makes meanwhile keep the times that absorb
compares.

**The store when nothing fails** (`PersonalStore_proofs` too, each theorem with `Faults = {}`,
as in `store_clean`, where a crash is what breaks the properties):

- `ReopensAlways`: `AlwaysOpens`, by `Closed`: but for the middle of a call the index
  file has an entry for each record of `store.bin`.
- `PyramidStaysBounded`: `PyramidBounded`, by `Bounded`: the only level that may hold a
  full batch is the one the cascade is at, and it holds no more than that.
- `ForceFinishes`: `ForceComplete`, by `PassInv`: the levels a pass has left behind are
  below `--min` as long as it merged nothing.

**The daemon** (`LeetServer_proofs`), for any agents, capacities of channels and
sockets, and numbers of messages:

- `ServerTypeCorrect`: `TypeOK`.
- `HandshakeIsClean`: `HandshakeClean`, by `Handshake(a)`, which relates the stage of the
  client to that of the connection's task and to what is in the two directions
  between them.
- `RegistryIsExact`: `RegistryExact`, by `Registered(a)`.
- `NobodyElseReceives`: `OnlyRecipients`, by `Recipients`: what a task routes is of its
  own client, and its list of targets names none that the message is not for.
- `MessagesInOrder`: `InOrder`, by `Order`: along channel, socket and what was received the
  messages of one sender are in order, and all of them older than what the
  sender's task still routes or has not read. The lemmas on `Slide` say that a
  message that moves one place on along this way keeps the order.
- `RoutingReachesAll`: the action property `RoutedToAll`, by `Reached`: a target is on the
  list, has the message, or has left, and those still on the list are in the
  registry. A broadcast keeps its read lock until
  its last send, so that no target can be removed and come back meanwhile.

**The resilient clients** (`ResilientClient_proofs`). For any callers, clients, guarded
clients, thresholds, limits and retries (at least one: `ClientAssumption`):

- `ClientsTypeCorrect`: `TypeOK`, with the limit on `half_open_calls`.
- `BreakerTrips`: `Trips`, and `BreakerPaces`: the action property `Paced`.
- `FallbackTriesAll`: `LastResort`.

The inductive invariant is `TypeOK /\ Circuits /\ Patient /\ Tour`. `Circuits` ties the
requests a server has got to the state of its circuit: they are among
`half_open_calls` in HALF_OPEN, and none is left when the cooldown of OPEN is over,
so that the count may start again from 0; the limit alone is not inductive, since
nothing in it says that a new HALF_OPEN begins with a fresh allowance. `Patient`
says that a caller that sleeps has an attempt left, and `Tour` that the clients
that failed an operation and those still on its route are all the clients.
`AskKeeps`, `TrackKeeps` and `StepKeeps` deal with what all actions of a caller share.

**The connections of the Python SDK** (`PythonClients_proofs`): `ClientsKeepTypes`,
`PoolKeepsRotation` and `ConnectionsStaySound` are `ConnectionsTypeOK`, `PoolSafe` and
`ConnectionsSound`, by an invariant for each of the four modules, none of which
touches the variables of the others:

- `PoolInv`: only a running pool has a health loop, a loop that asks has somebody to
  ask, and every client that is open is one of the pool, so that a stop closes
  them all.
- `WsInv`: connections are numbered as they are made, and there are never more of
  them and of attempts under way than the first and the reconnections counted
  (`Numbered`); no two loops read one connection (`Apart`); while no two tasks have
  reconnected at once, the newest connection alone is open and read, and whoever
  dials has waited until the others had ended (`Single`, which rests on `Noticed`: a
  loop learns of its lost socket before `reconnect_delay` is over); what `close()`
  has ended by the time it is at a point (`Quiet`); the connection that a task read
  before it closes it is the newest, as long as no two reconnect (`Shutting`).
- `ManagerInv`: a client is in the table or with one call that connects or closes it
  (`Placed`, from which the size of the table, and so the id made of it, is at most
  the number of clients made); a default that is not registered is the id of a
  call that will replace it (`Replaced`); without overlapping calls what the
  table holds is open (`Alone`).
- `ZmqInv`: only the request of now is on its way, and only while the socket waits
  (`OnTheWay`); what was received is older than what is in the inbox, and rises
  (`Delivery`).

**The other programs** (`OtherPrograms_proofs`, `Debates_proofs`, `Sessions_proofs`). Each of the
six invariants of `programs` is a theorem: `CacheIsSafe`, `CallsAreSound`,
`DebatesAreSound`, `TalksAreSound`, `SettingsAreSound`, `MessagesAreKept`. A behaviour uses
one program, so each has an invariant of its own:

- `CacheInv`: the entries are once for each key, in the order of use, with the times of
  the history; a caller that computed a value of before a removal is in `late`.
- `BatchInv`: along the queue of ended tasks and the results of a call each item is
  once, with what came of it (`CallTasks`). `StreamInv`: where an item is that has been
  put (`StreamPlaces`); `CloserInv`: the tasks `close()` does not hear are those of the
  flushes that were still waiting. `MetWhole`: a counter and the calls that owe it an
  increment are together what happened. `GrpcInv`: a handler's job is once among
  senders, queue, batch and reply, for the request its client waits for next, and
  the store has what `encode` answered.
- `CmpInv`: how far a receiver's view is from the last vector, by the messages it was not
  sent (`Drifts`). `VsInv`: the place of every turn in the rounds, and what the next to
  speak will hear (`Upcoming`). `DebInv`: an agenda is about those who are there
  (`Planned`), whom a turn answers has spoken by then, and what an agent has said and
  has still to say are its turns (`Going`).
- `AgentInv`: an active agent's last packet is of its session (`Announced`). `IdeInv`: a
  message in flight is one task's and was served as far as that has come (`Flights`,
  `Served`); `leet-ide` has one message (`Commands`). `VmInv`: what a request has by the
  time it is where it is (`Staged`), a session no two requests overlapped in is in
  order (`Calm`), in memory a query is stored with its answer (`Unstored`).
- `CfgInv`: `ConfigSound`, field by field. `ContextInv`: a profile that is not there yet was
  not chosen (`NotChosen`). `SetupInv`: the compose file is the last whole one or torn,
  and the backup is it before it is written (`ComposeParts`). `CalInv`: the text that is
  being scored is not in the file (`Scoring`), and what a whole run has left to its
  next program (`Left`). `MixInv`: what was collected is within the shares (`Collected`).
- `MsgInv`: a cached order is one of the graph as it is; that Kahn's loop finds one
  exactly for an acyclic graph is proved of its recursive function, turn by turn
  (`KahnInv`). `CodecInv`: what is held has the byte of what was first sent (`Near`).
  `DeltaInv`: the baseline of the receiver is the one of the next delta on the
  channel (`OnTheWay`), and how far back the last FULL is (`Chained`).

`Subsequences_proofs` has the facts on `Nth` and `Keeping` that filtering a list needs: its
length, its members, their order.

## 6. What is only model-checked

- Liveness: `NobodyStuck`, `Delivered`, `DisconnectedRemoved` of the daemon, `Recovers` and
  `Settles` of the clients, `TakenBack` and `ComesBack` of the connections. Liveness
  under fairness is out of the prover's reach.
- `ProgramsTypeOK`. The theorems on the other programs rest on invariants that hold the
  types they need, with the bounds of the runs left out.

## 7. What the code does against its documents

The runs marked violation each show one; `PROJECT.json` quotes the lines. Met while
modelling, and not stated as a run. The first group is defined in the modules
under the name given, with the comment it contradicts; TLC finds each violated
under constants like those of the runs.

| Definition | Module | What the code does |
|---|---|---|
| `RecallShowsRecent` | `PersonalStore` | `tools.rs:20-23` promises recent raw entries; once enough summaries are live, `fill_temporal` fills the limit with them (`tools.rs:314-329`) |
| `MarkedIsMerged` | `PersonalStore` | `index.rs:25` says that a marked record was consolidated into a higher one, which is why recall skips it. After a write that failed part way in a server that lives on, the next records straddle its remains: a fragment of 96 bytes or more decodes as the record whose write failed, those behind it as nothing. The readable records can be as many as the entries all the same, which pairs them with the wrong ones, and recall skips records that no summary contains |
| `NeverTwice` | `Absorb` | `absorb.rs:24` promises no double import; a session that went on has a new time and is imported again (`absorb.rs:102`) |
| `DisconnectedRemoved`, with an agent of the Unix socket | `LeetServer` | `tcp_tests.rs:225`; a read error returns before the cleanup (`leet-server.rs:205`) |
| `AbortsOnMajority` | `BatchProcessor` | `batch.py:53` aborts "if more than 50% errors"; errors are counted when items end, and compared with the results handed on so far (`batch.py:159`) |
| `AnnouncedFirst` | `Agent1337` | `validate.py:309`, R20; tasks that send while the agent starts are before COGON_ZERO |
| `AnnouncedBeforeAll` | `Debates` | `net1337.py:581`, R20; an agent of `/add` never announces itself |
| `Reconstructs` | `DeltaCompressor` | `delta_compression.py:203`; a DELTA comes out with the uncertainties of its baseline |
| `ApiOnlyWithoutCli` | `IdeAdapter` | `kimi.py:199`; a message the command line took and failed on goes to the API too |
| `FileOverDefaults` | `SdkConfig` | `config.py:248-251`; of most fields, the file's value is dropped for the default; of the environment's flags "false" counts as not given for `debug` |
| `AdjustedInRange` | `ContextManager` | `context.py:64` keeps values in [0, 1]; the profile "emergency" gives 1.15 |
| `ResumeCompletes` | `Calibration` | a record cut off without its newline swallows the next one, and its text is never scored again |
| `DeltaHasNews` | `LeetVM` | `vm.py:85` "only what changed since last request"; the delta is taken behind the last cogon and is empty |
| `Restarts` | `ZmqClient` | a broker that was stopped keeps its sockets bound, and its next start fails (`zmq_client.py:398-435`) |
| `NoneForgotten` | `WebSocketManager` | an id made from the length of the table may be taken: the client it named is open and forgotten (`websocket_client.py:501`) |

The second group is in prose only:

- An acknowledged memory can be lost: the one a server writes next after a write that
  failed behind 96 bytes or more is taken for the failed record by the next process,
  whose index agrees in number (`store.rs:186-192`, `:546-568`). `Trusted` ends there.
- COGON_ZERO is 32 ones in the SDK (`types.py:91-98`) and 1, 0, 0, 0, 0, 1, ... in the core
  (`leet-core/src/types.rs:56-65`), so that the first message of a session that follows
  R20 of `validate.py:320-323` breaks that of `validate.rs:240-247`.
- `save_env` writes `.env` "preserving order and existing comments" (`setup.py:48`); a line
  without `=` that is no comment is dropped (`setup.py:56-62`), so the part of a line that
  a killed save left is not kept.
- `close()` of a stream "returns all results" (`batch.py:403`); those of a flush that still
  waits for the semaphore are missing when `close()` has nothing to flush itself.
- An export of the metrics may show more cached projections than projections: its
  reads are not one step (`metrics.py:241`).
- The sticky clients of a key are used without a look at their health (`pool.py:258`).
- Two loops of a WebSocket client that lose the connection at once make two
  connections, and `close()` during the sleep of a loop it does not know of is undone
  when the loop connects (`websocket_client.py:412`, `:452`).
- `receive_timeout` overrides the `timeout` of a ZeroMQ request, and after a timeout
  a REQ socket can send nothing until it is connected again.
- `encode_batch` answers as if a COGON were stored when the store failed
  (`server.rs:121`); `encode` reports it.
- `results()` of a stream does not end before Python 3.13: `as_completed` yields other
  objects than the tasks, so that `_tasks` is never empty.
- Nothing reads the DEALER socket of an agent after its handshake: a query waits
  until its timeout.
- `timed` raises a `NameError` where it is applied, its docstring's example included:
  `asyncio` is imported nowhere in the module (`metrics.py:372`).
- A store that absorb has written to is refused by the next opening when it already
  has an index: the number of entries no longer fits.
- A session without a readable timestamp has time 0; once one such session is in the
  store, the others are taken for it.
- The help of absorb names `--since 7d` and `--all`, which its parser does not know.
- An agent that has seen Ready misses the broadcasts made before it is registered.
- `recv_timeout` gives up in the middle of a line and loses what it has read of it.
- Agents that answer every message can come to wait for one another, each in
  the middle of a write: that takes more lines in flight than a run holds.
- `create_resilient_client` passes `None` for a disabled retry or breaker, which
  `ResilientClient` replaces by the default one, and with fallback hosts uses
  neither (`resilient_client.py:548-566`).
- `FallbackClient` stays with the client that last succeeded: "Tries the first client"
  (`resilient_client.py:414`) holds until the first failure only.

## 8. What is not modelled

`PROJECT.json` gives the reason for each component. Two kinds: parts without
state between two calls (`leet-core` but for its rules on messages, `leet-bridge`, the
vector operators, encoders, report scripts) and parts whose state belongs to other programs (`leet setup`,
deployment). Of the gRPC service, the answers of decode and delta are not modelled: they
change no state. Within the modelled parts: texts, vectors of more than one
axis and similarity search, the JSON framing, the counters of the daemon other
than `agents_peak`, latencies, and the sizes of waiting times; a `compute_fn` of the cache that raises; an
agent of `leet-vm` that answers with a cogon of its context. Two servers that open
one store at once are not modelled: each process that opens the store is assumed
to have it for itself, but for `leet absorb`. The modules that `PythonClients` and
`OtherPrograms` compose share no state in the code, so that two of them run at once
adds nothing.
