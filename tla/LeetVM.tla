-------------------------------- MODULE LeetVM --------------------------------
(***************************************************************************)
(* leet-vm and the leet-py client on it: LeetVM.process projects a request, *)
(* recalls records of the store, computes the session's delta, awaits the   *)
(* agent and stores query and result.  Coroutines interleave at the awaits: *)
(* at the model's answers always, at the store only when it is Redis.       *)
(* A cogon is its stamp; time.time_ns never repeats.  An agent answers with  *)
(* a cogon of its own or hands back the one it was asked with; one that      *)
(* returns a cogon of its context is left out.                               *)
(***************************************************************************)
EXTENDS Naturals, Sequences, SequencesExt

CONSTANTS
    VmTasks,     \* the coroutines of the program
    VmModes,     \* the modes of the projector: "auto", "service", "local"
    MaxRequests, \* bound: requests begun
    MaxChats     \* bound: new_session

ASSUME VmAssumption ==
    VmModes \subseteq {"auto", "service", "local"} /\ MaxRequests \in Nat /\ MaxChats \in Nat \ {0}

VARIABLES
    storeKind,   \* "memory" or "redis"
    projector,   \* _projector: "none", "service" or "local"
    vmMode,      \* the mode of the VM
    storedCogons, \* the cogons that the store has of the agent_id
    rows,     \* the number of its records: a cogon may have two
    sessions,    \* _sessions: the cogons of each
    chatNo,      \* the client's _session_id
    cogonsStored, \* in the client's Stats
    calls,       \* each coroutine: where it is and its local variables
    stamp, begun,
    overlapped   \* history: sessions that two requests used at a time

vmVars == <<storeKind, projector, vmMode, storedCogons, rows, sessions, chatNo,
            cogonsStored, calls, stamp, begun, overlapped>>

Network == 0                       \* process of AgentNetwork.run has session_id ""
MaxStamp == 2 * MaxRequests
Cogons == 1..MaxStamp
NoRequest == [pc |-> "idle", op |-> "chat", session |-> Network, odd |-> FALSE,
         cogon |-> 0, result |-> 0, delta |-> {}]

VmTypeOK ==
    /\ storeKind \in {"memory", "redis"} /\ vmMode \in VmModes
    /\ projector \in {"none", "service", "local"}
    /\ storedCogons \subseteq Cogons /\ sessions \in [0..MaxChats -> Seq(Cogons)]
    /\ chatNo \in 1..MaxChats
    /\ rows \in Nat /\ cogonsStored \in Nat /\ stamp \in 0..MaxStamp
    /\ begun \in 0..MaxRequests /\ overlapped \subseteq 0..MaxChats
    /\ \A t \in VmTasks :
        /\ calls[t].pc \in {"idle", "probe", "project", "recall", "agent", "reply", "query",
                            "answer", "count", "write", "written"}
        /\ calls[t].op \in {"chat", "run", "stream", "remember"}
        /\ calls[t].session \in 0..MaxChats
        /\ calls[t].odd \in BOOLEAN
        /\ calls[t].cogon \in 0..MaxStamp /\ calls[t].result \in 0..MaxStamp
        /\ calls[t].delta \subseteq Cogons

VmInit ==
    /\ storeKind \in {"memory", "redis"} /\ vmMode \in VmModes
    /\ projector = "none" /\ storedCogons = {} /\ rows = 0
    /\ sessions = [s \in 0..MaxChats |-> <<>>]
    /\ chatNo = 1
    /\ cogonsStored = 0
    /\ calls = [t \in VmTasks |-> NoRequest]
    /\ stamp = 0 /\ begun = 0 /\ overlapped = {}

SetCall(t, c) == calls' = [calls EXCEPT ![t] = c]
At(t, pc) == calls[t].pc = pc
StatsUnchanged == UNCHANGED cogonsStored
SetUp == UNCHANGED <<storeKind, vmMode>>
GoesOn == UNCHANGED begun /\ SetUp

\* An exception: the caller gets it, and nothing is undone.
RequestRaises(t) ==
    /\ SetCall(t, NoRequest)
    /\ UNCHANGED <<projector, storedCogons, rows, sessions, chatNo, stamp, overlapped>>
    /\ StatsUnchanged /\ GoesOn

-----------------------------------------------------------------------------
(* The protocols: what detect_protocol takes a message for, and what decode *)
(* makes of its parameters                                                  *)

Keys == {"jsonrpc", "tool_use", "path", "error"}
Inputs == [object : BOOLEAN, keys : SUBSET Keys, params : {"plain", "oddText", "notObject"}]

DetectProtocol(m) ==
    CASE ~m.object                                                -> "text"
      [] m.object /\ "jsonrpc" \in m.keys                         -> "json-rpc"
      [] m.object /\ "jsonrpc" \notin m.keys /\ "tool_use" \in m.keys -> "mcp"
      [] OTHER                                                    -> "rest"

Wrapped(params) == IF params = "notObject" THEN "plain" ELSE params

\* JsonRpcAdapter wraps what an error holds, and hands on the params of a
\* request as they are.
JsonRpcParams(m) == IF "error" \in m.keys THEN Wrapped(m.params) ELSE m.params
\* McpAdapter and RestAdapter wrap what is not an object.
McpParams(m) == Wrapped(m.params)
RestParams(m) == Wrapped(m.params)

Decoded(m) ==
    CASE DetectProtocol(m) = "text"     -> "plain"
      [] DetectProtocol(m) = "json-rpc" -> JsonRpcParams(m)
      [] DetectProtocol(m) = "mcp"      -> McpParams(m)
      [] OTHER                          -> RestParams(m)

\* text_hint: params.get("text") or str(params), cut to 200 characters.
HintRaises(params) == params # "plain"

-----------------------------------------------------------------------------
(* The projector *)

\* _get_projector, up to the probe of the automatic mode.
AfterProjector(p) == IF p = "none" /\ vmMode = "auto" THEN "probe" ELSE "project"

Projector == IF projector = "none" /\ vmMode # "auto" THEN vmMode ELSE projector

\* The requests that are about to use session s.
InSession(s) == {t \in VmTasks : calls[t].op \in {"chat", "run"} /\ calls[t].session = s /\ ~At(t, "idle")}

BeginRequest(t, op, s, odd) ==
    /\ At(t, "idle") /\ begun < MaxRequests /\ begun' = begun + 1
    /\ projector' = Projector
    /\ SetCall(t, [NoRequest EXCEPT !.pc = AfterProjector(projector), !.op = op, !.session = s,
                           !.odd = odd])
    /\ overlapped' = IF op \in {"chat", "run"} /\ InSession(s) # {} THEN overlapped \cup {s} ELSE overlapped
    /\ UNCHANGED <<storedCogons, rows, sessions, chatNo, stamp>> /\ StatsUnchanged /\ SetUp

Chat(t) == BeginRequest(t, "chat", chatNo, FALSE)
ChatStream(t) == BeginRequest(t, "stream", Network, FALSE)
Remember(t) == BeginRequest(t, "remember", Network, FALSE)

\* AgentNetwork.run, and LeetVM.process called with a message of any protocol.
Run(t) == \E odd \in {HintRaises(Decoded(m)) : m \in Inputs} : BeginRequest(t, "run", Network, odd)

\* The probe ends: whoever ends last has its choice kept.
Probed(t) ==
    /\ At(t, "probe")
    /\ projector' \in {"service", "local"}
    /\ SetCall(t, [calls[t] EXCEPT !.pc = "project"])
    /\ UNCHANGED <<storedCogons, rows, sessions, chatNo, stamp, overlapped>> /\ StatsUnchanged /\ GoesOn

\* ServiceProjector.project: the service does not answer.
ProjectFails(t) ==
    /\ calls[t].pc \in {"project", "reply"} /\ projector = "service"
    /\ RequestRaises(t)

-----------------------------------------------------------------------------
(* LeetVM.process *)

\* SessionDAG.last_stamp and delta_since
LastStamp(s) == IF s = <<>> THEN 0 ELSE Last(s)
\* Mutant of DeltaSince: the last one counts as changed.
DeltaSinceLast(s, since) == {s[i] : i \in {j \in DOMAIN s : s[j] >= since}}

DeltaSince(s, since) == {s[i] : i \in {j \in DOMAIN s : s[j] > since}}

\* Once the store has answered recall: the delta of the session and the call
\* of the agent, in one step; or route raises, for want of the agent that the
\* message names and of a default.
Routed(t, call) ==
    LET s == sessions[call.session]
    IN  \/ SetCall(t, [call EXCEPT !.pc = "agent", !.delta = DeltaSince(s, LastStamp(s))])
        \/ SetCall(t, NoRequest)

\* The query is projected.  A store in memory answers in the same step.
QueryProjected(t) ==
    /\ At(t, "project") /\ calls[t].op \in {"chat", "run"}
    /\ stamp' = stamp + 1
    /\ LET call == [calls[t] EXCEPT !.cogon = stamp + 1, !.pc = "recall"]
       IN \/ storeKind = "memory" /\ Routed(t, call)
          \/ storeKind = "redis" /\ SetCall(t, call)
    /\ UNCHANGED <<projector, storedCogons, rows, sessions, chatNo, overlapped>> /\ StatsUnchanged /\ GoesOn

Recalled(t) ==
    /\ At(t, "recall") /\ calls[t].op \in {"chat", "run"}
    /\ Routed(t, calls[t])
    /\ UNCHANGED <<projector, storedCogons, rows, sessions, chatNo, stamp, overlapped>> /\ StatsUnchanged /\ GoesOn

\* Router.route returns: the agent, _llm_agent for the client, has its text.
AgentAnswers(t) ==
    /\ At(t, "agent") /\ SetCall(t, [calls[t] EXCEPT !.pc = "reply"])
    /\ UNCHANGED <<projector, storedCogons, rows, sessions, chatNo, stamp, overlapped>> /\ StatsUnchanged /\ GoesOn

AgentFails(t) == At(t, "agent") /\ RequestRaises(t)

\* Mutant of Exchanged: what the session gets is in the order of the store.
ExchangedByQuery(s, call) == <<call.cogon>> \o s \o <<call.result>>

\* session.add, twice
Exchanged(s, call) == s \o <<call.cogon, call.result>>

\* chat, after process: the count is read from the store once more.
Done(call, count) ==
    IF call.op = "chat" THEN cogonsStored' = count ELSE StatsUnchanged

\* rpush, or append: one more record.
Rpush(c) == storedCogons' = storedCogons \cup {c} /\ rows' = rows + 1
NothingPushed == UNCHANGED <<storedCogons, rows>>

\* The agent's cogon is there and both are stored: in one step in memory.
Answered(t, call) ==
    IF call.odd
    THEN SetCall(t, NoRequest) /\ StatsUnchanged /\ NothingPushed /\ UNCHANGED sessions
    ELSE IF storeKind = "memory"
    THEN /\ storedCogons' = storedCogons \cup {call.cogon, call.result} /\ rows' = rows + 2
         /\ sessions' = [sessions EXCEPT ![call.session] = Exchanged(@, call)]
         /\ Done(call, rows + 2) /\ SetCall(t, NoRequest)
    ELSE SetCall(t, call) /\ StatsUnchanged /\ NothingPushed /\ UNCHANGED sessions

\* The answer of the agent is projected.
ReplyProjected(t) ==
    /\ At(t, "reply")
    /\ stamp' = stamp + 1
    /\ Answered(t, [calls[t] EXCEPT !.result = stamp + 1, !.pc = "query"])
    /\ UNCHANGED <<projector, chatNo, overlapped>> /\ GoesOn

\* An agent of the program's own hands back the cogon it was asked with.
AgentEchoes(t) ==
    /\ At(t, "agent") /\ calls[t].op = "run"
    /\ Answered(t, [calls[t] EXCEPT !.result = calls[t].cogon, !.pc = "query"])
    /\ UNCHANGED <<projector, chatNo, stamp, overlapped>> /\ GoesOn

\* rpush of the query, and then of the result
AddQuery(t) ==
    /\ At(t, "query")
    /\ Rpush(calls[t].cogon)
    /\ SetCall(t, [calls[t] EXCEPT !.pc = "answer"])
    /\ UNCHANGED <<projector, sessions, chatNo, stamp, overlapped>> /\ StatsUnchanged /\ GoesOn

AddResult(t) ==
    /\ At(t, "answer")
    /\ Rpush(calls[t].result)
    /\ sessions' = [sessions EXCEPT ![calls[t].session] = Exchanged(@, calls[t])]
    /\ SetCall(t, IF calls[t].op = "chat" THEN [calls[t] EXCEPT !.pc = "count"] ELSE NoRequest)
    /\ UNCHANGED <<projector, chatNo, stamp, overlapped>> /\ StatsUnchanged /\ GoesOn

ChatReturns(t) ==
    /\ At(t, "count")
    /\ Done(calls[t], rows) /\ SetCall(t, NoRequest)
    /\ UNCHANGED <<projector, storedCogons, rows, sessions, chatNo, stamp, overlapped>> /\ GoesOn

-----------------------------------------------------------------------------
(* The rest of the client *)

\* Mutant of Remembered: counted before it is stored.
RememberedEarly(t) ==
    /\ stamp' = stamp + 1 /\ cogonsStored' = cogonsStored + 1
    /\ SetCall(t, [calls[t] EXCEPT !.pc = "write", !.cogon = stamp + 1])
    /\ NothingPushed

\* remember, from its projection on: in one step in memory.
Remembered(t) ==
    /\ stamp' = stamp + 1
    /\ IF storeKind = "memory"
       THEN Rpush(stamp + 1) /\ cogonsStored' = cogonsStored + 1 /\ SetCall(t, NoRequest)
       ELSE /\ SetCall(t, [calls[t] EXCEPT !.pc = "write", !.cogon = stamp + 1])
            /\ NothingPushed /\ UNCHANGED cogonsStored

RememberProjected(t) ==
    /\ At(t, "project") /\ calls[t].op = "remember"
    /\ Remembered(t)
    /\ UNCHANGED <<projector, sessions, chatNo, overlapped>> /\ GoesOn

\* chat_stream stores the text before it recalls its context, and never the
\* answer.  recall, encode and decode only read.
StreamProjected(t) ==
    /\ At(t, "project") /\ calls[t].op = "stream"
    /\ stamp' = stamp + 1
    /\ IF storeKind = "memory"
       THEN Rpush(stamp + 1) /\ SetCall(t, NoRequest)
       ELSE SetCall(t, [calls[t] EXCEPT !.pc = "write", !.cogon = stamp + 1]) /\ NothingPushed
    /\ UNCHANGED <<projector, sessions, chatNo, overlapped>> /\ StatsUnchanged /\ GoesOn

\* rpush, for remember and for chat_stream
Written(t) ==
    /\ At(t, "write")
    /\ Rpush(calls[t].cogon)
    /\ SetCall(t, IF calls[t].op = "stream" THEN NoRequest ELSE [calls[t] EXCEPT !.pc = "written"])
    /\ UNCHANGED <<projector, sessions, chatNo, stamp, overlapped>> /\ StatsUnchanged /\ GoesOn

RememberReturns(t) ==
    /\ At(t, "written")
    /\ cogonsStored' = cogonsStored + 1 /\ SetCall(t, NoRequest)
    /\ UNCHANGED <<projector, storedCogons, rows, sessions, chatNo, stamp, overlapped>> /\ GoesOn

\* The connection to Redis breaks: what was pushed stays.
RedisFails(t) ==
    /\ storeKind = "redis"
    /\ calls[t].pc \in {"recall", "query", "answer", "count", "write"}
    /\ RequestRaises(t)

\* new_session; the records of the old one stay where they are.
NewSession ==
    /\ chatNo < MaxChats
    /\ chatNo' = chatNo + 1
    /\ UNCHANGED <<projector, storedCogons, rows, sessions, calls, stamp, overlapped>> /\ StatsUnchanged /\ GoesOn

VmNext ==
    \/ NewSession
    \/ \E t \in VmTasks :
        \/ Chat(t) \/ Run(t) \/ ChatStream(t) \/ Remember(t)
        \/ Probed(t) \/ QueryProjected(t) \/ ProjectFails(t) \/ Recalled(t)
        \/ AgentAnswers(t) \/ AgentEchoes(t) \/ AgentFails(t) \/ ReplyProjected(t)
        \/ AddQuery(t) \/ AddResult(t) \/ ChatReturns(t)
        \/ RememberProjected(t) \/ StreamProjected(t)
        \/ Written(t) \/ RememberReturns(t) \/ RedisFails(t)

VmSpec == VmInit /\ [][VmNext]_vmVars

-----------------------------------------------------------------------------
(* Properties *)

\* The two cogons of an exchange, which may be one, stay together in their session, however the
\* requests overlap, and a session has nothing the store has not
\* (vm.py:97-100).
ExchangesWhole ==
    \A s \in DOMAIN sessions :
        /\ ToSet(sessions[s]) \subseteq storedCogons
        /\ \A i \in DOMAIN sessions[s] : i % 2 = 1 =>
            i < Len(sessions[s]) /\ sessions[s][i] <= sessions[s][i + 1]

\* The delta of a request, taken behind the last cogon, holds a cogon only when
\* requests overlapped in its session (vm.py:88).
DeltaOnlyIfOverlapped ==
    \A t \in VmTasks : calls[t].delta # {} => calls[t].session \in overlapped

\* The client never counts more records than a store in memory has
\* (client.py:50, 107).
CountNeverAhead == storeKind = "memory" => cogonsStored <= rows

LeetVmSound == ExchangesWhole /\ DeltaOnlyIfOverlapped /\ CountNeverAhead

\* "only what changed since last request in this session" (vm.py:85): a cogon
\* that a session got while the request was away is in the next delta.
DeltaHasNews ==
    \A t \in VmTasks : At(t, "agent") /\ Len(sessions[calls[t].session]) > 2 => calls[t].delta # {}
=============================================================================
