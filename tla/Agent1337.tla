----------------------------- MODULE Agent1337 -----------------------------
(***************************************************************************)
(* Agent1337 of python/leet/client/agent.py over the DEALER socket of its  *)
(* ZmqClient (zmq_client.py).  start() connects, performs the C5 handshake *)
(* and sends COGON_ZERO; other tasks send and query meanwhile, since no    *)
(* operation looks at the state of the agent.                              *)
(*                                                                         *)
(* A step is the code between two awaits that really wait: a send on a     *)
(* socket with room does not.  Only a SUB or PULL socket gets a receive    *)
(* loop in ZmqClient.connect: nothing reads the messages that arrive at an *)
(* agent after its handshake, and the handler start() registers is never   *)
(* called.  start() and stop() do not overlap.                             *)
(***************************************************************************)
EXTENDS Naturals, Sequences, SequencesExt, FiniteSets

CONSTANTS
    Queries,     \* the tasks that call send_query
    Readers,     \* the tasks that iterate over receive()
    MaxHistory,  \* max_history
    MaxSent,     \* bound: the messages sent in a behaviour
    MaxSessions  \* bound: the calls of start()

ASSUME AgentAssumption ==
    /\ MaxHistory \in Nat \ {0} /\ MaxSent \in Nat /\ MaxSessions \in Nat
    /\ Queries \cap Readers = {}

VARIABLES
    agentState, \* state
    socket,     \* _zmq_client: "none", or its socket "open" or "closed"
    phase,      \* where start() or stop() is
    listening,  \* _running
    verified,   \* _c5_verified
    inbox,      \* what has arrived on the socket
    history,    \* _history, by message number
    wire,       \* the messages sent over the socket, in order
    handlers,   \* _message_handlers
    query,      \* of each send_query: "none", "waiting", "ended"
    iterator,   \* of each receive(): "none", "waiting"
    session,    \* history: the number of this start()
    sentCount,  \* history: the messages sent
    early,      \* history: a message went out on a socket of an agent that was not active
    confirmed,  \* history: the sessions whose peer has verified
    c5          \* c5_enabled

agentVars == <<agentState, socket, phase, listening, verified, inbox, history, wire, handlers,
               query, iterator, session, sentCount, early, confirmed, c5>>

Arrivals == {"HANDSHAKE_ECHO", "verify success", "verify failure", "MSG_1337"}
Broadcast == "broadcast"
Named == "BROADCAST"
Peer == "peer"
Kinds == {"COGON_ZERO", "ASSERT", "QUERY", "DELTA", "ANOMALY", "ACK"}

AgentTypeOK ==
    /\ agentState \in {"init", "connecting", "handshake", "active", "error", "disconnected"}
    /\ socket \in {"none", "open", "closed"}
    /\ phase \in {"idle", "echo", "verify", "stopping"}
    /\ listening \in BOOLEAN /\ verified \in BOOLEAN /\ early \in BOOLEAN
    /\ \A n \in DOMAIN inbox : inbox[n] \in Arrivals
    /\ history \in Seq(1..MaxSent) /\ Len(history) <= MaxHistory
    /\ \A n \in DOMAIN wire : /\ wire[n].number \in 1..MaxSent /\ wire[n].session \in 1..MaxSessions
                              /\ wire[n].kind \in Kinds /\ wire[n].to \in {Broadcast, Named, Peer}
    /\ handlers \subseteq Queries \cup Readers
    /\ query \in [Queries -> {"none", "waiting", "ended"}]
    /\ iterator \in [Readers -> {"none", "waiting"}]
    /\ session \in 0..MaxSessions /\ sentCount \in 0..MaxSent
    /\ confirmed \subseteq 1..MaxSessions /\ c5 \in BOOLEAN

AgentInit ==
    /\ agentState = "init" /\ socket = "none" /\ phase = "idle"
    /\ listening = FALSE /\ verified = FALSE
    /\ inbox = <<>> /\ history = <<>> /\ wire = <<>> /\ handlers = {}
    /\ query = [q \in Queries |-> "none"] /\ iterator = [r \in Readers |-> "none"]
    /\ session = 0 /\ sentCount = 0 /\ early = FALSE /\ confirmed = {} /\ c5 \in BOOLEAN

-----------------------------------------------------------------------------
(* Sending *)

\* _history keeps the newest messages.
Trimmed(h) == IF Len(h) > MaxHistory THEN Tail(h) ELSE h

Transmit(kind, to, n) ==
    /\ sentCount < MaxSent
    /\ sentCount' = sentCount + 1
    /\ history' = Trimmed(Append(history, sentCount + 1))
    /\ wire' = IF socket' = "open"
               THEN Append(wire, [number |-> sentCount + 1, session |-> n, kind |-> kind, to |-> to])
               ELSE wire

\* _send_message, whatever the state of the agent: without a client the message is
\* only kept; with a closed one the send raises, and nothing changes.
Send(kind, to) ==
    /\ socket # "closed"
    /\ UNCHANGED <<agentState, socket, phase, listening, verified, inbox, iterator, session, confirmed, c5>>
    /\ Transmit(kind, to, session)
    /\ early' = (early \/ (socket = "open" /\ agentState # "active"))

SendAssert(to) == Send("ASSERT", to) /\ UNCHANGED <<handlers, query>>
SendDelta(to) == Send("DELTA", to) /\ UNCHANGED <<handlers, query>>

\* The receiver "BROADCAST" is the id of an agent: is_broadcast() is false of it.
SendAnomaly == Send("ANOMALY", Named) /\ UNCHANGED <<handlers, query>>
SendAck == Send("ACK", Peer) /\ UNCHANGED <<handlers, query>>

\* send_query up to its wait, with a handler of its own.
SendQuery(q) ==
    /\ query[q] = "none"
    /\ Send("QUERY", Peer)
    /\ query' = [query EXCEPT ![q] = "waiting"]
    /\ handlers' = handlers \cup {q}

HandlersAfter(q) == handlers \ {q}

\* The timeout, or the cancellation of the task.
QueryEnds(q) ==
    /\ query[q] = "waiting"
    /\ query' = [query EXCEPT ![q] = "ended"]
    /\ handlers' = HandlersAfter(q)
    /\ UNCHANGED <<agentState, socket, phase, listening, verified, inbox, history, wire, iterator,
                   session, sentCount, early, confirmed, c5>>

-----------------------------------------------------------------------------
(* start() *)

\* The end of start(): the agent is active and announces itself, for other agents
\* to see: the receiver "BROADCAST" is the id of an agent to is_broadcast().
Announce(n) ==
    /\ agentState' = "active" /\ phase' = "idle" /\ listening' = TRUE
    /\ Transmit("COGON_ZERO", Named, n)
    /\ UNCHANGED early

\* A new client.  A socket that a failed handshake has left is forgotten open.
Begins == phase = "idle" /\ ~listening /\ session < MaxSessions /\ session' = session + 1 /\ inbox' = <<>>

\* start() without the handshake is one step.
StartDirect ==
    /\ ~c5 /\ Begins /\ socket' = "open"
    /\ Announce(session + 1)
    /\ UNCHANGED <<verified, handlers, query, iterator, confirmed, c5>>

\* The PROBE goes out, and the ECHO is awaited.
StartHandshake ==
    /\ c5 /\ Begins /\ socket' = "open"
    /\ agentState' = "handshake" /\ phase' = "echo"
    /\ UNCHANGED <<listening, verified, history, wire, handlers, query, iterator, sentCount, early, confirmed, c5>>

\* The url is refused by the socket.
StartFails ==
    /\ Begins /\ socket' = "closed" /\ agentState' = "error"
    /\ UNCHANGED <<phase, listening, verified, history, wire, handlers, query, iterator, sentCount, early, confirmed, c5>>

\* recv() of the handshake takes whatever has arrived; any other message than
\* the ECHO makes start() raise, and leaves state and socket as they are.
Echo ==
    /\ phase = "echo" /\ inbox # <<>>
    /\ inbox' = Tail(inbox)
    /\ phase' = IF Head(inbox) = "HANDSHAKE_ECHO" THEN "verify" ELSE "idle"
    /\ UNCHANGED <<agentState, socket, listening, verified, history, wire, handlers, query,
                   iterator, session, sentCount, early, confirmed, c5>>

\* Mutant of VerifiedBy: a VERIFY is taken for a success.
VerifiedByAny(m) == IF m \in {"verify success", "verify failure"} THEN TRUE ELSE verified

\* _c5_verified is what it was before when the message is no VERIFY.
VerifiedBy(m) == IF m = "verify success" THEN TRUE ELSE IF m = "verify failure" THEN FALSE ELSE verified

Verify ==
    /\ phase = "verify" /\ inbox # <<>>
    /\ UNCHANGED <<socket, handlers, query, iterator, session, c5>>
    /\ inbox' = Tail(inbox)
    /\ verified' = VerifiedBy(Head(inbox))
    /\ confirmed' = IF Head(inbox) = "verify success" THEN confirmed \cup {session} ELSE confirmed
    /\ IF VerifiedBy(Head(inbox))
       THEN Announce(session)
       ELSE phase' = "idle" /\ UNCHANGED <<agentState, listening, history, wire, sentCount, early>>

\* receive_timeout, 5 s, passes before c5_timeout: start() raises zmq.Again.
HandshakeTimesOut ==
    /\ phase \in {"echo", "verify"} /\ inbox = <<>>
    /\ phase' = "idle"
    /\ UNCHANGED <<agentState, socket, listening, verified, inbox, history, wire, handlers, query,
                   iterator, session, sentCount, early, confirmed, c5>>

-----------------------------------------------------------------------------
(* stop() *)

\* stop() waits for the receive loop it has cancelled, which only sleeps.
Stop ==
    /\ phase = "idle" /\ session > 0 /\ agentState # "disconnected"
    /\ listening' = FALSE /\ phase' = "stopping"
    /\ UNCHANGED <<agentState, socket, verified, inbox, history, wire, handlers, query, iterator,
                   session, sentCount, early, confirmed, c5>>

Stopped ==
    /\ phase = "stopping"
    /\ phase' = "idle" /\ agentState' = "disconnected" /\ socket' = "closed" /\ inbox' = <<>>
    /\ UNCHANGED <<listening, verified, history, wire, handlers, query, iterator, session, sentCount, early, confirmed, c5>>

-----------------------------------------------------------------------------
\* receive(): an agent that does not run ends the iterator at once; one that does
\* makes it wait for the queue, from then on without a look at _running.
Iterate(r) ==
    /\ iterator[r] = "none" /\ listening
    /\ iterator' = [iterator EXCEPT ![r] = "waiting"]
    /\ handlers' = handlers \cup {r}
    /\ UNCHANGED <<agentState, socket, phase, listening, verified, inbox, history, wire, query,
                   session, sentCount, early, confirmed, c5>>

\* The task that iterates is cancelled.
IterateEnds(r) ==
    /\ iterator[r] = "waiting"
    /\ iterator' = [iterator EXCEPT ![r] = "none"]
    /\ handlers' = HandlersAfter(r)
    /\ UNCHANGED <<agentState, socket, phase, listening, verified, inbox, history, wire, query,
                   session, sentCount, early, confirmed, c5>>

\* The peer sends; the socket keeps what nobody reads.
Arrives(m) ==
    /\ socket = "open" /\ Len(inbox) < 2
    /\ inbox' = Append(inbox, m)
    /\ UNCHANGED <<agentState, socket, phase, listening, verified, history, wire, handlers, query,
                   iterator, session, sentCount, early, confirmed, c5>>

AgentNext ==
    \/ StartDirect \/ StartHandshake \/ StartFails \/ Echo \/ Verify \/ HandshakeTimesOut
    \/ Stop \/ Stopped \/ SendAnomaly \/ SendAck
    \/ \E to \in {Broadcast, Peer} : SendAssert(to) \/ SendDelta(to)
    \/ \E q \in Queries : SendQuery(q) \/ QueryEnds(q)
    \/ \E r \in Readers : Iterate(r) \/ IterateEnds(r)
    \/ \E m \in Arrivals : Arrives(m)

AgentSpec == AgentInit /\ [][AgentNext]_agentVars

-----------------------------------------------------------------------------
(* Properties *)

\* COGON_ZERO is the first message of every session of an agent, restarts included,
\* unless a task sent over the socket of an agent that was not active (agent.py:203).
ZeroFirst ==
    ~early => \A n \in DOMAIN wire :
                 (n = 1 \/ wire[n - 1].session # wire[n].session) => wire[n].kind = "COGON_ZERO"

\* No agent that is to perform the handshake becomes active before a peer has
\* verified a session of it, whatever arrives in the handshake (agent.py:463).
Vouched == c5 /\ agentState = "active" => confirmed # {}

\* A handler is registered exactly as long as its query or iterator waits (agent.py:304).
HandlersExact ==
    handlers = {q \in Queries : query[q] = "waiting"} \cup {r \in Readers : iterator[r] = "waiting"}

AgentSound == ZeroFirst /\ Vouched /\ HandlersExact

\* Every agent transmits COGON_ZERO before any message (validate.py:309).
AnnouncedFirst == wire # <<>> => wire[1].kind = "COGON_ZERO"
=============================================================================
