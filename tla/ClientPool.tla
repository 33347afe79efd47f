----------------------------- MODULE ClientPool -----------------------------
(***************************************************************************)
(* The pools of python/leet/client/pool.py: ClientPool hands its clients   *)
(* out in turn, StickyClientPool one per key, and a health loop looks at   *)
(* every client again and again.  One event loop runs everything: a step   *)
(* here is the code between two awaits.                                    *)
(*                                                                         *)
(* A PooledClient is an object that a request, or the sticky map, may      *)
(* still hold when the pool has been stopped: members keeps every object   *)
(* the pool ever made, pool the list the code calls _pool, by number.      *)
(***************************************************************************)
EXTENDS Naturals, Sequences, FiniteSets, SequencesExt

CONSTANTS
    PoolSize,      \* len(urls)
    MaxFailures,   \* max_failures
    PoolTasks,     \* the tasks that make requests
    PoolKeys,      \* the keys of acquire_sticky
    MaxMembers,    \* bound: the PooledClient objects made in a behaviour
    IndexCycle     \* bound: _current_index starts again from 0

\* _current_index is only used modulo the length of a list of at most PoolSize
\* clients: a common multiple of these lengths keeps every remainder.
ASSUME PoolAssumption ==
    /\ PoolSize \in Nat \ {0} /\ MaxFailures \in Nat \ {0} /\ MaxMembers \in Nat
    /\ IndexCycle \in Nat \ {0} /\ \A n \in 1..PoolSize : IndexCycle % n = 0

VARIABLES
    poolKind,    \* client_type
    poolPhase,   \* where start() and stop() are; _running outside "down" and "stopping"
    members,     \* the PooledClient objects, by number
    pool,        \* _pool
    poolIndex,   \* _current_index
    sticky,      \* _sticky_map, 0 for a key that is not in it
    holding,     \* the client a task has acquired, and by which key
    health,      \* the health loop: "none", "asleep", or the position it asked
    up           \* the servers that answer

poolVars == <<poolKind, poolPhase, members, pool, poolIndex, sticky, holding, health, up>>

Urls == 1..PoolSize
NoClient == [member |-> 0, key |-> "none"]
NoHealthTask == PoolSize + MaxMembers + 1
Asleep == 0

PoolTypeOK ==
    /\ poolKind \in {"grpc", "zmq"}
    /\ poolPhase \in {"down", "starting", "running", "stopping"}
    /\ members \in Seq([url : Urls, healthy : BOOLEAN, failures : Nat, open : BOOLEAN])
    /\ pool \in Seq(DOMAIN members)
    /\ poolIndex \in 0..IndexCycle - 1
    /\ sticky \in [PoolKeys -> 0..Len(members)]
    /\ holding \in [PoolTasks -> [member : 0..Len(members), key : PoolKeys \cup {"none"}]]
    /\ health \in {Asleep, NoHealthTask} \cup DOMAIN pool
    /\ up \subseteq Urls

PoolInit ==
    /\ poolKind \in {"grpc", "zmq"}
    /\ poolPhase = "down"
    /\ members = <<>>
    /\ pool = <<>>
    /\ poolIndex = 0
    /\ sticky = [k \in PoolKeys |-> 0]
    /\ holding = [t \in PoolTasks |-> NoClient]
    /\ health = NoHealthTask
    /\ up \in SUBSET Urls

-----------------------------------------------------------------------------
(* start() and stop() *)

PoolStart ==
    /\ poolPhase = "down"
    /\ Len(members) + PoolSize <= MaxMembers
    /\ poolPhase' = "starting"
    /\ UNCHANGED <<poolKind, members, pool, poolIndex, sticky, holding, health, up>>

\* start() goes through the urls in order; _pool tells how far it is.
Started == Len(pool) + 1

\* A gRPC channel gets ready only with a server; a ZeroMQ socket at once.
PoolConnect ==
    /\ poolPhase = "starting"
    /\ poolKind = "zmq" \/ Started \in up
    /\ members' = Append(members, [url |-> Started, healthy |-> TRUE, failures |-> 0, open |-> TRUE])
    /\ pool' = Append(pool, Len(members) + 1)
    /\ IF Started = PoolSize
       THEN poolPhase' = "running" /\ health' = Asleep
       ELSE UNCHANGED <<poolPhase, health>>
    /\ UNCHANGED <<poolKind, poolIndex, sticky, holding, up>>

\* The timeout of a channel: start() raises, and leaves the clients it has
\* connected in _pool, _running set and no health task.
PoolStartFails ==
    /\ poolPhase = "starting" /\ poolKind = "grpc" /\ Started \notin up
    /\ poolPhase' = "running"
    /\ UNCHANGED <<poolKind, members, pool, poolIndex, sticky, holding, health, up>>

\* stop() up to its first close: the health task is cancelled, wherever it is.
PoolStop ==
    /\ poolPhase = "running"
    /\ poolPhase' = "stopping"
    /\ health' = NoHealthTask
    /\ UNCHANGED <<poolKind, members, pool, poolIndex, sticky, holding, up>>

\* The clients of the pool are numbered in the order of _pool.
Before(m, S) == {k \in S : k < m}

\* Mutant of StillOpen: only the clients in rotation are closed.
StillOpenHealthy == {m \in Range(pool) : members[m].open /\ members[m].healthy}

StillOpen == {m \in Range(pool) : members[m].open}

\* Each close() is awaited; the clients stay in _pool until all are closed.
PoolClose ==
    /\ poolPhase = "stopping"
    /\ \E m \in StillOpen :
        /\ Before(m, StillOpen) = {}
        /\ members' = [members EXCEPT ![m].open = FALSE]
    /\ UNCHANGED <<poolKind, poolPhase, pool, poolIndex, sticky, holding, health, up>>

\* _pool.clear(): _sticky_map and _current_index stay as they are.
Cleared == <<>>

PoolStopped ==
    /\ poolPhase = "stopping" /\ StillOpen = {}
    /\ poolPhase' = "down"
    /\ pool' = Cleared
    /\ UNCHANGED <<poolKind, members, poolIndex, sticky, holding, health, up>>

-----------------------------------------------------------------------------
(* Requests *)

Healthy == {m \in Range(pool) : members[m].healthy}

\* _get_next_client: the turn is taken over the healthy clients only.
NextClient == {m \in Healthy : Cardinality(Before(m, Healthy)) = poolIndex % Cardinality(Healthy)}

Acquire(t) ==
    /\ holding[t] = NoClient
    /\ \E m \in NextClient : holding' = [holding EXCEPT ![t] = [member |-> m, key |-> "none"]]
    /\ poolIndex' = (poolIndex + 1) % IndexCycle
    /\ UNCHANGED <<poolKind, poolPhase, members, pool, sticky, health, up>>

\* _get_client_for_key: hash(key) picks among the clients healthy at the
\* first use of the key, here any of them; afterwards the map decides alone.
ClientsForKey(k) == IF sticky[k] = 0 THEN Healthy ELSE {sticky[k]}

AcquireSticky(t, k) ==
    /\ holding[t] = NoClient /\ Healthy # {}
    /\ \E m \in ClientsForKey(k) :
        /\ sticky' = [sticky EXCEPT ![k] = m]
        /\ holding' = [holding EXCEPT ![t] = [member |-> m, key |-> k]]
    /\ UNCHANGED <<poolKind, poolPhase, members, pool, poolIndex, health, up>>

\* An operation that returns, or that is cancelled, changes no count.
Release(t) ==
    /\ holding[t] # NoClient
    /\ holding' = [holding EXCEPT ![t] = NoClient]
    /\ UNCHANGED <<poolKind, poolPhase, members, pool, poolIndex, sticky, health, up>>

\* An exception counts against the client, and marks it at max_failures.  The
\* count ends at MaxFailures: what is above makes no difference.
Failed(c) == [c EXCEPT !.failures = IF @ < MaxFailures THEN @ + 1 ELSE @,
                       !.healthy = @ /\ c.failures + 1 < MaxFailures]

\* acquire_sticky takes its key out of the map when its own request was the
\* one that reached max_failures.
StickyAfter(k, c) ==
    IF k \in PoolKeys /\ c.failures + 1 >= MaxFailures THEN [sticky EXCEPT ![k] = 0] ELSE sticky

RequestFails(t) ==
    LET m == holding[t].member
    IN  /\ m # 0
        /\ holding' = [holding EXCEPT ![t] = NoClient]
        /\ members' = [members EXCEPT ![m] = Failed(@)]
        /\ sticky' = StickyAfter(holding[t].key, members[m])
        /\ UNCHANGED <<poolKind, poolPhase, pool, poolIndex, health, up>>

-----------------------------------------------------------------------------
(* The health loop *)

\* Mutant of Checked: a good answer leaves the failures.
CheckedKeeping(c, ok) == [c EXCEPT !.healthy = ok]

\* Mutant of Checked: a good answer only forgets the failures.
CheckedForgetting(c, ok) == IF ok THEN [c EXCEPT !.failures = 0] ELSE [c EXCEPT !.healthy = FALSE]

\* "status" == "ok" sets the client back, anything else marks it and leaves
\* its failures.  GrpcClient.health_check turns every exception into "error".
Checked(c, ok) == IF ok THEN [c EXCEPT !.healthy = TRUE, !.failures = 0]
                        ELSE [c EXCEPT !.healthy = FALSE]

\* A ZeroMQ client has no health_check and is taken for healthy: the whole
\* pass is one step.  A gRPC client is asked, from the first one on.
HealthWakes ==
    /\ health = Asleep
    /\ IF poolKind = "zmq"
       THEN /\ members' = [m \in DOMAIN members |->
                             IF m \in Range(pool) THEN Checked(members[m], TRUE) ELSE members[m]]
            /\ UNCHANGED health
       ELSE health' = 1 /\ UNCHANGED members
    /\ UNCHANGED <<poolKind, poolPhase, pool, poolIndex, sticky, holding, up>>

\* The answer, and the question to the next client of the list.
HealthAnswers ==
    /\ health \in DOMAIN pool
    /\ members' = [members EXCEPT ![pool[health]] = Checked(@, @.url \in up)]
    /\ health' = IF health = Len(pool) THEN Asleep ELSE health + 1
    /\ UNCHANGED <<poolKind, poolPhase, pool, poolIndex, sticky, holding, up>>

\* A server comes or goes.
ServerTurns(u) ==
    /\ up' = IF u \in up THEN up \ {u} ELSE up \cup {u}
    /\ UNCHANGED <<poolKind, poolPhase, members, pool, poolIndex, sticky, holding, health>>

PoolNext ==
    \/ PoolStart \/ PoolConnect \/ PoolStartFails
    \/ PoolStop \/ PoolClose \/ PoolStopped
    \/ HealthWakes \/ HealthAnswers
    \/ \E t \in PoolTasks :
        \/ Acquire(t) \/ Release(t) \/ RequestFails(t)
        \/ \E k \in PoolKeys : AcquireSticky(t, k)
    \/ \E u \in Urls : ServerTurns(u)

\* The event loop runs the health loop whenever its timer or its answer is due.
PoolFairness == WF_poolVars(HealthWakes) /\ WF_poolVars(HealthAnswers)

PoolSpec == PoolInit /\ [][PoolNext]_poolVars /\ PoolFairness

-----------------------------------------------------------------------------
(* Properties *)

\* A client with max_failures failures is out of the rotation, however the
\* answers of health checks asked before the failures fall between them
\* (pool.py:175 and :204).
FailuresTrip == \A m \in DOMAIN members : members[m].failures >= MaxFailures => ~members[m].healthy

\* A pool that is down has closed every client it ever connected, those of a
\* start() that failed half way included (pool.py:94 and :111).
DownMeansClosed == poolPhase = "down" => \A m \in DOMAIN members : ~members[m].open

\* An unhealthy client of a pool with a health loop does not stay so beside a
\* server that answers: it is asked again and taken back (pool.py:196).
TakenBack ==
    \A m \in 1..MaxMembers :
        (m \in Range(pool) /\ ~members[m].healthy /\ health # NoHealthTask)
            ~> (\/ m \notin Range(pool) \/ health = NoHealthTask
                \/ members[m].healthy \/ members[m].url \notin up)
=============================================================================
