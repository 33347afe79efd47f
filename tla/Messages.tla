------------------------------ MODULE Messages ------------------------------
(***************************************************************************)
(* MSG_1337 of the Python SDK: the DAG of python/leet/types.py with its    *)
(* cached topological order, and the rules of python/leet/validate.py,     *)
(* next to those of leet-core/src/validate.rs.                             *)
(*                                                                         *)
(* A message is a record of what the rules look at.  The nodes of a DAG    *)
(* are ids; all its COGONs are of the class the message names.             *)
(***************************************************************************)
EXTENDS Integers, Sequences, FiniteSets, Functions, Subsequences

CONSTANTS
    DagIds,    \* the ids of nodes
    MaxNodes,  \* bound: the nodes added to a DAG
    MaxEdges   \* bound: the edges added to it

ASSUME MessageAssumption ==
    MaxNodes \in Nat /\ MaxEdges \in Nat /\ {"KeyError", "ValueError"} \cap DagIds = {}

VARIABLES
    dagNodes,   \* nodes: their ids, in the order of add_node
    dagEdges,   \* edges: pairs of ids, in the order of add_edge
    topoCache,  \* _topo_cache, as a sequence of at most one order
    msg         \* the rest of the message

messageVars == <<dagNodes, dagEdges, topoCache, msg>>

Intents == {"ASSERT", "QUERY", "DELTA", "SYNC", "ANOMALY", "ACK"}
Raws == {"none", "artifact", "evidence", "leaking"}

\* COGON_ZERO has 32 ones in the SDK and COGON_ZERO_SEM in the core.
Sems == {"ones", "COGON_ZERO_SEM", "near zero", "other"}

\* What the rules tell apart of the COGONs: nil is the id of COGON_ZERO; the
\* stamp may be 0, positive or negative; unc is high when its mean is above 0.8; depth
\* counts the parents nested in the raw content; the emergent zone is named by
\* its keys; aligned says what align_hash holds.
PlainMessage ==
    [payload |-> "dag", intent |-> "ASSERT", broadcast |-> FALSE, ref |-> FALSE, patch |-> FALSE,
     human |-> FALSE, urgency |-> TRUE, zone |-> {}, aligned |-> "nothing", nil |-> FALSE,
     sem |-> "other", inRange |-> TRUE, unc |-> "low", stamp |-> 1, raw |-> "none", depth |-> 0]

Envelopes ==
    [payload : {"cogon"}, intent : Intents, broadcast : BOOLEAN, ref : BOOLEAN, patch : BOOLEAN,
     human : BOOLEAN, urgency : BOOLEAN, zone : {{}}, aligned : {"nothing"}, nil : {FALSE},
     sem : {"other"}, inRange : {TRUE}, unc : {"low"}, stamp : {1}, raw : {"none"}, depth : {0}]

Payloads ==
    [payload : {"cogon"}, intent : {"ASSERT"}, broadcast : {FALSE}, ref : {FALSE}, patch : {FALSE},
     human : {FALSE}, urgency : {TRUE}, zone : {{}, {"name"}, {"31"}, {"32"}},
     aligned : {"nothing", "zeros", "hash"}, nil : BOOLEAN, sem : Sems, inRange : BOOLEAN, unc : {"zero", "low", "high"},
     stamp : {-1, 0, 1}, raw : Raws, depth : {0, 4, 5}]

MessageTypeOK ==
    /\ dagNodes \in Seq(DagIds) /\ dagEdges \in Seq(DagIds \X DagIds)
    /\ topoCache \in Seq(Seq(DagIds)) /\ Len(topoCache) <= 1
    /\ msg.intent \in Intents /\ msg.payload \in {"dag", "cogon"}

MessageInit ==
    /\ dagNodes = <<>> /\ dagEdges = <<>> /\ topoCache = <<>>
    /\ msg \in {PlainMessage} \cup Envelopes \cup Payloads

-----------------------------------------------------------------------------
(* Dag *)

Ids == Range(dagNodes)

\* Kahn's algorithm, after n turns of its loop: what is queued, the degrees that
\* are left and the order so far.  Each edge counts, however often it is there.
InDegree(id) == Cardinality({n \in DOMAIN dagEdges : dagEdges[n][2] = id})

\* The edges of the node are passed one after the other; the target of one that
\* takes the last of a degree is queued.
Visit(s) ==
    LET node == Head(s.queue)
        Passed(id) == {n \in DOMAIN dagEdges : dagEdges[n] = <<node, id>>}
        last == {n \in DOMAIN dagEdges :
                    /\ dagEdges[n][1] = node
                    /\ Cardinality({k \in Passed(dagEdges[n][2]) : k <= n}) = s.degree[dagEdges[n][2]]}
        freed == Keeping(dagEdges, last)
    IN  [queue |-> Tail(s.queue) \o [n \in DOMAIN freed |-> freed[n][2]],
         degree |-> [id \in Ids |-> s.degree[id] - Cardinality(Passed(id))],
         order |-> Append(s.order, node)]

Sources ==
    Keeping(dagNodes, {n \in DOMAIN dagNodes :
        InDegree(dagNodes[n]) = 0 /\ \A k \in 1..n - 1 : dagNodes[k] # dagNodes[n]})

Kahn ==
    LET run[n \in 0..Len(dagNodes)] ==
            IF n = 0 THEN [queue |-> Sources, degree |-> [id \in Ids |-> InDegree(id)], order |-> <<>>]
            ELSE IF run[n - 1].queue = <<>> THEN run[n - 1] ELSE Visit(run[n - 1])
    IN  run[Len(dagNodes)].order

\* topological_order: the cached order, a KeyError for an edge of an unknown
\* node, the order, or a ValueError.
Order ==
    IF topoCache # <<>> THEN topoCache[1]
    ELSE IF \E n \in DOMAIN dagEdges : dagEdges[n][1] \notin Ids \/ dagEdges[n][2] \notin Ids THEN <<"KeyError">>
    ELSE IF Len(Kahn) # Len(dagNodes) THEN <<"ValueError">>
    ELSE Kahn

Raises == Order \in {<<"KeyError">>, <<"ValueError">>}

AddNode(id) ==
    /\ Len(dagNodes) < MaxNodes /\ msg.payload = "dag"
    /\ dagNodes' = Append(dagNodes, id)
    /\ topoCache' = <<>>
    /\ UNCHANGED <<dagEdges, msg>>

\* Mutant of CacheAfterEdge: only a new node changes the order.
CacheKept == topoCache

CacheAfterEdge == <<>>

AddEdge(from, to) ==
    /\ Len(dagEdges) < MaxEdges /\ msg.payload = "dag"
    /\ dagEdges' = Append(dagEdges, <<from, to>>)
    /\ topoCache' = CacheAfterEdge
    /\ UNCHANGED <<dagNodes, msg>>

TopologicalOrder ==
    /\ msg.payload = "dag" /\ ~Raises
    /\ topoCache' = <<Order>>
    /\ UNCHANGED <<dagNodes, dagEdges, msg>>

MessageNext ==
    \/ \E id \in DagIds : AddNode(id)
    \/ \E from \in DagIds, to \in DagIds : AddEdge(from, to)
    \/ TopologicalOrder

MessageSpec == MessageInit /\ [][MessageNext]_messageVars

-----------------------------------------------------------------------------
(* validate.py: each rule, as what breaks it *)

IsDag == msg.payload = "dag"

BreaksR2 == IF msg.intent = "DELTA" THEN ~msg.ref \/ ~msg.patch ELSE msg.patch
BreaksR3 == IsDag /\ \E n \in DOMAIN dagEdges : dagEdges[n][1] \notin Ids \/ dagEdges[n][2] \notin Ids
BreaksR4 == IsDag /\ Order = <<"ValueError">>
BreaksR6 == msg.human /\ ~msg.urgency
BreaksR7 == msg.zone # {} /\ msg.aligned = "nothing"
BreaksR8 == msg.broadcast /\ msg.intent \notin {"ANOMALY", "SYNC"}
BreaksR9 == msg.raw = "evidence" /\ (msg.sem = "near zero" \/ msg.unc = "high")
BreaksR11 == "31" \in msg.zone
BreaksR14 ==
    IsDag /\ ~Raises
    /\ \E n \in DOMAIN Order, m \in DOMAIN dagEdges :
         dagEdges[m][2] = Order[n] /\ \A k \in 1..n - 1 : Order[k] # dagEdges[m][1]
BreaksR19 == msg.raw = "evidence" /\ msg.depth > 4
BreaksR20 == msg.nil /\ (msg.sem # "ones" \/ msg.unc # "zero" \/ msg.stamp # 0)
BreaksR21 == msg.raw = "leaking"

\* validate: R10, R12 and R17 hold of what the constructors build.
Accepts ==
    ~(\/ BreaksR2 \/ BreaksR3 \/ BreaksR4 \/ BreaksR6 \/ BreaksR7 \/ BreaksR8 \/ BreaksR9
      \/ BreaksR11 \/ BreaksR14 \/ BreaksR19 \/ BreaksR20 \/ BreaksR21)

\* validate.rs where it differs: a hash of zeros is none, evidence of any
\* uncertainty, emergent axes by Uuid, no depth, another COGON_ZERO and without raw,
\* values in range, no negative stamp.
CoreAccepts ==
    ~(\/ BreaksR2 \/ BreaksR3 \/ BreaksR4 \/ BreaksR6 \/ BreaksR8
      \/ msg.zone # {} /\ msg.aligned # "hash"
      \/ msg.raw = "evidence" /\ msg.sem = "near zero"
      \/ BreaksR14
      \/ msg.nil /\ ~(msg.stamp = 0 /\ msg.raw = "none" /\ msg.sem = "COGON_ZERO_SEM")
      \/ msg.raw = "leaking" \/ ~msg.inRange \/ msg.stamp < 0)

-----------------------------------------------------------------------------
(* Properties *)

\* Every set of nodes that is closed under parents of its own is a cycle's.
Acyclic == \A S \in (SUBSET Ids) \ {{}} :
              \E id \in S : \A n \in DOMAIN dagEdges : ~(dagEdges[n][2] = id /\ dagEdges[n][1] \in S)

\* Whatever was added since an order was cached, topological_order answers exactly
\* for a DAG without cycles and repeated ids, and its order is one of the nodes as
\* they are, with every edge pointing forward (types.py:211).
OrderExact ==
    IsDag /\ ~BreaksR3 =>
      /\ ~Raises <=> (Acyclic /\ IsInjective(dagNodes))
      /\ ~Raises => /\ Range(Order) = Ids /\ Len(Order) = Len(dagNodes)
                    /\ ~BreaksR14

\* What the core sees and the SDK does not, or sees otherwise.
CoreOnly ==
    ~msg.inRange \/ msg.stamp < 0 \/ (msg.zone # {} /\ msg.aligned = "zeros") \/ msg.nil

\* Of the messages the SDK accepts, leet-core rejects exactly those with a value out
\* of range, a negative stamp, a hash of zeros, or a COGON_ZERO, whose values are
\* others there (validate.py:9, validate.rs:16).
SdkWithinCore == Accepts => (CoreAccepts <=> ~CoreOnly)

MessagesSound == OrderExact /\ SdkWithinCore
=============================================================================
