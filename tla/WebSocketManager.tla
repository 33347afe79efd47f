--------------------------- MODULE WebSocketManager ---------------------------
(***************************************************************************)
(* python/leet/client/websocket_client.py, WebSocketManager: the clients it *)
(* registers under an id of its own making or of the caller's, the default  *)
(* one, and what connect, disconnect and broadcast do to the table around   *)
(* their awaits.  The id n stands for "client_n", which connect makes up    *)
(* for n < MaxConnects only: MaxConnects is a name of the caller's.         *)
(***************************************************************************)
EXTENDS Naturals, Sequences, SequencesExt, FiniteSets

CONSTANTS
    ManagerTasks,   \* coroutines that use the manager
    MaxConnects,    \* bound: clients made
    GivenIds        \* the client_ids callers give

ASSUME ManagerAssumption == MaxConnects \in Nat /\ GivenIds \subseteq 0..MaxConnects

VARIABLES
    table,      \* _clients, in the order of the dict: [id, client]
    default,    \* _default_client, or None
    open,       \* the clients whose connection is open
    made,       \* the clients made so far
    jobs,       \* each coroutine: where it is and its local variables
    overlaps    \* history: two calls were away at a time

managerVars == <<table, default, open, made, jobs, overlaps>>

Ids == 0..MaxConnects
None == MaxConnects + 1
Clients == 1..MaxConnects
Jobs == [pc : {"idle", "connecting", "closing", "closing all", "sending"}, id : Ids \cup {None},
         client : Clients \cup {0}, left : Seq(Clients), size : Nat]
NoJob == [pc |-> "idle", id |-> None, client |-> 0, left |-> <<>>, size |-> 0]

ManagerTypeOK ==
    /\ table \in Seq([id : Ids, client : Clients]) /\ IsInjective([i \in DOMAIN table |-> table[i].id])
    /\ default \in Ids \cup {None} /\ open \subseteq Clients /\ made \in 0..MaxConnects
    /\ jobs \in [ManagerTasks -> Jobs]
    /\ overlaps \in BOOLEAN

ManagerInit ==
    /\ table = <<>> /\ default = None /\ open = {} /\ made = 0
    /\ jobs = [t \in ManagerTasks |-> NoJob] /\ overlaps = FALSE

Registered == {table[i].id : i \in DOMAIN table}

\* Mutant of With: every connection gets an entry of its own.
WithAppended(id, c) == Append(table, [id |-> id, client |-> c])

\* An id that is there keeps its place in the dict.
With(id, c) ==
    IF id \in Registered THEN [i \in DOMAIN table |-> IF table[i].id = id THEN [id |-> id, client |-> c] ELSE table[i]]
    ELSE Append(table, [id |-> id, client |-> c])

Set(t, job) == jobs' = [jobs EXCEPT ![t] = job]
Busy == {t \in ManagerTasks : jobs[t].pc # "idle"}
Goes(t) == overlaps' = (overlaps \/ Busy \ {t} # {})

-----------------------------------------------------------------------------
(* connect *)

\* Without a client_id the id is taken from the size of the table, before the
\* connection is made.
NewId == Len(table)

BeginConnect(t) ==
    /\ jobs[t].pc = "idle" /\ made < MaxConnects
    /\ made' = made + 1
    /\ \E id \in {NewId} \cup GivenIds :
         Set(t, [NoJob EXCEPT !.pc = "connecting", !.id = id, !.client = made + 1])
    /\ Goes(t) /\ UNCHANGED <<table, default, open>>

Default(id) == IF default = None THEN id ELSE default

Registers(t) ==
    /\ jobs[t].pc = "connecting"
    /\ open' = open \cup {jobs[t].client}
    /\ table' = With(jobs[t].id, jobs[t].client)
    /\ default' = Default(jobs[t].id)
    /\ Set(t, NoJob) /\ UNCHANGED <<made, overlaps>>

ConnectFails(t) ==
    /\ jobs[t].pc = "connecting"
    /\ Set(t, NoJob) /\ UNCHANGED <<table, default, open, made, overlaps>>

-----------------------------------------------------------------------------
(* disconnect *)

\* Mutant of DefaultWithout: the default stays.
DefaultWithoutKept(id) == default

\* next(iter(_clients), None), once the client is closed.
DefaultWithout(id) ==
    IF default # id THEN default ELSE IF table = <<>> THEN None ELSE table[1].id

\* pop, and then the await of close.
Disconnect(t) ==
    /\ jobs[t].pc = "idle"
    /\ \E i \in DOMAIN table :
        /\ table' = RemoveAt(table, i)
        /\ Set(t, [NoJob EXCEPT !.pc = "closing", !.id = table[i].id, !.client = table[i].client])
    /\ Goes(t) /\ UNCHANGED <<default, open, made>>

Disconnected(t) ==
    /\ jobs[t].pc = "closing"
    /\ open' = open \ {jobs[t].client}
    /\ default' = DefaultWithout(jobs[t].id)
    /\ Set(t, NoJob) /\ UNCHANGED <<table, made, overlaps>>

\* No client has the id, or disconnect() finds none at all: nothing is awaited.
\* That changes something only while the default is being disconnected.
DisconnectNone(t) ==
    /\ jobs[t].pc = "idle" /\ default \notin Registered \cup {None}
    /\ default' = DefaultWithout(default)
    /\ UNCHANGED <<table, open, made, jobs, overlaps>>

\* disconnect(): one close after the other, and only then clear.
DisconnectAll(t) ==
    /\ jobs[t].pc = "idle" /\ table # <<>>
    /\ Set(t, [NoJob EXCEPT !.pc = "closing all", !.left = [i \in DOMAIN table |-> table[i].client]])
    /\ Goes(t) /\ UNCHANGED <<table, default, open, made>>

ClosesOne(t) ==
    /\ jobs[t].pc = "closing all"
    /\ open' = open \ {Head(jobs[t].left)}
    /\ IF Len(jobs[t].left) > 1
       THEN Set(t, [jobs[t] EXCEPT !.left = Tail(@)]) /\ UNCHANGED <<table, default>>
       ELSE Set(t, NoJob) /\ table' = <<>> /\ default' = None
    /\ UNCHANGED <<made, overlaps>>

-----------------------------------------------------------------------------
(* broadcast *)

Broadcast(t) ==
    /\ jobs[t].pc = "idle" /\ table # <<>>
    /\ Set(t, [NoJob EXCEPT !.pc = "sending", !.size = Len(table), !.id = 0])
    /\ Goes(t) /\ UNCHANGED <<table, default, open, made>>

\* A send returns, and the loop goes on to the next of the table, which by then
\* must have its size: otherwise the iteration raises.
SendsOne(t) ==
    /\ jobs[t].pc = "sending"
    /\ Set(t, IF Len(table) # jobs[t].size \/ jobs[t].id + 1 >= jobs[t].size THEN NoJob
              ELSE [jobs[t] EXCEPT !.id = @ + 1])
    /\ UNCHANGED <<table, default, open, made, overlaps>>

ManagerNext ==
    \E t \in ManagerTasks :
        \/ BeginConnect(t) \/ Registers(t) \/ ConnectFails(t)
        \/ Disconnect(t) \/ Disconnected(t) \/ DisconnectNone(t) \/ DisconnectAll(t) \/ ClosesOne(t)
        \/ Broadcast(t) \/ SendsOne(t)

ManagerSpec == ManagerInit /\ [][ManagerNext]_managerVars

-----------------------------------------------------------------------------
(* Properties *)

\* Whenever no call is away and some client is registered, the default is one
\* of the registered (websocket_client.py:507, 530), however the calls
\* overlapped.
DefaultRegistered == Busy = {} => (default \in Registered \/ (default = None /\ table = <<>>))

\* As long as no two calls were away at a time, every client of the table is
\* open: a client that is closed is never found there, an id that is given
\* twice included (websocket_client.py:501, 522-529).
TableIsOpen == (Busy = {} /\ ~overlaps) => \A i \in DOMAIN table : table[i].client \in open

ManagerSound == DefaultRegistered /\ TableIsOpen

\* "Connects and registers a client": a connection that is open can be found,
\* and so closed.  The id of a new client may be one that is taken.
NoneForgotten == Busy = {} => open \subseteq {table[i].client : i \in DOMAIN table}
=============================================================================
