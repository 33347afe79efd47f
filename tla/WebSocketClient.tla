-------------------------- MODULE WebSocketClient --------------------------
(***************************************************************************)
(* WebSocketClient of python/leet/client/websocket_client.py.  connect()   *)
(* starts a receive loop and a heartbeat loop; when the connection is lost *)
(* either of them closes it and connects again, which starts two new       *)
(* loops.  close() cancels the two loops the client knows of at the time.  *)
(*                                                                         *)
(* A step is the code between two awaits.  The n-th connection, the loops  *)
(* it started and its socket share the number n; the caller is task 0.     *)
(***************************************************************************)
EXTENDS Naturals, FiniteSets

CONSTANTS
    MaxReconnects,  \* max_reconnects
    AutoReconnect   \* auto_reconnect

ASSUME WsAssumption == MaxReconnects \in Nat /\ AutoReconnect \in BOOLEAN

VARIABLES
    wsState,     \* _state
    websocket,   \* _websocket: the number of a connection, 0 for None
    sockets,     \* of each connection: "none", "open", "lost" (1006) or "closed" (1000)
    at,          \* where each task is
    on,          \* the connection a receive loop awaits a message of, or a PING went out on
    shuts,       \* the connection each task closes and waits for, 0 for none
    reconnects,  \* _stats.reconnects
    closing,     \* where close() is
    awaited,     \* the tasks close() has cancelled and waits for
    overlap,     \* history: two tasks were reconnecting at a time
    astray       \* history: a task was reconnecting while close() was under way

wsVars == <<wsState, websocket, sockets, at, on, shuts, reconnects, closing, awaited, overlap, astray>>

Connection == 1..MaxReconnects + 1
Caller == <<"caller", 0>>
Receiver(n) == <<"receive", n>>
Heartbeat(n) == <<"heartbeat", n>>
Receivers == {Receiver(n) : n \in Connection}
Heartbeats == {Heartbeat(n) : n \in Connection}
WsTasks == {Caller} \cup Receivers \cup Heartbeats

Connected == wsState = "CONNECTED" /\ websocket # 0
Opened == {n \in Connection : sockets[n] # "none"}
Reconnecting == {p \in WsTasks : at[p] \in {"closing", "sleep", "dial"}}

WsTypeOK ==
    /\ wsState \in {"DISCONNECTED", "CONNECTING", "CONNECTED", "RECONNECTING", "CLOSED"}
    /\ websocket \in {0} \cup Opened
    /\ sockets \in [Connection -> {"none", "open", "lost", "closed"}]
    /\ at \in [WsTasks -> {"none", "recv", "spin", "nap", "ping", "closing", "sleep", "dial", "done"}]
    /\ on \in [Receivers \cup Heartbeats -> {0} \cup Connection]
    /\ shuts \in [WsTasks -> {0} \cup Connection]
    /\ reconnects \in 0..MaxReconnects
    /\ closing \in {"none", "heartbeat", "receive", "socket", "returned"}
    /\ awaited \subseteq Receivers \cup Heartbeats
    /\ overlap \in BOOLEAN /\ astray \in BOOLEAN

WsInit ==
    /\ wsState = "DISCONNECTED" /\ websocket = 0
    /\ sockets = [n \in Connection |-> "none"]
    /\ at = [p \in WsTasks |-> "none"]
    /\ on = [p \in Receivers \cup Heartbeats |-> 0]
    /\ shuts = [p \in WsTasks |-> 0]
    /\ reconnects = 0 /\ closing = "none" /\ awaited = {} /\ overlap = FALSE /\ astray = FALSE

\* The history variables follow at and closing.
WsHistory ==
    LET busy == {p \in WsTasks : at'[p] \in {"closing", "sleep", "dial"}}
    IN  /\ overlap' = (overlap \/ Cardinality(busy) > 1)
        /\ astray' = (\/ astray
                      \/ closing' # "none" /\ closing # "returned" /\ busy # {})

-----------------------------------------------------------------------------
(* connect() and _reconnect() *)

\* The caller connects once; the rest is up to the loops.
Connect ==
    /\ at[Caller] = "none" /\ closing = "none"
    /\ wsState' = "CONNECTING"
    /\ at' = [at EXCEPT ![Caller] = "dial"]
    /\ UNCHANGED <<websocket, sockets, on, shuts, reconnects, closing, awaited>> /\ WsHistory

\* The new connection takes the place of the old one, and its loops that of
\* the loops close() knows of.
DialSucceeds(p) ==
    LET n == Cardinality(Opened) + 1
    IN  /\ at[p] = "dial"
        /\ wsState' = "CONNECTED" /\ websocket' = n
        /\ sockets' = [sockets EXCEPT ![n] = "open"]
        /\ at' = [at EXCEPT ![p] = "done", ![Receiver(n)] = "recv", ![Heartbeat(n)] = "nap"]
        /\ on' = [on EXCEPT ![Receiver(n)] = n]
        /\ UNCHANGED <<shuts, reconnects, closing, awaited>> /\ WsHistory

\* connect() counts and sleeps itself before it tries again.  When the count is
\* used up it raises, and so _reconnect, if that was the caller, gives up too.
DialFails(p) ==
    /\ at[p] = "dial"
    /\ wsState' = "DISCONNECTED"
    /\ IF AutoReconnect /\ reconnects < MaxReconnects
       THEN reconnects' = reconnects + 1 /\ at' = [at EXCEPT ![p] = "sleep"]
       ELSE UNCHANGED reconnects /\ at' = [at EXCEPT ![p] = "done"]
    /\ UNCHANGED <<websocket, sockets, on, shuts, closing, awaited>> /\ WsHistory

\* A loop whose connection has ended is told at once: it does not wait as long
\* as reconnect_delay.  connect() looks at nothing before it dials.
Noticed == \A n \in Connection : at[Receiver(n)] = "recv" => sockets[on[Receiver(n)]] = "open"

SleepEnds(p) ==
    /\ at[p] = "sleep" /\ Noticed
    /\ wsState' = "CONNECTING"
    /\ at' = [at EXCEPT ![p] = "dial"]
    /\ UNCHANGED <<websocket, sockets, on, shuts, reconnects, closing, awaited>> /\ WsHistory

\* _reconnect up to the close of the socket, and where it is not to reconnect.
Reconnect(p) ==
    IF AutoReconnect
    THEN /\ wsState' = "RECONNECTING"
         /\ at' = [at EXCEPT ![p] = "closing"] /\ shuts' = [shuts EXCEPT ![p] = websocket]
    ELSE UNCHANGED <<wsState, shuts>> /\ at' = [at EXCEPT ![p] = "done"]

\* Mutant of Budget: one attempt less than the settings allow.
BudgetShort == reconnects + 1 < MaxReconnects

Budget == reconnects < MaxReconnects

\* Mutant of Shut: the old connection is left open.
ShutNothing(c) == sockets

\* websocket.close(): the code 1000, which a reader takes for a normal end.
Shut(c) == [n \in Connection |->
              IF n = c /\ sockets[n] = "open" THEN "closed" ELSE sockets[n]]

\* The socket the client had when the close began is closed, whichever it has
\* by now, and the next attempt is counted.
ReconnectGoesOn(p) ==
    /\ at[p] = "closing"
    /\ sockets' = Shut(shuts[p]) /\ shuts' = [shuts EXCEPT ![p] = 0]
    /\ IF Budget
       THEN /\ reconnects' = reconnects + 1
            /\ at' = [at EXCEPT ![p] = "sleep"]
            /\ UNCHANGED wsState
       ELSE /\ wsState' = "DISCONNECTED"
            /\ at' = [at EXCEPT ![p] = "done"]
            /\ UNCHANGED reconnects
    /\ UNCHANGED <<websocket, on, closing, awaited>> /\ WsHistory

-----------------------------------------------------------------------------
(* The receive loop *)

\* A second recv() on a connection raises at once, which the loop reports and
\* tries again without ever giving way: a task in "spin" holds the event loop.
Reads(n, m) == \E o \in Connection \ {n} : at[Receiver(o)] = "recv" /\ on[Receiver(o)] = m

\* A message or a PONG; then the loop looks at connected and reads on, from
\* the connection the client has by then.
Receive(n) ==
    /\ at[Receiver(n)] = "recv" /\ sockets[on[Receiver(n)]] = "open"
    /\ at' = [at EXCEPT ![Receiver(n)] =
                IF ~Connected THEN "done" ELSE IF Reads(n, websocket) THEN "spin" ELSE "recv"]
    /\ on' = [on EXCEPT ![Receiver(n)] = IF Connected THEN websocket ELSE 0]
    /\ UNCHANGED <<wsState, websocket, sockets, shuts, reconnects, closing, awaited>> /\ WsHistory

ReceiveClosed(n) ==
    /\ at[Receiver(n)] = "recv" /\ sockets[on[Receiver(n)]] = "closed"
    /\ at' = [at EXCEPT ![Receiver(n)] = "done"]
    /\ on' = [on EXCEPT ![Receiver(n)] = 0]
    /\ UNCHANGED <<wsState, websocket, sockets, shuts, reconnects, closing, awaited>> /\ WsHistory

ReceiveLost(n) ==
    /\ at[Receiver(n)] = "recv" /\ sockets[on[Receiver(n)]] = "lost"
    /\ Reconnect(Receiver(n))
    /\ on' = [on EXCEPT ![Receiver(n)] = 0]
    /\ UNCHANGED <<websocket, sockets, reconnects, closing, awaited>> /\ WsHistory

-----------------------------------------------------------------------------
(* The heartbeat loop.  A PING goes out on the client's connection, or is lost *)
(* with it: send() reports the error and returns False, and ping() waits on.   *)

Ping(n) ==
    /\ at[Heartbeat(n)] = "nap"
    /\ at' = [at EXCEPT ![Heartbeat(n)] = IF Connected THEN "ping" ELSE "done"]
    /\ on' = [on EXCEPT ![Heartbeat(n)] = IF Connected /\ sockets[websocket] = "open" THEN websocket ELSE 0]
    /\ UNCHANGED <<wsState, websocket, sockets, shuts, reconnects, closing, awaited>> /\ WsHistory

Pong(n) ==
    /\ at[Heartbeat(n)] = "ping"
    /\ on[Heartbeat(n)] # 0 /\ sockets[on[Heartbeat(n)]] = "open"
    /\ \E m \in Connection : at[Receiver(m)] = "recv" /\ on[Receiver(m)] = on[Heartbeat(n)]
    /\ at' = [at EXCEPT ![Heartbeat(n)] = IF Connected THEN "nap" ELSE "done"]
    /\ on' = [on EXCEPT ![Heartbeat(n)] = 0]
    /\ UNCHANGED <<wsState, websocket, sockets, shuts, reconnects, closing, awaited>> /\ WsHistory

PingTimesOut(n) ==
    /\ at[Heartbeat(n)] = "ping"
    /\ Reconnect(Heartbeat(n))
    /\ on' = [on EXCEPT ![Heartbeat(n)] = 0]
    /\ UNCHANGED <<websocket, sockets, reconnects, closing, awaited>> /\ WsHistory

-----------------------------------------------------------------------------
(* close() *)

\* A cancelled task ends where it waits, but for the bare except around the
\* close of the socket in _reconnect: there the cancellation is swallowed.
Cancel(tasks) ==
    /\ at' = [p \in WsTasks |->
                IF p \in tasks /\ at[p] # "closing" THEN "done" ELSE at[p]]
    /\ awaited' = tasks

\* _heartbeat_task and _receive_task: the newest loops are the ones known.
Known(loop(_)) == IF Opened = {} THEN {} ELSE {loop(Cardinality(Opened))}
Ended == \A p \in awaited : at[p] = "done"

\* Without a connection there is nothing to cancel and nothing to wait for.
Close ==
    /\ closing = "none" /\ at[Caller] # "none"
    /\ wsState' = "CLOSED" /\ closing' = (IF websocket = 0 THEN "returned" ELSE "heartbeat")
    /\ Cancel(Known(Heartbeat))
    /\ UNCHANGED <<websocket, sockets, on, shuts, reconnects>> /\ WsHistory

CloseReceive ==
    /\ closing = "heartbeat" /\ Ended
    /\ closing' = "receive"
    /\ Cancel(Known(Receiver))
    /\ UNCHANGED <<wsState, websocket, sockets, on, shuts, reconnects>> /\ WsHistory

\* Mutant of Pending: the heartbeats that wait for a PONG are left to their timeouts.
PendingNone == {}

\* Cancelling the pending heartbeats ends the loops that wait for them, the
\* ones of earlier connections too.
Pending == {p \in Heartbeats : at[p] = "ping"}

CloseSocket ==
    /\ closing = "receive" /\ Ended
    /\ closing' = "socket"
    /\ Cancel(Pending)
    /\ shuts' = [shuts EXCEPT ![Caller] = websocket]
    /\ UNCHANGED <<wsState, websocket, sockets, on, reconnects>> /\ WsHistory

CloseReturns ==
    /\ closing = "socket"
    /\ closing' = "returned"
    /\ sockets' = Shut(shuts[Caller]) /\ shuts' = [shuts EXCEPT ![Caller] = 0]
    /\ UNCHANGED <<wsState, websocket, at, on, reconnects, awaited>> /\ WsHistory

-----------------------------------------------------------------------------
\* The network, or the server, ends a connection.
Lose(n, how) ==
    /\ sockets[n] = "open"
    /\ sockets' = [sockets EXCEPT ![n] = how]
    /\ UNCHANGED <<wsState, websocket, at, on, shuts, reconnects, closing, awaited>> /\ WsHistory

\* A task that spins does not give way: nothing else runs any more.
WsStep(p) == DialSucceeds(p) \/ DialFails(p) \/ SleepEnds(p) \/ ReconnectGoesOn(p)
WsLoop(n) == \/ ReceiveClosed(n) \/ ReceiveLost(n) \/ Ping(n) \/ PingTimesOut(n)
Spinning == \E p \in WsTasks : at[p] = "spin"

WsNext ==
    /\ ~Spinning
    /\ \/ Connect \/ Close \/ CloseReceive \/ CloseSocket \/ CloseReturns
       \/ \E p \in WsTasks : WsStep(p)
       \/ \E n \in Connection : WsLoop(n) \/ Receive(n) \/ Pong(n) \/ Lose(n, "lost") \/ Lose(n, "closed")

\* The event loop serves every timer, and every end of a connection.
WsFairness ==
    /\ \A p \in WsTasks : WF_wsVars(~Spinning /\ WsStep(p))
    /\ \A n \in Connection : WF_wsVars(~Spinning /\ WsLoop(n))

WsSpec == WsInit /\ [][WsNext]_wsVars /\ WsFairness

-----------------------------------------------------------------------------
(* Properties *)

\* As long as no two tasks ever reconnected at the same time, the client has
\* one connection open, one loop reads it, and no loop spins
\* (websocket_client.py:412 and :430).
OneConnection ==
    ~overlap => /\ Cardinality({n \in Connection : sockets[n] = "open"}) <= 1
                /\ Cardinality({n \in Connection : at[Receiver(n)] = "recv" /\ sockets[on[Receiver(n)]] = "open"}) <= 1
                /\ ~Spinning

\* A client whose close() ran while no task reconnected stays closed, whatever
\* the loops it does not know of were at (websocket_client.py:209).
StaysClosed ==
    closing = "returned" /\ ~astray /\ ~overlap => wsState = "CLOSED" /\ Reconnecting = {}

\* A lost connection is followed by a new one, by the end of the attempts,
\* by a close() or by a loop that spins (websocket_client.py:402).
ComesBack ==
    (wsState = "CONNECTED" /\ sockets[websocket] = "lost")
        ~> (\/ wsState = "CONNECTED" /\ sockets[websocket] = "open"
            \/ reconnects = MaxReconnects \/ closing # "none" \/ Spinning)
=============================================================================
