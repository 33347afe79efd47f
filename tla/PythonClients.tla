----------------------------- MODULE PythonClients -----------------------------
(***************************************************************************)
(* The connections of the Python SDK: the gRPC and ZeroMQ pools, the        *)
(* WebSocket client, the manager of several of them, and the ZeroMQ client  *)
(* with its broker.  No one of them calls another: in a behaviour one of    *)
(* them is used, and the others stay as they were made.                     *)
(***************************************************************************)
EXTENDS ClientPool, WebSocketClient, WebSocketManager, ZmqClient

VARIABLE used   \* the one of this behaviour

connectionVars == <<used, poolVars, wsVars, managerVars, zmqVars>>

Connections == {"pool", "websocket", "manager", "zmq"}

PythonClientsInit ==
    /\ used \in Connections
    /\ used # "pool" => poolKind = "grpc" /\ up = {}
    /\ used # "zmq" => zmqMode = "REQ"
    /\ PoolInit /\ WsInit /\ ManagerInit /\ ZmqInit

Others(u) ==
    /\ UNCHANGED used
    /\ u # "pool" => UNCHANGED poolVars
    /\ u # "websocket" => UNCHANGED wsVars
    /\ u # "manager" => UNCHANGED managerVars
    /\ u # "zmq" => UNCHANGED zmqVars

PythonClientsNext ==
    \/ used = "pool" /\ PoolNext /\ Others("pool")
    \/ used = "websocket" /\ WsNext /\ Others("websocket")
    \/ used = "manager" /\ ManagerNext /\ Others("manager")
    \/ used = "zmq" /\ ZmqNext /\ Others("zmq")

\* The fairness of the pool and of the WebSocket client, of which no fair
\* action can happen where they are not used.
PythonClientsSpec ==
    /\ PythonClientsInit /\ [][PythonClientsNext]_connectionVars
    /\ PoolFairness /\ WsFairness

-----------------------------------------------------------------------------
(* Properties *)

\* Each of the four has states of its type.
ConnectionsTypeOK == PoolTypeOK /\ WsTypeOK /\ ManagerTypeOK /\ ZmqTypeOK

\* Clients of the pool that failed too often are out of the rotation, and a
\* pool that is stopped has none that is open: FailuresTrip, DownMeansClosed.
PoolSafe == FailuresTrip /\ DownMeansClosed

\* One WebSocket connection at a time, and none once the client is closed; the
\* manager's table and default agree; replies and messages of ZeroMQ go to
\* whom they are meant for: OneConnection, StaysClosed, ManagerSound, ZmqSound.
ConnectionsSound == OneConnection /\ StaysClosed /\ ManagerSound /\ ZmqSound
=============================================================================
