------------------------------- MODULE ZmqClient -------------------------------
(***************************************************************************)
(* python/leet/client/zmq_client.py: requests of a REQ client, with their   *)
(* timeouts; the receive loop and the iterators of a SUB client on one       *)
(* socket; and the broker, whose proxy loop owns two bound sockets.          *)
(***************************************************************************)
EXTENDS Naturals, Sequences, SequencesExt, FiniteSets

CONSTANTS
    Iterators,      \* coroutines that iterate over subscribe()
    MaxZmqSent,     \* bound: messages of the other side, and requests
    MaxZmqStarts    \* bound: connects, and starts of the broker

ASSUME ZmqAssumption == MaxZmqSent \in Nat /\ MaxZmqStarts \in Nat

VARIABLES
    zmqMode,      \* "REQ", "SUB" or "BROKER"
    zmqUp,        \* _connected, _running
    zmqStarts,
    exchange,     \* the REQ socket: "ready", or "waits" for a reply
    asked,        \* requests sent
    atServer, replies,   \* requests the server has, replies on their way
    requesting,   \* a request() is away
    answers,      \* history: what requests returned, [of, got]
    inbox,        \* the SUB socket's messages
    loops,        \* receive loops on that socket
    waiting,      \* iterators in recv_message
    sent,         \* history: messages so far
    heard, read,  \* history: what callbacks, and iterators, were given
    proxy,        \* _proxy_loop: "none", "created", "runs", "cancelled" or "failed"
    bound         \* the frontend address is taken by a socket

zmqVars == <<zmqMode, zmqUp, zmqStarts, exchange, asked, atServer, replies, requesting, answers, inbox,
             loops, waiting, sent, heard, read, proxy, bound>>

reqVars == <<exchange, asked, atServer, replies, requesting, answers>>
subVars == <<inbox, loops, waiting, sent, heard, read>>
brokerVars == <<proxy, bound>>

ZmqTypeOK ==
    /\ zmqMode \in {"REQ", "SUB", "BROKER"} /\ zmqUp \in BOOLEAN /\ zmqStarts \in 0..MaxZmqStarts
    /\ exchange \in {"ready", "waits"} /\ asked \in 0..MaxZmqSent /\ atServer \in Seq(1..MaxZmqSent) /\ replies \in Seq(1..MaxZmqSent)
    /\ requesting \in BOOLEAN /\ answers \in Seq([of : 1..MaxZmqSent, got : 1..MaxZmqSent])
    /\ inbox \in Seq(1..MaxZmqSent) /\ loops \in 0..MaxZmqStarts /\ waiting \subseteq Iterators
    /\ sent \in 0..MaxZmqSent /\ heard \in Seq(1..MaxZmqSent) /\ read \in Seq(1..MaxZmqSent)
    /\ proxy \in {"none", "created", "runs", "cancelled", "failed"} /\ bound \in BOOLEAN

ZmqInit ==
    /\ zmqMode \in {"REQ", "SUB", "BROKER"} /\ zmqUp = FALSE /\ zmqStarts = 0
    /\ exchange = "ready" /\ asked = 0 /\ atServer = <<>> /\ replies = <<>> /\ requesting = FALSE /\ answers = <<>>
    /\ inbox = <<>> /\ loops = 0 /\ waiting = {} /\ sent = 0 /\ heard = <<>> /\ read = <<>>
    /\ proxy = "none" /\ bound = FALSE

-----------------------------------------------------------------------------
(* connect and close *)

\* A new socket, or none: what was on its way to the old one is lost.
NewSocket == exchange' = "ready" /\ atServer' = <<>> /\ replies' = <<>> /\ inbox' = <<>>

ZmqConnect ==
    /\ zmqMode \in {"REQ", "SUB"} /\ zmqStarts < MaxZmqStarts /\ ~requesting /\ waiting = {}
    /\ zmqStarts' = zmqStarts + 1 /\ zmqUp' = TRUE
    /\ NewSocket
    /\ loops' = IF zmqMode = "SUB" THEN loops + 1 ELSE loops
    /\ UNCHANGED <<zmqMode, asked, requesting, answers, waiting, sent, heard, read>>
    /\ UNCHANGED brokerVars

\* close cancels the receive loop it knows; one of an earlier connect ends as
\* well, on a client that is no longer connected.  Pending receives are
\* cancelled with the socket.
ZmqClose ==
    /\ zmqMode \in {"REQ", "SUB"} /\ zmqUp
    /\ zmqUp' = FALSE /\ loops' = 0 /\ waiting' = {} /\ requesting' = FALSE
    /\ NewSocket
    /\ UNCHANGED <<zmqMode, zmqStarts, asked, answers, sent, heard, read>>
    /\ UNCHANGED brokerVars

-----------------------------------------------------------------------------
(* request *)

\* A REQ socket that waits for a reply refuses to send (EFSM).
Request ==
    /\ zmqMode = "REQ" /\ zmqUp /\ ~requesting /\ asked < MaxZmqSent
    /\ exchange = "ready"
    /\ exchange' = "waits" /\ asked' = asked + 1 /\ requesting' = TRUE
    /\ atServer' = Append(atServer, asked + 1)
    /\ UNCHANGED <<zmqMode, zmqUp, zmqStarts, replies, answers>> /\ UNCHANGED <<subVars, brokerVars>>

ServerReplies ==
    /\ atServer # <<>>
    /\ replies' = Append(replies, Head(atServer)) /\ atServer' = Tail(atServer)
    /\ UNCHANGED <<zmqMode, zmqUp, zmqStarts, exchange, asked, requesting, answers>>
    /\ UNCHANGED <<subVars, brokerVars>>

RequestReturns ==
    /\ requesting /\ replies # <<>>
    /\ requesting' = FALSE /\ exchange' = "ready" /\ replies' = Tail(replies)
    /\ answers' = Append(answers, [of |-> asked, got |-> Head(replies)])
    /\ UNCHANGED <<zmqMode, zmqUp, zmqStarts, asked, atServer>> /\ UNCHANGED <<subVars, brokerVars>>

\* Mutant of AfterTimeout: the socket takes the next request.
AfterTimeoutReady == "ready"

\* zmq.Again is passed on to the caller, and the socket still waits: no request
\* of this connection is sent any more.
AfterTimeout == exchange

\* recv has set the timeout of the configuration over the one that was given.
RequestTimesOut ==
    /\ requesting /\ requesting' = FALSE /\ exchange' = AfterTimeout
    /\ UNCHANGED <<zmqMode, zmqUp, zmqStarts, asked, atServer, replies, answers>>
    /\ UNCHANGED <<subVars, brokerVars>>

-----------------------------------------------------------------------------
(* subscribe *)

\* The publishers go on while the socket is there.
Publish ==
    /\ zmqMode = "SUB" /\ zmqUp /\ sent < MaxZmqSent
    /\ sent' = sent + 1 /\ inbox' = Append(inbox, sent + 1)
    /\ UNCHANGED <<zmqMode, zmqUp, zmqStarts, loops, waiting, heard, read>>
    /\ UNCHANGED <<reqVars, brokerVars>>

\* An iterator asks for the next message, beside the receive loop.
Subscribe(i) ==
    /\ zmqMode = "SUB" /\ zmqUp /\ i \notin waiting
    /\ waiting' = waiting \cup {i}
    /\ UNCHANGED <<zmqMode, zmqUp, zmqStarts, inbox, loops, sent, heard, read>>
    /\ UNCHANGED <<reqVars, brokerVars>>

\* Mutant of Taken: a message stays for the others.
TakenNot == inbox

\* One recv takes a message from all the others.
Taken == Tail(inbox)

SubscribeYields(i) ==
    /\ i \in waiting /\ inbox # <<>>
    /\ waiting' = waiting \ {i} /\ inbox' = Taken /\ read' = Append(read, Head(inbox))
    /\ UNCHANGED <<zmqMode, zmqUp, zmqStarts, loops, sent, heard>> /\ UNCHANGED <<reqVars, brokerVars>>

LoopReceives ==
    /\ loops > 0 /\ inbox # <<>>
    /\ inbox' = Taken /\ heard' = Append(heard, Head(inbox))
    /\ UNCHANGED <<zmqMode, zmqUp, zmqStarts, loops, waiting, sent, read>>
    /\ UNCHANGED <<reqVars, brokerVars>>

-----------------------------------------------------------------------------
(* ZmqBroker *)

\* start makes the task of the loop.  (A program starts the broker again only
\* once it was stopped.)
BrokerStart ==
    /\ zmqMode = "BROKER" /\ ~zmqUp /\ zmqStarts < MaxZmqStarts
    /\ zmqStarts' = zmqStarts + 1 /\ zmqUp' = TRUE /\ proxy' = "created"
    /\ UNCHANGED <<zmqMode, bound>> /\ UNCHANGED <<reqVars, subVars>>

\* The loop binds its sockets, or dies of an address that is taken.
ProxyBinds ==
    /\ proxy = "created"
    /\ proxy' = (IF bound THEN "failed" ELSE "runs") /\ bound' = TRUE
    /\ UNCHANGED <<zmqMode, zmqUp, zmqStarts>> /\ UNCHANGED <<reqVars, subVars>>

\* stop cancels the loop in its poll, behind which it would close the sockets.
BrokerStop ==
    /\ zmqMode = "BROKER" /\ zmqUp
    /\ zmqUp' = FALSE /\ proxy' = (IF proxy \in {"created", "runs"} THEN "cancelled" ELSE proxy)
    /\ UNCHANGED <<zmqMode, zmqStarts, bound>> /\ UNCHANGED <<reqVars, subVars>>

ZmqNext ==
    \/ ZmqConnect \/ ZmqClose \/ Request \/ ServerReplies \/ RequestReturns \/ RequestTimesOut
    \/ Publish \/ LoopReceives \/ (\E i \in Iterators : Subscribe(i) \/ SubscribeYields(i))
    \/ BrokerStart \/ ProxyBinds \/ BrokerStop

ZmqSpec == ZmqInit /\ [][ZmqNext]_zmqVars

-----------------------------------------------------------------------------
(* Properties *)

\* A request returns the reply to itself, never one that came too late for an
\* earlier request of the same socket (zmq_client.py:328).
RepliesMatch == \A i \in DOMAIN answers : answers[i].of = answers[i].got

\* Every message goes to the callbacks or to one iterator, once, in order
\* (zmq_client.py:285, 356).
OneReceiver ==
    /\ ToSet(heard) \cap ToSet(read) = {}
    /\ \A s \in {heard, read} : \A i, j \in DOMAIN s : i < j => s[i] < s[j]

ZmqSound == RepliesMatch /\ OneReceiver

\* "start: Starts the broker": a broker that was stopped can be started again.
Restarts == proxy # "failed"
=============================================================================
