----------------------------- MODULE LeetServer -----------------------------
(***************************************************************************)
(* The daemon of leet-service and the agents connected to it.  Each        *)
(* connection has a task that shakes hands, enters the agent into the      *)
(* registry and then reads and routes its messages, and a writer task that *)
(* drains the agent's bounded channel into its socket.  The registry is    *)
(* behind a tokio RwLock, which serves its waiters in order of arrival;    *)
(* routing holds it for reading while it waits for room in the channels.   *)
(*                                                                         *)
(* A member of Agents is one connection: each one gets a fresh UUID.       *)
(***************************************************************************)
EXTENDS Integers, Sequences, FiniteSets, FiniteSetsExt, SequencesExt

CONSTANTS
  Agents,     \* the connections
  Unix,       \* those over the Unix socket: handle_unix_connection
  Eager,      \* the agents that answer every message: leet-agent --llm local
  Passive,    \* those that only listen: leet-agent --llm none
  Rude,       \* the clients that may send what the protocol does not provide
  Impatient,  \* the clients that use recv_timeout
  Listeners,  \* the clients that go on reading as long as they are connected
  Broadcast,  \* Receiver::Broadcast
  ChanCap,    \* the lines an agent's channel holds (64)
  SockCap,    \* bound: the lines a socket buffers in one direction
  MaxSend     \* bound: the lines an agent sends

ASSUME ServerAssumption ==
  /\ Unix \subseteq Agents /\ Eager \subseteq Agents /\ Passive \subseteq Agents
  /\ Rude \subseteq Agents /\ Impatient \subseteq Agents
  /\ Listeners \subseteq Agents /\ Broadcast \notin Agents
  /\ ChanCap \in Nat \ {0} /\ SockCap \in Nat \ {0} /\ MaxSend \in Nat

VARIABLES
  client,   \* of the client: "out", "probe", "align", "up", "closed"
  owes,     \* an eager client has a message to answer
  sent,     \* the lines the client sent after its handshake
  got,      \* the messages it received
  inbox,    \* the lines from the client the server has not read
  sock,     \* the lines to the client it has not read
  stage,    \* where the connection's task is
  current,  \* the message it routes, if it does
  todo,     \* the agents that message is still to be sent to, in order
  chan,     \* the agent's channel
  writer,   \* its writer task: "none", "running", "stopped" (the channel closed)
  agents,   \* the registry
  peak,     \* agents_peak
  readers,  \* the connections that hold the registry's lock for reading
  waiting   \* the connections that wait for it, in order

ends == <<client, owes, sent, got>>
lock == <<readers, waiting>>
task == <<stage, current, todo>>
out == <<chan, writer>>
vars == <<ends, inbox, sock, task, out, agents, peak, lock>>

Msg == [kind : {"msg"}, from : Agents, n : 1 .. MaxSend, to : Agents \cup {Broadcast}]
Line(k) == [kind |-> k]
\* "raw" is a line that is not UTF-8; in a handshake it is like any junk.
Lines == Msg \cup {Line(k) : k \in {"register", "align", "wrong", "junk", "raw",
                                    "registered", "ready", "error", "rest"}}
NoMsg == Line("junk")

Init ==
  /\ client = [a \in Agents |-> "out"] /\ owes = [a \in Agents |-> FALSE]
  /\ sent = [a \in Agents |-> 0] /\ got = [a \in Agents |-> <<>>]
  /\ inbox = [a \in Agents |-> <<>>] /\ sock = [a \in Agents |-> <<>>]
  /\ stage = [a \in Agents |-> "new"]
  /\ current = [a \in Agents |-> NoMsg] /\ todo = [a \in Agents |-> <<>>]
  /\ chan = [a \in Agents |-> <<>>] /\ writer = [a \in Agents |-> "none"]
  /\ agents = {} /\ peak = 0 /\ readers = {} /\ waiting = <<>>

-----------------------------------------------------------------------------
(***************************************************************************)
(* The clients: AgentClient, the loop of leet-agent, or anything else that *)
(* speaks the protocol as it likes.                                        *)
(***************************************************************************)
Goto(a, s) == stage' = [stage EXCEPT ![a] = s]
ClientGoto(a, s) == client' = [client EXCEPT ![a] = s]
ToServer(a, line) == inbox' = [inbox EXCEPT ![a] = Append(@, line)]
ToClient(a, line) == sock' = [sock EXCEPT ![a] = Append(@, line)]

\* connect, PROBE; the server accepts and starts handle_connection.
Connect(a) ==
  /\ client[a] = "out" /\ ClientGoto(a, "probe") /\ Goto(a, "probe")
  /\ \E k \in {"register"} \cup (IF a \in Rude THEN {"junk"} ELSE {}) : ToServer(a, Line(k))
  /\ UNCHANGED <<owes, sent, got, sock, current, todo, out, agents, peak, lock>>

\* connect, ALIGN: the answer to PROBE is read, a hash is sent.
ClientAlign(a) ==
  /\ client[a] = "probe" /\ sock[a] # <<>>
  /\ sock' = [sock EXCEPT ![a] = Tail(@)]
  /\ IF Head(sock[a]).kind = "registered"
       THEN /\ ClientGoto(a, "align")
            /\ \E k \in {"align"} \cup (IF a \in Rude THEN {"wrong", "junk"} ELSE {}) :
                 ToServer(a, Line(k))
       ELSE ClientGoto(a, "closed") /\ UNCHANGED inbox
  /\ UNCHANGED <<owes, sent, got, task, out, agents, peak, lock>>

\* connect, VERIFY: anything but Ready is an error of the protocol.
ClientVerify(a) ==
  /\ client[a] = "align" /\ sock[a] # <<>>
  /\ sock' = [sock EXCEPT ![a] = Tail(@)]
  /\ ClientGoto(a, IF Head(sock[a]).kind = "ready" THEN "up" ELSE "closed")
  /\ UNCHANGED <<owes, sent, got, inbox, task, out, agents, peak, lock>>

CanSend(a) == client[a] = "up" /\ sent[a] < MaxSend /\ Len(inbox[a]) < SockCap

\* send_msg, or a line the server cannot use
Send(a) ==
  /\ CanSend(a) /\ ~owes[a] /\ a \notin Passive
  /\ sent' = [sent EXCEPT ![a] = @ + 1]
  /\ \/ \E to \in Agents \cup {Broadcast} :
          ToServer(a, [kind |-> "msg", from |-> a, n |-> sent'[a], to |-> to])
     \/ a \in Rude /\ \E k \in {"junk", "raw"} : ToServer(a, Line(k))
  /\ UNCHANGED <<client, owes, got, sock, task, out, agents, peak, lock>>

\* respond_openai_compat: every message is acknowledged to everybody.
Reply(a) ==
  /\ CanSend(a) /\ owes[a]
  /\ sent' = [sent EXCEPT ![a] = @ + 1]
  /\ ToServer(a, [kind |-> "msg", from |-> a, n |-> sent'[a], to |-> Broadcast])
  /\ owes' = [owes EXCEPT ![a] = FALSE]
  /\ UNCHANGED <<client, got, sock, task, out, agents, peak, lock>>

\* recv; the rest of a line that was read in part is not JSON.
Recv(a) ==
  /\ client[a] = "up" /\ ~owes[a] /\ sock[a] # <<>>
  /\ sock' = [sock EXCEPT ![a] = Tail(@)]
  /\ IF Head(sock[a]).kind = "msg"
       THEN /\ got' = [got EXCEPT ![a] = Append(@, Head(sock[a]))]
            /\ owes' = [owes EXCEPT ![a] = a \in Eager /\ sent[a] < MaxSend]
       ELSE UNCHANGED <<got, owes>>
  /\ UNCHANGED <<client, sent, inbox, task, out, agents, peak, lock>>

\* recv_timeout gives up inside read_line: what was read of the line is lost.
RecvTimeout(a) ==
  /\ a \in Impatient /\ client[a] = "up" /\ sock[a] # <<>> /\ ~owes[a]
  /\ Head(sock[a]).kind = "msg"
  /\ sock' = [sock EXCEPT ![a] = <<Line("rest")>> \o Tail(@)]
  /\ UNCHANGED <<ends, inbox, task, out, agents, peak, lock>>

\* The client goes away, or finds that the server closed the connection.
Close(a) ==
  /\ client[a] \notin {"out", "closed"} /\ ClientGoto(a, "closed")
  /\ owes' = [owes EXCEPT ![a] = FALSE]
  /\ UNCHANGED <<sent, got, inbox, sock, task, out, agents, peak, lock>>

-----------------------------------------------------------------------------
(***************************************************************************)
(* The connection's task.                                                  *)
(***************************************************************************)
\* Writing to a client that is gone fails, or the line is lost.
WriteLine(a, line, next) ==
  IF client[a] # "closed" THEN ToClient(a, line) /\ Goto(a, next)
                          ELSE UNCHANGED sock /\ stage' \in {[stage EXCEPT ![a] = s] : s \in {next, "gone"}}

ReadHead(a) == inbox[a] # <<>> /\ inbox' = [inbox EXCEPT ![a] = Tail(@)]

\* Mutant of Echo: the agent is entered as soon as its name is known.
EchoAndInsert(a) ==
  /\ stage[a] = "probe" /\ ReadHead(a)
  /\ Head(inbox[a]).kind = "register"
  /\ WriteLine(a, Line("registered"), "align")
  /\ agents' = agents \cup {a} /\ writer' = [writer EXCEPT ![a] = "running"]
  /\ UNCHANGED <<ends, current, todo, chan, peak, lock>>

\* ECHO
Echo(a) ==
  /\ stage[a] = "probe" /\ ReadHead(a)
  /\ IF Head(inbox[a]).kind = "register"
       THEN WriteLine(a, Line("registered"), "align")
       ELSE Goto(a, "gone") /\ UNCHANGED sock
  /\ UNCHANGED <<ends, current, todo, out, agents, peak, lock>>

\* VERIFY
Verify(a) ==
  /\ stage[a] = "align" /\ ReadHead(a)
  /\ CASE Head(inbox[a]).kind = "align" -> WriteLine(a, Line("ready"), "verified")
       [] Head(inbox[a]).kind = "wrong" -> WriteLine(a, Line("error"), "gone")
       [] OTHER -> Goto(a, "gone") /\ UNCHANGED sock
  /\ UNCHANGED <<ends, current, todo, out, agents, peak, lock>>

\* The client is gone before the handshake is over: "" is not JSON.
HandshakeEOF(a) ==
  /\ stage[a] \in {"probe", "align"} /\ client[a] = "closed" /\ inbox[a] = <<>>
  /\ Goto(a, "gone")
  /\ UNCHANGED <<ends, inbox, sock, current, todo, out, agents, peak, lock>>

\* agents.write() and agents.read() queue up.
Wait(a) == waiting' = Append(waiting, a) /\ UNCHANGED readers
Writers == {"register", "leave"}
MayWrite(a) == waiting # <<>> /\ Head(waiting) = a /\ readers = {}
MayRead(a, i) ==
  waiting[i] = a /\ \A j \in 1 .. i - 1 : stage[waiting[j]] \notin Writers

AskRegister(a) ==
  /\ stage[a] = "verified" /\ Goto(a, "register") /\ Wait(a)
  /\ UNCHANGED <<ends, inbox, sock, current, todo, out, agents, peak>>

Insert(a) ==
  /\ stage[a] = "register" /\ MayWrite(a)
  /\ agents' = agents \cup {a}
  /\ peak' = Max({peak, Cardinality(agents) + 1})
  /\ writer' = [writer EXCEPT ![a] = "running"]
  /\ waiting' = Tail(waiting) /\ Goto(a, "read")
  /\ UNCHANGED <<ends, inbox, sock, current, todo, chan, readers>>

\* read_loop: empty lines, lines that are not JSON and lines of the handshake
\* are passed over, a message is routed.
ReadLine(a) ==
  /\ stage[a] = "read" /\ ReadHead(a) /\ Head(inbox[a]).kind # "raw"
  /\ IF Head(inbox[a]).kind = "msg"
       THEN /\ current' = [current EXCEPT ![a] = Head(inbox[a])]
            /\ Goto(a, "ask") /\ Wait(a)
       ELSE UNCHANGED <<current, stage, lock>>
  /\ UNCHANGED <<ends, sock, todo, out, agents, peak>>

\* broadcast and deliver_to, once they hold the lock.  A map is iterated in
\* any order.  Mutant of Targets: the sender is not left out.
TargetsAll(m) == IF m.to = Broadcast THEN agents ELSE agents \cap {m.to}
Targets(m) == IF m.to = Broadcast THEN agents \ {m.from} ELSE agents \cap {m.to}

Route(a) ==
  /\ stage[a] = "ask"
  /\ \E i \in DOMAIN waiting : MayRead(a, i) /\ waiting' = RemoveAt(waiting, i)
  /\ readers' = readers \cup {a}
  /\ \E order \in SetToSeqs(Targets(current[a])) : todo' = [todo EXCEPT ![a] = order]
  /\ Goto(a, "route")
  /\ UNCHANGED <<ends, inbox, sock, current, out, agents, peak>>

\* Mutants of Deliver: a full channel is passed over; a target is served twice.
DeliverTry(a) ==
  /\ stage[a] = "route" /\ todo[a] # <<>>
  /\ LET r == Head(todo[a])
     IN  IF writer[r] = "running" /\ Len(chan[r]) < ChanCap
           THEN chan' = [chan EXCEPT ![r] = Append(@, current[a])]
           ELSE UNCHANGED chan
  /\ todo' = [todo EXCEPT ![a] = Tail(@)]
  /\ UNCHANGED <<ends, inbox, sock, stage, current, writer, agents, peak, lock>>
DeliverAgain(a) ==
  /\ stage[a] = "route" /\ todo[a] # <<>>
  /\ LET r == Head(todo[a])
     IN  /\ writer[r] = "running" /\ Len(chan[r]) < ChanCap
         /\ chan' = [chan EXCEPT ![r] = Append(@, current[a])]
  /\ todo' \in {todo, [todo EXCEPT ![a] = Tail(@)]}
  /\ UNCHANGED <<ends, inbox, sock, stage, current, writer, agents, peak, lock>>

\* tx.send(..).await: waits for room, fails on a closed channel.
Deliver(a) ==
  /\ stage[a] = "route" /\ todo[a] # <<>>
  /\ LET r == Head(todo[a])
     IN  \/ writer[r] = "stopped" /\ UNCHANGED chan
         \/ /\ writer[r] = "running" /\ Len(chan[r]) < ChanCap
            /\ chan' = [chan EXCEPT ![r] = Append(@, current[a])]
  /\ todo' = [todo EXCEPT ![a] = Tail(@)]
  /\ UNCHANGED <<ends, inbox, sock, stage, current, writer, agents, peak, lock>>

\* Mutant of Routed: the lock is kept.
RoutedUnreleased(a) ==
  /\ stage[a] = "route" /\ todo[a] = <<>>
  /\ Goto(a, "read") /\ current' = [current EXCEPT ![a] = NoMsg]
  /\ UNCHANGED <<ends, inbox, sock, todo, out, agents, peak, lock>>
Routed(a) ==
  /\ stage[a] = "route" /\ todo[a] = <<>>
  /\ readers' = readers \ {a}
  /\ Goto(a, "read") /\ current' = [current EXCEPT ![a] = NoMsg]
  /\ UNCHANGED <<ends, inbox, sock, todo, out, agents, peak, waiting>>

ReadEOF(a) ==
  /\ stage[a] = "read" /\ client[a] = "closed" /\ inbox[a] = <<>>
  /\ Goto(a, "leave") /\ Wait(a)
  /\ UNCHANGED <<ends, inbox, sock, current, todo, out, agents, peak>>

\* The client closed with lines unread, so that its end of the connection was
\* reset, or a line is not UTF-8, the client being there or not.
ReadFails(a) ==
  \/ client[a] = "closed" /\ sock[a] # <<>> /\ (a \in Unix => inbox[a] = <<>>)
  \/ inbox[a] # <<>> /\ Head(inbox[a]).kind = "raw"

\* Mutant of ReadError: no connection cleans up.
ReadErrorReturn(a) ==
  /\ stage[a] = "read" /\ ReadFails(a)
  /\ inbox' = [inbox EXCEPT ![a] = <<>>]
  /\ Goto(a, "gone") /\ UNCHANGED lock
  /\ UNCHANGED <<ends, sock, current, todo, out, agents, peak>>
\* handle_unix_connection returns from its loop with `?`.
ReadError(a) ==
  /\ stage[a] = "read" /\ ReadFails(a)
  /\ inbox' = [inbox EXCEPT ![a] = <<>>]
  /\ IF a \in Unix THEN Goto(a, "gone") /\ UNCHANGED lock
                   ELSE Goto(a, "leave") /\ Wait(a)
  /\ UNCHANGED <<ends, sock, current, todo, out, agents, peak>>

\* Over TCP the writer is aborted; over the Unix socket it ends by itself.
RemoveAgent(a) ==
  /\ stage[a] = "leave" /\ MayWrite(a)
  /\ agents' = agents \ {a} /\ waiting' = Tail(waiting) /\ Goto(a, "gone")
  /\ IF a \in Unix THEN UNCHANGED out
     ELSE writer' = [writer EXCEPT ![a] = "stopped"] /\ chan' = [chan EXCEPT ![a] = <<>>]
  /\ UNCHANGED <<ends, inbox, sock, current, todo, peak, readers>>

-----------------------------------------------------------------------------
(***************************************************************************)
(* The writer task.                                                        *)
(***************************************************************************)
Write(a) ==
  /\ writer[a] = "running" /\ chan[a] # <<>>
  /\ IF client[a] = "closed" THEN UNCHANGED sock
     ELSE Len(sock[a]) < SockCap /\ ToClient(a, Head(chan[a]))
  /\ chan' = [chan EXCEPT ![a] = Tail(@)]
  /\ UNCHANGED <<ends, inbox, task, writer, agents, peak, lock>>

\* write_all fails, or the last sender of a Unix connection is gone.  Mutant of
\* WriterStops: the channel stays open.
WriterStalls(a) ==
  /\ writer[a] = "running" /\ client[a] = "closed" /\ chan[a] # <<>>
  /\ writer' = [writer EXCEPT ![a] = "none"]
  /\ UNCHANGED <<ends, inbox, sock, task, chan, agents, peak, lock>>
WriterStops(a) ==
  /\ writer[a] = "running"
  /\ \/ client[a] = "closed" /\ chan[a] # <<>>
     \/ a \in Unix /\ a \notin agents /\ chan[a] = <<>>
  /\ writer' = [writer EXCEPT ![a] = "stopped"] /\ chan' = [chan EXCEPT ![a] = <<>>]
  /\ UNCHANGED <<ends, inbox, sock, task, agents, peak, lock>>

-----------------------------------------------------------------------------
Reading(a) == ClientAlign(a) \/ ClientVerify(a) \/ Recv(a)
Client(a) == Connect(a) \/ Reading(a) \/ Send(a) \/ Reply(a) \/ RecvTimeout(a) \/ Close(a)
Connection(a) ==
  \/ Echo(a) \/ Verify(a) \/ HandshakeEOF(a) \/ AskRegister(a) \/ Insert(a)
  \/ ReadLine(a) \/ Route(a) \/ Deliver(a) \/ Routed(a)
  \/ ReadEOF(a) \/ ReadError(a) \/ RemoveAgent(a)
Writer(a) == Write(a) \/ WriterStops(a)

Next == \E a \in Agents : Client(a) \/ Connection(a) \/ Writer(a)

Spec == Init /\ [][Next]_vars

\* tokio runs every task that is ready; the listeners go on reading
\* what they are sent, and answering it if they are eager.
FairSpec ==
  /\ Spec
  /\ \A a \in Agents : WF_vars(Connection(a)) /\ WF_vars(Writer(a))
  /\ \A a \in Listeners : WF_vars(Reading(a) \/ Reply(a))

-----------------------------------------------------------------------------
(***************************************************************************)
(* Properties.                                                             *)
(***************************************************************************)
\* Every variable has the shape the code gives it; channels and sockets keep to
\* their bounds, and the registry is written by one task alone.
TypeOK ==
  /\ client \in [Agents -> {"out", "probe", "align", "up", "closed"}]
  /\ owes \in [Agents -> BOOLEAN] /\ sent \in [Agents -> 0 .. MaxSend]
  /\ stage \in [Agents -> {"new", "probe", "align", "verified", "register", "read",
                           "ask", "route", "leave", "gone"}]
  /\ writer \in [Agents -> {"none", "running", "stopped"}]
  /\ inbox \in [Agents -> Seq(Lines)] /\ sock \in [Agents -> Seq(Lines)]
  /\ got \in [Agents -> Seq(Msg)] /\ chan \in [Agents -> Seq(Msg)]
  /\ todo \in [Agents -> Seq(Agents)] /\ current \in [Agents -> Lines]
  /\ \A a \in Agents :
       Len(chan[a]) <= ChanCap /\ (stage[a] \in {"ask", "route"} => current[a] \in Msg)
  /\ agents \subseteq Agents /\ peak \in Nat
  /\ readers = {a \in Agents : stage[a] = "route"}
  /\ waiting \in Seq(Agents)
  /\ ToSet(waiting) = {a \in Agents : stage[a] \in Writers \cup {"ask"}}

\* A client that shakes hands is never shown a message of another agent before
\* it has seen Ready, which AgentClient.connect would take for a failure.
HandshakeClean ==
  \A a \in Agents : sock[a] # <<>> =>
    /\ client[a] = "probe" => Head(sock[a]).kind = "registered"
    /\ client[a] = "align" => Head(sock[a]).kind \in {"ready", "error"}

\* What an agent receives from another arrives in the order in which it was
\* sent, and once.
InOrder ==
  \A r \in Agents : \A i, j \in DOMAIN got[r] :
    i < j /\ got[r][i].from = got[r][j].from => got[r][i].n < got[r][j].n

\* A message is received by the agent it is addressed to, and a broadcast by
\* the others.
OnlyRecipients ==
  \A r \in Agents : \A i \in DOMAIN got[r] :
    LET m == got[r][i] IN m.to = r \/ (m.to = Broadcast /\ m.from # r)

\* When a message has been routed, every agent that was to have it and is still
\* connected has it: in its channel, on the way to its socket, or received.
Has(r, m) == m \in ToSet(got[r]) \cup ToSet(sock[r]) \cup ToSet(chan[r])
RoutedToAll ==
  [][\A a, r \in Agents :
       stage[a] = "route" /\ stage'[a] # "route" /\ r \in Targets(current[a])
         /\ client[r] = "up" /\ r \notin Impatient
       => Has(r, current[a])]_vars

\* The registry holds an agent of the TCP port as long as its connection is
\* served, whatever way the connection ends, and agents_peak is never behind it.
RegistryExact ==
  /\ agents \ Unix = {a \in Agents \ Unix : stage[a] \in {"read", "ask", "route", "leave"}}
  /\ peak >= Cardinality(agents)

\* If everyone reads, no connection waits for ever for the registry or for room
\* in a channel.
NobodyStuck ==
  \A a \in Agents :
    stage[a] \in {"verified", "register", "ask", "route", "leave"}
      ~> stage[a] \in {"read", "gone"}

\* If everyone reads, a message an agent sent to one that is connected is
\* received, unless one of the two closes.
Delivered ==
  \A a, r \in Agents : \A n \in 1 .. MaxSend :
    LET m == [kind |-> "msg", from |-> a, n |-> n, to |-> r]
    IN  m \in ToSet(inbox[a]) /\ r \in agents
          ~> \/ m \in ToSet(got[r])
             \/ client[r] = "closed" \/ client[a] = "closed"

\* tcp_tests.rs: "disconnected agent should be removed".
DisconnectedRemoved ==
  \A a \in Agents : client[a] = "closed" ~> a \notin agents /\ stage[a] = "gone"
=============================================================================
