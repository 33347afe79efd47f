-------------------------- MODULE LeetServer_proofs --------------------------
(***************************************************************************)
(* Proofs about LeetServer: its types, the handshake, the registry, and    *)
(* the messages, which reach their recipients, all of them, in order and   *)
(* once, for any number of connections and any capacities.                 *)
(***************************************************************************)
EXTENDS LeetServer, FiniteSetTheorems, SequenceTheorems, TLAPS

Stages == {"new", "probe", "align", "verified", "register", "read", "ask", "route",
           "leave", "gone"}

(***************************************************************************)
(* The types, in four parts: the clients and connections, what is in the   *)
(* channels and in the hands of a task, the registry, and its lock, whose  *)
(* queue names a connection once.                                          *)
(***************************************************************************)
Shapes ==
  /\ client \in [Agents -> {"out", "probe", "align", "up", "closed"}]
  /\ owes \in [Agents -> BOOLEAN] /\ sent \in [Agents -> 0 .. MaxSend]
  /\ stage \in [Agents -> Stages]
  /\ writer \in [Agents -> {"none", "running", "stopped"}]
  /\ inbox \in [Agents -> Seq(Lines)] /\ sock \in [Agents -> Seq(Lines)]
  /\ got \in [Agents -> Seq(Msg)] /\ chan \in [Agents -> Seq(Msg)]
  /\ todo \in [Agents -> Seq(Agents)] /\ current \in [Agents -> Lines]

Held ==
  \A a \in Agents :
    Len(chan[a]) <= ChanCap /\ (stage[a] \in {"ask", "route"} => current[a] \in Msg)

Registry ==
  /\ agents \subseteq Agents /\ IsFiniteSet(agents)
  /\ peak \in Nat /\ peak >= Cardinality(agents)

Locked ==
  /\ readers = {a \in Agents : stage[a] = "route"}
  /\ waiting \in Seq(Agents) /\ IsInjective(waiting)
  /\ ToSet(waiting) = {a \in Agents : stage[a] \in Writers \cup {"ask"}}

TypeInv == Shapes /\ Held /\ Registry /\ Locked

Served == {"read", "ask", "route"}

(***************************************************************************)
(* How far the two ends of connection a have come.  A client that shakes   *)
(* hands has at most one answer before it, and the server's task has gone  *)
(* on by one step; only a client that is up, or gone, has more.            *)
(***************************************************************************)
Handshake(a) ==
  /\ client[a] = "out" => stage[a] = "new" /\ inbox[a] = <<>> /\ sock[a] = <<>>
  /\ client[a] = "probe" =>
       \/ stage[a] = "probe" /\ sock[a] = <<>> /\ Len(inbox[a]) = 1
       \/ stage[a] = "align" /\ sock[a] = <<Line("registered")>> /\ inbox[a] = <<>>
       \/ stage[a] = "gone" /\ sock[a] = <<>>
  /\ client[a] = "align" =>
       \/ stage[a] = "align" /\ sock[a] = <<>>
       \/ stage[a] = "gone" /\ (sock[a] = <<>> \/ Head(sock[a]) = Line("error"))
       \/ stage[a] \in {"verified", "register"} \cup Served
            /\ sock[a] # <<>> /\ Head(sock[a]) = Line("ready") /\ inbox[a] = <<>>
  /\ client[a] = "align" /\ stage[a] = "align" => Len(inbox[a]) = 1
  /\ client[a] = "up" => stage[a] \in {"verified", "register", "leave", "gone"} \cup Served
  /\ stage[a] = "leave" => client[a] = "closed" \/ (client[a] = "up" /\ a \notin Unix)

\* The registry, the connection's task and its writer.
Registered(a) ==
  /\ stage[a] \in Served \cup {"leave"} => a \in agents
  /\ stage[a] \in {"new", "probe", "align", "verified", "register"} =>
       writer[a] = "none" /\ a \notin agents
  /\ a \in agents /\ stage[a] = "gone" => a \in Unix
  /\ a \in agents => writer[a] # "none"
  /\ writer[a] # "none" /\ stage[a] = "gone" => client[a] \in {"up", "closed"}
  /\ writer[a] = "running" /\ a \notin agents => client[a] = "closed"
  /\ writer[a] = "stopped" => client[a] = "closed" \/ (client[a] = "up" /\ a \notin agents)

Ends == \A a \in Agents : Handshake(a) /\ Registered(a)

\* The lines that are on their way to r, or have arrived.
Along(g, s, c) == ToSet(g) \cup ToSet(s) \cup ToSet(c)
Seen(r) == Along(got[r], sock[r], chan[r])

Addressed(r, m) == m.kind = "msg" => m.to = r \/ (m.to = Broadcast /\ m.from # r)

\* What a connection routes is a message of its client, and goes to the agents
\* that are to have it, to each of them once.
Routing(a) ==
  /\ \A m \in ToSet(inbox[a]) : m.kind = "msg" => m.from = a
  /\ stage[a] \in {"ask", "route"} => current[a].kind = "msg" /\ current[a].from = a
  /\ stage[a] = "route" =>
       /\ IsInjective(todo[a])
       /\ \A r \in ToSet(todo[a]) : Addressed(r, current[a])

Recipients == \A r \in Agents : Routing(r) /\ \A m \in Seen(r) : Addressed(r, m)

\* Of two messages of one agent, m is the older one.
Older(m, k) == m.kind = "msg" /\ k.kind = "msg" /\ m.from = k.from => m.n < k.n
Sorted(s) == \A i, j \in DOMAIN s : i < j => Older(s[i], s[j])
Before(s, t) == \A m \in ToSet(s), k \in ToSet(t) : Older(m, k)

\* Along the way to r, the messages of each agent are in order.
InLine(g, s, c) ==
  /\ Sorted(g) /\ Sorted(s) /\ Sorted(c)
  /\ Before(g, s) /\ Before(g, c) /\ Before(s, c)
Arriving(r) == InLine(got[r], sock[r], chan[r])

\* The messages that client a sent and the server did not read are in order,
\* and later than the one it routes.
Sending(a) ==
  /\ Sorted(inbox[a])
  /\ \A m \in ToSet(inbox[a]) : m.kind = "msg" => m.n <= sent[a]
  /\ stage[a] \in {"ask", "route"} =>
       current[a].n <= sent[a] /\ \A m \in ToSet(inbox[a]) : Older(current[a], m)

\* What r has of the messages of a is older than those that are to come.
Upto(a, r) == \A m \in Seen(r) : m.kind = "msg" /\ m.from = a =>
  /\ m.n <= sent[a]
  /\ \A k \in ToSet(inbox[a]) : Older(m, k)
  /\ stage[a] = "ask" => m.n < current[a].n
  /\ stage[a] = "route" => m.n <= current[a].n
  /\ stage[a] = "route" /\ r \in ToSet(todo[a]) => m.n < current[a].n

Order == \A a \in Agents : Arriving(a) /\ Sending(a) /\ \A r \in Agents : Upto(a, r)

\* A message on its way to several agents has reached those that are not ahead,
\* and these are still in the registry.
Reaches(a, r) ==
  stage[a] = "route" =>
    /\ r \in ToSet(todo[a]) => r \in agents
    /\ r \in Targets(current[a]) =>
         \/ r \in ToSet(todo[a]) \/ current[a] \in Seen(r)
         \/ client[r] = "closed" \/ r \in Impatient

Reached == \A a, r \in Agents : Reaches(a, r)

-----------------------------------------------------------------------------
(***************************************************************************)
(* Lines and sequences of them.                                            *)
(***************************************************************************)
Kinds == {"register", "align", "wrong", "junk", "raw", "registered", "ready", "error", "rest"}

LEMMA LineKinds ==
  /\ \A k \in Kinds : Line(k) \in Lines /\ Line(k).kind = k /\ Line(k).kind # "msg"
  /\ Msg \subseteq Lines
  /\ \A l \in Lines : l.kind = "msg" <=> l \in Msg
  /\ \A m \in Msg : m.kind = "msg" /\ m.from \in Agents /\ m.n \in 1 .. MaxSend
BY DEF Kinds, Line, Lines, Msg

LEMMA ToSetAppend ==
  ASSUME NEW S, NEW s \in Seq(S), NEW e \in S
  PROVE  Append(s, e) \in Seq(S) /\ ToSet(Append(s, e)) = ToSet(s) \cup {e}
<1>1. /\ Append(s, e) \in Seq(S) /\ Len(s) \in Nat /\ Len(Append(s, e)) = Len(s) + 1
      /\ DOMAIN s = 1 .. Len(s) /\ DOMAIN Append(s, e) = 1 .. Len(s) + 1
      /\ \A i \in 1 .. Len(s) : Append(s, e)[i] = s[i]
      /\ Append(s, e)[Len(s) + 1] = e
  BY AppendProperties, LenProperties
<1>2. ToSet(Append(s, e)) \subseteq ToSet(s) \cup {e}
  <2>1. SUFFICES ASSUME NEW i \in 1 .. Len(s) + 1
                 PROVE  Append(s, e)[i] \in ToSet(s) \cup {e}
    BY <1>1 DEF ToSet
  <2>2. CASE i = Len(s) + 1
    BY <1>1, <2>2
  <2>3. CASE i \in 1 .. Len(s)
    BY <1>1, <2>3 DEF ToSet
  <2> QED BY <1>1, <2>2, <2>3
<1>3. ToSet(s) \subseteq ToSet(Append(s, e))
  BY <1>1 DEF ToSet
<1>4. e \in ToSet(Append(s, e))
  BY <1>1 DEF ToSet
<1> QED BY <1>1, <1>2, <1>3, <1>4

LEMMA ToSetTail ==
  ASSUME NEW S, NEW s \in Seq(S), s # <<>>
  PROVE  /\ Head(s) \in S /\ Tail(s) \in Seq(S)
         /\ ToSet(s) = {Head(s)} \cup ToSet(Tail(s))
<1>1. /\ Head(s) \in S /\ Tail(s) \in Seq(S) /\ Len(s) \in Nat \ {0}
      /\ Len(Tail(s)) = Len(s) - 1 /\ Head(s) = s[1]
      /\ \A i \in 1 .. Len(s) - 1 : Tail(s)[i] = s[i + 1]
      /\ DOMAIN s = 1 .. Len(s) /\ DOMAIN Tail(s) = 1 .. Len(s) - 1
  BY HeadTailProperties, LenProperties, EmptySeq
<1>2. ToSet(s) \subseteq {Head(s)} \cup ToSet(Tail(s))
  <2>1. SUFFICES ASSUME NEW i \in 1 .. Len(s)
                 PROVE  s[i] \in {Head(s)} \cup ToSet(Tail(s))
    BY <1>1 DEF ToSet
  <2>2. CASE i # 1
    <3>1. i - 1 \in 1 .. Len(s) - 1 /\ Tail(s)[i - 1] = s[i]
      BY <1>1, <2>2
    <3> QED BY <1>1, <3>1 DEF ToSet
  <2> QED BY <1>1, <2>2
<1>3. ToSet(Tail(s)) \subseteq ToSet(s)
  BY <1>1 DEF ToSet
<1>4. Head(s) \in ToSet(s)
  BY <1>1 DEF ToSet
<1> QED BY <1>1, <1>2, <1>3, <1>4

LEMMA ToSetEmpty ==
  /\ ToSet(<<>>) = {}
  /\ \A S : <<>> \in Seq(S)
  /\ \A S : \A s \in Seq(S) : ToSet(s) \subseteq S
  /\ \A S : \A s \in Seq(S) : s # <<>> => Head(s) \in ToSet(s)
<1>1. \A S : \A s \in Seq(S) : s # <<>> => Head(s) \in ToSet(s)
  BY ToSetTail
<1>2. \A S : \A s \in Seq(S) : ToSet(s) \subseteq S
  BY ElementOfSeq, LenProperties DEF ToSet
<1>3. ToSet(<<>>) = {}
  BY DEF ToSet
<1> QED BY <1>1, <1>2, <1>3, EmptySeq

LEMMA InjectiveTail ==
  ASSUME NEW S, NEW s \in Seq(S), s # <<>>, IsInjective(s)
  PROVE  IsInjective(Tail(s)) /\ ToSet(Tail(s)) = ToSet(s) \ {Head(s)}
<1>1. /\ Len(s) \in Nat \ {0} /\ Head(s) = s[1]
      /\ \A i \in 1 .. Len(s) - 1 : Tail(s)[i] = s[i + 1]
      /\ DOMAIN s = 1 .. Len(s) /\ DOMAIN Tail(s) = 1 .. Len(s) - 1
  BY HeadTailProperties, LenProperties, EmptySeq
<1>2. IsInjective(Tail(s))
  BY <1>1 DEF IsInjective
<1>3. Head(s) \notin ToSet(Tail(s))
  BY <1>1 DEF IsInjective, ToSet
<1> QED BY <1>2, <1>3, ToSetTail

LEMMA InjectiveAppend ==
  ASSUME NEW S, NEW s \in Seq(S), NEW e \in S, IsInjective(s), e \notin ToSet(s)
  PROVE  IsInjective(Append(s, e))
<1>1. /\ Len(s) \in Nat /\ DOMAIN s = 1 .. Len(s) /\ DOMAIN Append(s, e) = 1 .. Len(s) + 1
      /\ \A i \in 1 .. Len(s) : Append(s, e)[i] = s[i]
      /\ Append(s, e)[Len(s) + 1] = e
  BY AppendProperties, LenProperties
<1>2. \A i \in 1 .. Len(s) : s[i] # e
  BY <1>1 DEF ToSet
<1>3. \A i \in 1 .. Len(s) + 1 : i \in 1 .. Len(s) \/ i = Len(s) + 1
  BY <1>1
<1> QED BY <1>1, <1>2, <1>3 DEF IsInjective

LEMMA InjectiveRemove ==
  ASSUME NEW S, NEW s \in Seq(S), NEW i \in DOMAIN s, IsInjective(s)
  PROVE  /\ RemoveAt(s, i) \in Seq(S) /\ IsInjective(RemoveAt(s, i))
         /\ ToSet(RemoveAt(s, i)) = ToSet(s) \ {s[i]}
<1> DEFINE n == Len(s)
           u == SubSeq(s, 1, i - 1)
           v == SubSeq(s, i + 1, n)
           t == RemoveAt(s, i)
<1>1. n \in Nat /\ DOMAIN s = 1 .. n /\ i \in 1 .. n /\ \A j \in 1 .. n : s[j] \in S
  BY LenProperties, ElementOfSeq
<1>2. u \in Seq(S) /\ Len(u) = i - 1 /\ \A j \in 1 .. i - 1 : u[j] = s[j]
  BY <1>1
<1>3. v \in Seq(S) /\ Len(v) = n - i /\ \A j \in 1 .. n - i : v[j] = s[i + j]
  <2> HIDE DEF n
  <2>1. i + 1 \in Int /\ n \in Int /\ \A j \in i + 1 .. n : s[j] \in S
    BY <1>1
  <2>2. /\ v \in Seq(S) /\ Len(v) = IF i + 1 <= n THEN n - (i + 1) + 1 ELSE 0
        /\ \A j \in 1 .. n - (i + 1) + 1 : v[j] = s[(i + 1) + j - 1]
    BY <2>1, SubSeqProperties
  <2> HIDE DEF v
  <2>3. Len(v) = n - i
    BY <1>1, <2>2
  <2>4. ASSUME NEW j \in 1 .. n - i PROVE v[j] = s[i + j]
    <3>1. (i + 1) + j - 1 = i + j /\ j \in 1 .. n - (i + 1) + 1
      BY <1>1
    <3> QED BY <2>2, <3>1
  <2> QED BY <2>2, <2>3, <2>4
<1>4. t = u \o v
  BY DEF RemoveAt
<1> HIDE DEF n, u, v, t
<1>5. /\ t \in Seq(S) /\ Len(t) = n - 1 /\ DOMAIN t = 1 .. n - 1
      /\ \A j \in 1 .. n - 1 : t[j] = IF j < i THEN s[j] ELSE s[j + 1]
  <2>0. Len(u) + Len(v) = n - 1
    BY <1>1, <1>2, <1>3
  <2>1. /\ u \o v \in Seq(S) /\ Len(u \o v) = n - 1
        /\ \A j \in 1 .. n - 1 : (u \o v)[j] = IF j <= i - 1 THEN u[j] ELSE v[j - (i - 1)]
    <3>1. /\ u \o v \in Seq(S) /\ Len(u \o v) = Len(u) + Len(v)
          /\ \A j \in 1 .. Len(u) + Len(v) : (u \o v)[j] = IF j <= Len(u) THEN u[j] ELSE v[j - Len(u)]
      BY <1>2, <1>3, ConcatProperties, Zenon
    <3> QED BY <1>2, <2>0, <3>1
  <2>2. ASSUME NEW j \in 1 .. n - 1, ~(j < i) PROVE v[j - (i - 1)] = s[j + 1]
    <3>1. j - (i - 1) \in 1 .. n - i /\ i + (j - (i - 1)) = j + 1
      BY <1>1, <2>2
    <3> QED BY <1>3, <3>1
  <2>3. t \in Seq(S) /\ Len(t) = n - 1 /\ DOMAIN t = 1 .. n - 1
    BY <1>4, <2>1, LenProperties
  <2>4. ASSUME NEW j \in 1 .. n - 1 PROVE t[j] = IF j < i THEN s[j] ELSE s[j + 1]
    <3>1. CASE j < i
      <4>1. j <= i - 1 /\ j \in 1 .. i - 1
        BY <1>1, <3>1
      <4> QED BY <1>2, <1>4, <2>1, <3>1, <4>1
    <3>2. CASE ~(j < i)
      <4>1. ~(j <= i - 1)
        BY <1>1, <3>2
      <4> QED BY <1>4, <2>1, <2>2, <3>2, <4>1
    <3> QED BY <3>1, <3>2
  <2> QED BY <2>3, <2>4
<1> DEFINE At(j) == IF j < i THEN j ELSE j + 1
<1>6. \A j \in 1 .. n - 1 : At(j) \in (1 .. n) \ {i} /\ t[j] = s[At(j)]
  BY <1>1, <1>5
<1>9. IsInjective(t)
  <2>1. SUFFICES ASSUME NEW j \in 1 .. n - 1, NEW k \in 1 .. n - 1, t[j] = t[k] PROVE j = k
    BY <1>5 DEF IsInjective
  <2>2. At(j) = At(k)
    BY <1>1, <1>6, <2>1 DEF IsInjective
  <2> QED BY <1>1, <2>2
<1>7. ToSet(t) \subseteq ToSet(s) \ {s[i]}
  <2>1. SUFFICES ASSUME NEW j \in 1 .. n - 1 PROVE t[j] \in ToSet(s) \ {s[i]}
    BY <1>5 DEF ToSet
  <2> HIDE DEF At
  <2> QED BY <1>1, <1>6 DEF ToSet, IsInjective
<1>8. ToSet(s) \ {s[i]} \subseteq ToSet(t)
  <2>1. SUFFICES ASSUME NEW j \in 1 .. n, j # i PROVE s[j] \in ToSet(t)
    BY <1>1 DEF ToSet
  <2>2. CASE j < i
    BY <1>1, <1>5, <2>2 DEF ToSet
  <2>3. CASE j > i
    <3>1. j - 1 \in 1 .. n - 1 /\ t[j - 1] = s[j]
      BY <1>1, <1>5, <2>3
    <3> QED BY <1>5, <3>1 DEF ToSet
  <2> QED BY <1>1, <2>1, <2>2, <2>3
<1> QED BY <1>5, <1>7, <1>8, <1>9 DEF t

-----------------------------------------------------------------------------
(***************************************************************************)
(* Types.                                                                  *)
(***************************************************************************)
LEMMA Queues ==
  /\ \A s \in Seq(Lines), l \in Lines : Append(s, l) \in Seq(Lines)
  /\ \A s \in Seq(Msg), m \in Msg : Append(s, m) \in Seq(Msg)
  /\ \A s \in Seq(Agents), b \in Agents : Append(s, b) \in Seq(Agents)
  /\ \A s \in Seq(Lines) : s # <<>> => Head(s) \in Lines /\ Tail(s) \in Seq(Lines)
  /\ \A s \in Seq(Msg) : s # <<>> => Head(s) \in Msg /\ Tail(s) \in Seq(Msg)
  /\ \A s \in Seq(Agents) : s # <<>> => Head(s) \in Agents /\ Tail(s) \in Seq(Agents)
  /\ <<>> \in Seq(Lines) /\ <<>> \in Seq(Msg) /\ <<>> \in Seq(Agents)
BY ToSetTail, ToSetAppend, EmptySeq

LEMMA InitTypeInv == Init => TypeInv
<1> SUFFICES ASSUME Init PROVE TypeInv
  OBVIOUS
<1>1. Shapes
  BY LineKinds, Queues, ServerAssumption DEF Init, Shapes, Stages, NoMsg, Kinds
<1>2. Held
  BY ServerAssumption DEF Init, Held
<1>3. Registry
  BY FS_EmptySet DEF Init, Registry
<1>4. Locked
  BY ToSetEmpty DEF Init, Locked, Writers, IsInjective
<1> QED BY <1>1, <1>2, <1>3, <1>4 DEF TypeInv

\* What the actions are made of.
LEMMA StepShapes ==
  ASSUME NEW a \in Agents, Shapes
  PROVE  /\ \A s \in Stages : Goto(a, s) => stage' \in [Agents -> Stages]
         /\ \A l \in Lines : ToServer(a, l) => inbox' \in [Agents -> Seq(Lines)]
         /\ ReadHead(a) => inbox' \in [Agents -> Seq(Lines)] /\ Head(inbox[a]) \in Lines
         /\ \A l \in Lines, s \in Stages : WriteLine(a, l, s) =>
              sock' \in [Agents -> Seq(Lines)] /\ stage' \in [Agents -> Stages]
<1>1. ASSUME NEW s \in Stages, Goto(a, s) PROVE stage' \in [Agents -> Stages]
  BY <1>1 DEF Shapes, Goto
<1>2. ASSUME NEW l \in Lines, ToServer(a, l) PROVE inbox' \in [Agents -> Seq(Lines)]
  <2>1. Append(inbox[a], l) \in Seq(Lines)
    BY Queues DEF Shapes
  <2> QED BY <1>2, <2>1 DEF Shapes, ToServer
<1>3. ASSUME ReadHead(a) PROVE inbox' \in [Agents -> Seq(Lines)] /\ Head(inbox[a]) \in Lines
  <2>1. inbox[a] \in Seq(Lines) /\ inbox[a] # <<>>
    BY <1>3 DEF Shapes, ReadHead
  <2>2. Tail(inbox[a]) \in Seq(Lines) /\ Head(inbox[a]) \in Lines
    BY <2>1, Queues
  <2> QED BY <1>3, <2>2 DEF Shapes, ReadHead
<1>4. ASSUME NEW l \in Lines, NEW s \in Stages, WriteLine(a, l, s)
      PROVE  sock' \in [Agents -> Seq(Lines)] /\ stage' \in [Agents -> Stages]
  <2>1. Append(sock[a], l) \in Seq(Lines)
    BY Queues DEF Shapes
  <2>2. CASE client[a] # "closed"
    BY <1>4, <2>1, <2>2 DEF Shapes, WriteLine, ToClient, Goto
  <2>3. CASE client[a] = "closed"
    BY <1>4, <2>3 DEF Shapes, WriteLine, Stages
  <2> QED BY <2>2, <2>3
<1> QED BY <1>1, <1>2, <1>3, <1>4

LEMMA ClientShapes ==
  ASSUME NEW a \in Agents, Shapes, Client(a)
  PROVE  Shapes'
<1> USE LineKinds, Queues, ServerAssumption
<1> USE DEF Shapes, ClientGoto, ends, task, out, lock
<1>1. CASE Connect(a)
  <2>1. PICK k \in Kinds : ToServer(a, Line(k))
    BY <1>1 DEF Connect, Kinds
  <2>2. inbox' \in [Agents -> Seq(Lines)] /\ stage' \in [Agents -> Stages]
    BY <1>1, <2>1, StepShapes DEF Connect, Stages
  <2> QED BY <1>1, <2>2 DEF Connect
<1>2. CASE ClientAlign(a)
  <2>1. inbox' \in [Agents -> Seq(Lines)]
    <3>1. CASE UNCHANGED inbox
      BY <3>1
    <3>2. CASE ~UNCHANGED inbox
      <4>1. PICK k \in Kinds : ToServer(a, Line(k))
        BY <1>2, <3>2 DEF ClientAlign, Kinds
      <4> QED BY <4>1, StepShapes
    <3> QED BY <3>1, <3>2
  <2>2. sock[a] \in Seq(Lines) /\ sock[a] # <<>>
    BY <1>2 DEF ClientAlign
  <2>3. Tail(sock[a]) \in Seq(Lines)
    BY <2>2, Queues
  <2> QED BY <1>2, <2>1, <2>3 DEF ClientAlign
<1>3. CASE ClientVerify(a)
  BY <1>3 DEF ClientVerify
<1>4. CASE Recv(a)
  <2>1. sock[a] \in Seq(Lines) /\ sock[a] # <<>>
    BY <1>4 DEF Recv
  <2>2. Tail(sock[a]) \in Seq(Lines) /\ Head(sock[a]) \in Lines
    BY <2>1, Queues
  <2>3. CASE Head(sock[a]).kind = "msg"
    <3>1. Append(got[a], Head(sock[a])) \in Seq(Msg)
      BY <2>2, <2>3, LineKinds, Queues
    <3> DEFINE g == Append(got[a], Head(sock[a]))
               o == (a \in Eager /\ sent[a] < MaxSend)
    <3>2. got' = [got EXCEPT ![a] = g] /\ owes' = [owes EXCEPT ![a] = o]
      BY <1>4, <2>3 DEF Recv
    <3>3. o \in BOOLEAN
      OBVIOUS
    <3> HIDE DEF g, o
    <3>4. got' \in [Agents -> Seq(Msg)] /\ owes' \in [Agents -> BOOLEAN]
      BY <3>1, <3>2, <3>3 DEF g
    <3> QED BY <1>4, <2>2, <3>4 DEF Recv
  <2>4. CASE Head(sock[a]).kind # "msg"
    BY <1>4, <2>2, <2>4 DEF Recv
  <2> QED BY <2>3, <2>4
<1>5. CASE Send(a)
  <2>1. sent[a] + 1 \in 1 .. MaxSend /\ sent'[a] = sent[a] + 1
    BY <1>5 DEF Send, CanSend
  <2>2. inbox' \in [Agents -> Seq(Lines)]
    <3>1. CASE \E k \in {"junk", "raw"} : ToServer(a, Line(k))
      BY <3>1, StepShapes DEF Kinds
    <3>2. CASE \E to \in Agents \cup {Broadcast} :
                 ToServer(a, [kind |-> "msg", from |-> a, n |-> sent'[a], to |-> to])
      <4>1. PICK to \in Agents \cup {Broadcast} :
                   ToServer(a, [kind |-> "msg", from |-> a, n |-> sent'[a], to |-> to])
        BY <3>2
      <4>2. [kind |-> "msg", from |-> a, n |-> sent'[a], to |-> to] \in Lines
        BY <2>1 DEF Lines, Msg
      <4> QED BY <4>1, <4>2, StepShapes
    <3> QED BY <1>5, <3>1, <3>2 DEF Send
  <2>3. sent' \in [Agents -> 0 .. MaxSend]
    BY <1>5, <2>1 DEF Send
  <2> QED BY <1>5, <2>2, <2>3 DEF Send
<1>6. CASE Reply(a)
  <2>1. sent[a] + 1 \in 1 .. MaxSend /\ sent'[a] = sent[a] + 1
    BY <1>6 DEF Reply, CanSend
  <2>2. [kind |-> "msg", from |-> a, n |-> sent'[a], to |-> Broadcast] \in Lines
    BY <2>1 DEF Lines, Msg
  <2>3. inbox' \in [Agents -> Seq(Lines)]
    BY <1>6, <2>2, StepShapes DEF Reply
  <2>4. sent' \in [Agents -> 0 .. MaxSend] /\ owes' \in [Agents -> BOOLEAN]
    BY <1>6, <2>1 DEF Reply
  <2> QED BY <1>6, <2>3, <2>4 DEF Reply
<1>7. CASE RecvTimeout(a)
  <2>1. Tail(sock[a]) \in Seq(Lines) /\ <<Line("rest")>> \in Seq(Lines)
    BY <1>7 DEF RecvTimeout, Kinds
  <2>2. <<Line("rest")>> \o Tail(sock[a]) \in Seq(Lines)
    BY <2>1, ConcatProperties
  <2> QED BY <1>7, <2>2 DEF RecvTimeout
<1>8. CASE Close(a)
  BY <1>8 DEF Close
<1> QED BY <1>1, <1>2, <1>3, <1>4, <1>5, <1>6, <1>7, <1>8 DEF Client, Reading

\* The orders in which a message is sent to its targets.
LEMMA TargetOrders ==
  ASSUME Registry, NEW m, NEW order \in SetToSeqs(Targets(m))
  PROVE  order \in Seq(Agents) /\ IsInjective(order) /\ ToSet(order) = Targets(m)
<1> DEFINE T == Targets(m)
           n == Cardinality(T)
<1>1. T \subseteq agents /\ T \subseteq Agents
  BY DEF Targets, Registry
<1>2. IsFiniteSet(T)
  BY <1>1, FS_Subset DEF Registry
<1> HIDE DEF T
<1>3. n \in Nat
  BY <1>2, FS_CardinalityType
<1>4. order \in [1 .. n -> T] /\ \A i, j \in 1 .. n : i # j => order[i] # order[j]
  BY DEF SetToSeqs, T
<1>5. IsFiniteSet(1 .. n) /\ Cardinality(1 .. n) = n
  BY <1>3, FS_Interval
<1>6. \A y \in T : \E i \in 1 .. n : order[i] = y
  <2>1. order \in Injection(1 .. n, T)
    BY <1>4 DEF Injection, IsInjective
  <2>2. Cardinality(1 .. n) = Cardinality(T) <=> order \in Surjection(1 .. n, T)
    BY <1>2, <2>1, FS_Injection
  <2> QED BY <1>5, <2>2 DEF Surjection
<1> HIDE DEF n
<1>7. order \in Seq(Agents)
  BY <1>1, <1>3, <1>4
<1>8. DOMAIN order = 1 .. n
  BY <1>4
<1> QED BY <1>4, <1>6, <1>7, <1>8 DEF IsInjective, ToSet, T

LEMMA ConnectionShapes ==
  ASSUME NEW a \in Agents, TypeInv, Connection(a) \/ Writer(a)
  PROVE  Shapes'
<1> USE LineKinds, Queues, ServerAssumption
<1> USE DEF TypeInv, Shapes, Stages, Wait, ends, task, out, lock
<1>0. \A k \in {"registered", "ready", "error", "junk"} : Line(k) \in Lines
  BY DEF Kinds
<1>1. CASE Echo(a)
  <2>1. inbox' \in [Agents -> Seq(Lines)]
    BY <1>1, StepShapes DEF Echo
  <2>2. sock' \in [Agents -> Seq(Lines)] /\ stage' \in [Agents -> Stages]
    BY <1>0, <1>1, StepShapes DEF Echo
  <2> QED BY <1>1, <2>1, <2>2 DEF Echo
<1>2. CASE Verify(a)
  <2>1. inbox' \in [Agents -> Seq(Lines)]
    BY <1>2, StepShapes DEF Verify
  <2>2. sock' \in [Agents -> Seq(Lines)] /\ stage' \in [Agents -> Stages]
    BY <1>0, <1>2, StepShapes DEF Verify
  <2> QED BY <1>2, <2>1, <2>2 DEF Verify
<1>3. CASE HandshakeEOF(a)
  BY <1>3 DEF HandshakeEOF, Goto
<1>4. CASE AskRegister(a)
  BY <1>4 DEF AskRegister, Goto
<1>5. CASE Insert(a)
  BY <1>5 DEF Insert, Goto
<1>6. CASE ReadLine(a)
  <2>1. inbox' \in [Agents -> Seq(Lines)] /\ Head(inbox[a]) \in Lines
    BY <1>6, StepShapes DEF ReadLine
  <2>2. stage' \in [Agents -> Stages]
    BY <1>6, StepShapes DEF ReadLine
  <2>3. current' \in [Agents -> Lines]
    BY <1>6, <2>1 DEF ReadLine
  <2> QED BY <1>6, <2>1, <2>2, <2>3 DEF ReadLine
<1>7. CASE Route(a)
  <2>1. PICK order \in SetToSeqs(Targets(current[a])) : todo' = [todo EXCEPT ![a] = order]
    BY <1>7 DEF Route
  <2>2. order \in Seq(Agents)
    BY <2>1, TargetOrders
  <2> QED BY <1>7, <2>1, <2>2 DEF Route, Goto
<1>8. CASE Deliver(a)
  <2>1. todo[a] \in Seq(Agents) /\ todo[a] # <<>> /\ current[a] \in Msg
    BY <1>8 DEF Deliver, Held
  <2>2. Head(todo[a]) \in Agents /\ Tail(todo[a]) \in Seq(Agents)
    BY <2>1, Queues
  <2>3. Append(chan[Head(todo[a])], current[a]) \in Seq(Msg)
    BY <2>1, <2>2, Queues
  <2>4. chan' \in [Agents -> Seq(Msg)]
    BY <1>8, <2>2, <2>3 DEF Deliver
  <2>5. todo' \in [Agents -> Seq(Agents)]
    BY <1>8, <2>2 DEF Deliver
  <2> QED BY <1>8, <2>4, <2>5 DEF Deliver
<1>9. CASE Routed(a)
  BY <1>0, <1>9 DEF Routed, Goto, NoMsg
<1>10. CASE ReadEOF(a)
  BY <1>10 DEF ReadEOF, Goto
<1>11. CASE ReadError(a)
  BY <1>11 DEF ReadError, Goto
<1>12. CASE RemoveAgent(a)
  <2>1. stage' \in [Agents -> Stages]
    BY <1>12, StepShapes DEF RemoveAgent
  <2>2. /\ writer' = writer \/ writer' = [writer EXCEPT ![a] = "stopped"]
        /\ chan' = chan \/ chan' = [chan EXCEPT ![a] = <<>>]
    BY ONLY <1>12 DEF RemoveAgent
  <2>3. writer' \in [Agents -> {"none", "running", "stopped"}]
    BY ONLY <2>2, TypeInv DEF TypeInv, Shapes
  <2>4. <<>> \in Seq(Msg)
    OBVIOUS
  <2>5. chan' \in [Agents -> Seq(Msg)]
    BY ONLY <2>2, <2>4, TypeInv DEF TypeInv, Shapes
  <2> QED BY <1>12, <2>1, <2>3, <2>5 DEF RemoveAgent
<1>13. CASE Write(a)
  <2>1. chan[a] \in Seq(Msg) /\ chan[a] # <<>>
    BY <1>13 DEF Write
  <2>2. Head(chan[a]) \in Lines /\ Tail(chan[a]) \in Seq(Msg)
    BY <2>1, Queues, LineKinds
  <2>3. Append(sock[a], Head(chan[a])) \in Seq(Lines)
    BY <2>2, Queues
  <2> QED BY <1>13, <2>2, <2>3 DEF Write, ToClient
<1>14. CASE WriterStops(a)
  BY <1>14 DEF WriterStops
<1> QED BY <1>1, <1>2, <1>3, <1>4, <1>5, <1>6, <1>7, <1>8, <1>9, <1>10, <1>11, <1>12,
           <1>13, <1>14 DEF Connection, Writer

LEMMA NextShapes == ASSUME TypeInv, Next PROVE Shapes'
BY ClientShapes, ConnectionShapes DEF Next, TypeInv

(***************************************************************************)
(* The lock.                                                               *)
(***************************************************************************)
LockStages == {"route", "ask"} \cup Writers

\* A step of a that leaves the lock alone.
LEMMA LockedAlone ==
  ASSUME Locked, UNCHANGED lock, NEW a \in Agents,
         \A c \in Agents : c = a \/ stage'[c] = stage[c],
         stage'[a] = stage[a] \/ (stage[a] \notin LockStages /\ stage'[a] \notin LockStages)
  PROVE  Locked'
BY DEF Locked, lock, LockStages, Writers

LEMMA LockedWait ==
  ASSUME Shapes, Locked, NEW a \in Agents, stage[a] \notin LockStages, Wait(a),
         NEW s \in {"ask"} \cup Writers, Goto(a, s)
  PROVE  Locked'
<1>1. waiting \in Seq(Agents) /\ a \notin ToSet(waiting) /\ IsInjective(waiting)
  BY DEF Locked, LockStages
<1>2. /\ waiting' \in Seq(Agents) /\ IsInjective(waiting')
      /\ ToSet(waiting') = ToSet(waiting) \cup {a}
  BY <1>1, ToSetAppend, InjectiveAppend DEF Wait
<1>3. \A c \in Agents : stage'[c] = IF c = a THEN s ELSE stage[c]
  BY DEF Goto, Shapes
<1>4. readers' = readers
  BY DEF Wait
<1> QED BY <1>2, <1>3, <1>4 DEF Locked, LockStages, Writers

LEMMA LockedWrite ==
  ASSUME Shapes, Locked, NEW a \in Agents, stage[a] \in Writers, MayWrite(a),
         waiting' = Tail(waiting), UNCHANGED readers,
         NEW s \in Stages \ LockStages, Goto(a, s)
  PROVE  Locked'
<1>1. waiting \in Seq(Agents) /\ waiting # <<>> /\ Head(waiting) = a /\ IsInjective(waiting)
  BY DEF Locked, MayWrite
<1>2. /\ waiting' \in Seq(Agents) /\ IsInjective(waiting')
      /\ ToSet(waiting') = ToSet(waiting) \ {a}
  BY <1>1, ToSetTail, InjectiveTail
<1>3. \A c \in Agents : stage'[c] = IF c = a THEN s ELSE stage[c]
  BY DEF Goto, Shapes
<1> QED BY <1>2, <1>3 DEF Locked, LockStages, Writers

LEMMA LockedRead ==
  ASSUME Shapes, Locked, NEW a \in Agents, stage[a] = "ask",
         NEW i \in DOMAIN waiting, MayRead(a, i), waiting' = RemoveAt(waiting, i),
         readers' = readers \cup {a}, Goto(a, "route")
  PROVE  Locked'
<1>1. waiting \in Seq(Agents) /\ waiting[i] = a /\ IsInjective(waiting)
  BY DEF Locked, MayRead
<1>2. /\ waiting' \in Seq(Agents) /\ IsInjective(waiting')
      /\ ToSet(waiting') = ToSet(waiting) \ {a}
  BY <1>1, InjectiveRemove
<1>3. \A c \in Agents : stage'[c] = IF c = a THEN "route" ELSE stage[c]
  BY DEF Goto, Shapes
<1>4. readers' = {c \in Agents : stage'[c] = "route"}
  BY <1>3 DEF Locked
<1>5. ToSet(waiting') = {c \in Agents : stage'[c] \in Writers \cup {"ask"}}
  BY <1>2, <1>3 DEF Locked, Writers
<1> QED BY <1>2, <1>4, <1>5 DEF Locked

LEMMA LockedRelease ==
  ASSUME Shapes, Locked, NEW a \in Agents, stage[a] = "route",
         readers' = readers \ {a}, UNCHANGED waiting, Goto(a, "read")
  PROVE  Locked'
<1>1. \A c \in Agents : stage'[c] = IF c = a THEN "read" ELSE stage[c]
  BY DEF Goto, Shapes
<1> QED BY <1>1 DEF Locked, Writers

LEMMA NextLocked == ASSUME TypeInv, Ends, Next PROVE Locked'
<1>1. PICK a \in Agents : Client(a) \/ Connection(a) \/ Writer(a)
  BY DEF Next
<1> USE DEF TypeInv
<1> DEFINE Alone == /\ UNCHANGED lock
                    /\ \A c \in Agents : c = a \/ stage'[c] = stage[c]
                    /\ \/ stage'[a] = stage[a]
                       \/ stage[a] \notin LockStages /\ stage'[a] \notin LockStages
<1>2. Alone => Locked'
  BY LockedAlone
<1>3. CASE Connect(a)
  <2>1. stage[a] = "new"
    BY <1>3 DEF Connect, Ends, Handshake
  <2> QED BY <1>2, <1>3, <2>1 DEF Connect, Goto, Shapes, LockStages, Writers
<1>4. CASE Client(a) /\ ~Connect(a)
  <2>1. UNCHANGED <<lock, stage>>
    BY <1>4 DEF Client, Reading, ClientAlign, ClientVerify, Recv, Send, Reply,
                RecvTimeout, Close, task
  <2> QED BY <1>2, <2>1
<1>5. CASE Echo(a) \/ Verify(a) \/ HandshakeEOF(a)
  <2>1. stage[a] \in {"probe", "align"} /\ UNCHANGED lock
    BY <1>5 DEF Echo, Verify, HandshakeEOF
  <2>2. \/ \E s \in {"align", "verified", "gone"} : Goto(a, s)
        \/ stage' \in {[stage EXCEPT ![a] = s] : s \in {"align", "verified", "gone"}}
    BY <1>5 DEF Echo, Verify, HandshakeEOF, WriteLine
  <2>3. \E s \in {"align", "verified", "gone"} : stage' = [stage EXCEPT ![a] = s]
    BY <2>2 DEF Goto
  <2> QED BY <1>2, <2>1, <2>3 DEF Shapes, LockStages, Writers
<1>6. CASE AskRegister(a)
  BY <1>6, LockedWait DEF AskRegister, LockStages, Writers
<1>7. CASE Insert(a)
  BY <1>7, LockedWrite DEF Insert, LockStages, Writers, Stages
<1>8. CASE ReadLine(a)
  <2>1. CASE Head(inbox[a]).kind = "msg"
    BY <1>8, <2>1, LockedWait DEF ReadLine, LockStages, Writers
  <2>2. CASE Head(inbox[a]).kind # "msg"
    BY <1>2, <1>8, <2>2 DEF ReadLine
  <2> QED BY <2>1, <2>2
<1>9. CASE Route(a)
  BY <1>9, LockedRead DEF Route
<1>10. CASE Deliver(a) \/ Writer(a)
  <2>1. UNCHANGED <<lock, stage>>
    BY <1>10 DEF Deliver, Writer, Write, WriterStops, task
  <2> QED BY <1>2, <2>1
<1>11. CASE Routed(a)
  BY <1>11, LockedRelease DEF Routed
<1>12. CASE ReadEOF(a)
  BY <1>12, LockedWait DEF ReadEOF, LockStages, Writers
<1>13. CASE ReadError(a)
  <2>1. CASE a \in Unix
    BY <1>2, <1>13, <2>1 DEF ReadError, Goto, Shapes, LockStages, Writers
  <2>2. CASE a \notin Unix
    BY <1>13, <2>2, LockedWait DEF ReadError, LockStages, Writers
  <2> QED BY <2>1, <2>2
<1>14. CASE RemoveAgent(a)
  BY <1>14, LockedWrite DEF RemoveAgent, LockStages, Writers, Stages
<1> QED BY <1>1, <1>3, <1>4, <1>5, <1>6, <1>7, <1>8, <1>9, <1>10, <1>11, <1>12, <1>13,
           <1>14 DEF Connection

(***************************************************************************)
(* The registry, and what a channel and a task hold.                       *)
(***************************************************************************)
LEMMA NextRegistry == ASSUME TypeInv, Next PROVE Registry'
<1>1. PICK a \in Agents : Client(a) \/ Connection(a) \/ Writer(a)
  BY DEF Next
<1>2. CASE Insert(a)
  <2> DEFINE n == Cardinality(agents)
             S == {peak, n + 1}
  <2>1. /\ agents \subseteq Agents /\ IsFiniteSet(agents) /\ peak \in Nat
        /\ agents' = agents \cup {a} /\ peak' = Max(S)
    BY <1>2 DEF TypeInv, Registry, Insert
  <2>2. n \in Nat /\ IsFiniteSet(agents') /\ Cardinality(agents') \in Nat
        /\ Cardinality(agents') <= n + 1
    <3>1. IsFiniteSet(agents') /\ Cardinality(agents') = IF a \in agents THEN n ELSE n + 1
      BY <2>1, FS_AddElement
    <3>2. n \in Nat
      BY <2>1, FS_CardinalityType
    <3> QED BY <3>1, <3>2
  <2> HIDE DEF n
  <2>3. \E x \in S : \A y \in S : x >= y
    <3>1. CASE peak >= n + 1
      BY <2>1, <2>2, <3>1
    <3>2. CASE ~(peak >= n + 1)
      BY <2>1, <2>2, <3>2
    <3> QED BY <3>1, <3>2
  <2>4. Max(S) \in S /\ \A y \in S : Max(S) >= y
    <3> HIDE DEF S
    <3> QED BY <2>3 DEF Max
  <2>5. peak' \in Nat /\ peak' >= n + 1
    BY <2>1, <2>2, <2>4
  <2>6. peak' >= Cardinality(agents')
    BY <2>2, <2>5
  <2> QED BY <2>1, <2>2, <2>5, <2>6 DEF Registry
<1>3. CASE RemoveAgent(a)
  <2>1. /\ agents \subseteq Agents /\ IsFiniteSet(agents) /\ peak \in Nat
        /\ agents' \subseteq agents /\ peak' = peak /\ peak >= Cardinality(agents)
    BY <1>3 DEF TypeInv, Registry, RemoveAgent
  <2>2. /\ IsFiniteSet(agents') /\ Cardinality(agents') \in Nat
        /\ Cardinality(agents) \in Nat /\ Cardinality(agents') <= Cardinality(agents)
    BY <2>1, FS_Subset, FS_CardinalityType
  <2>3. peak' >= Cardinality(agents')
    BY <2>1, <2>2
  <2> QED BY <2>1, <2>2, <2>3 DEF Registry
<1>4. CASE ~Insert(a) /\ ~RemoveAgent(a)
  <2>1. UNCHANGED <<agents, peak>>
    BY <1>1, <1>4 DEF Client, Reading, Connect, ClientAlign, ClientVerify, Recv, Send, Reply,
      RecvTimeout, Close, Connection, Echo, Verify, HandshakeEOF, AskRegister, ReadLine,
      Route, Deliver, Routed, ReadEOF, ReadError, Writer, Write, WriterStops
  <2> QED BY <2>1 DEF TypeInv, Registry
<1> QED BY <1>2, <1>3, <1>4

\* Only two actions bring a message to the lock and through it.
LEMMA NextStage ==
  ASSUME NEW a \in Agents, Client(a) \/ Connection(a) \/ Writer(a),
         ~ReadLine(a), ~Route(a)
  PROVE  \/ UNCHANGED stage
         \/ \E s \in Stages \ {"ask", "route"} : stage' = [stage EXCEPT ![a] = s]
<1> USE DEF Goto, Stages, task
<1>1. CASE Client(a)
  BY <1>1 DEF Client, Reading, Connect, ClientAlign, ClientVerify, Recv, Send, Reply,
              RecvTimeout, Close
<1>2. CASE Echo(a) \/ Verify(a)
  BY <1>2 DEF Echo, Verify, WriteLine
<1>3. CASE HandshakeEOF(a) \/ AskRegister(a) \/ Insert(a)
  BY <1>3 DEF HandshakeEOF, AskRegister, Insert
<1>4. CASE Deliver(a) \/ Routed(a) \/ ReadEOF(a)
  BY <1>4 DEF Deliver, Routed, ReadEOF
<1>5. CASE ReadError(a) \/ RemoveAgent(a) \/ Writer(a)
  BY <1>5 DEF ReadError, RemoveAgent, Writer, Write, WriterStops
<1> QED BY <1>1, <1>2, <1>3, <1>4, <1>5 DEF Connection

LEMMA NextHeld == ASSUME TypeInv, Next PROVE Held'
<1>1. PICK a \in Agents : Client(a) \/ Connection(a) \/ Writer(a)
  BY DEF Next
<1> DEFINE Full(c) == Len(chan[c]) <= ChanCap
           Routes(c) == stage[c] \in {"ask", "route"} => current[c] \in Msg
<1>2. \A c \in Agents : Len(chan[c]) \in Nat /\ Full(c) /\ Routes(c)
  BY LenProperties DEF TypeInv, Shapes, Held
<1>3. \A c \in Agents : Full(c)'
  <2>1. CASE Deliver(a)
    <3>1. todo[a] \in Seq(Agents) /\ todo[a] # <<>> /\ current[a] \in Msg
      BY <1>2, <2>1 DEF Deliver, TypeInv, Shapes
    <3>2. Head(todo[a]) \in Agents
      BY <3>1, Queues
    <3> DEFINE r == Head(todo[a])
    <3>3. chan[r] \in Seq(Msg)
      BY <3>2 DEF TypeInv, Shapes
    <3>4. Len(Append(chan[r], current[a])) = Len(chan[r]) + 1
      BY <3>1, <3>3, AppendProperties
    <3>5. \/ UNCHANGED chan
          \/ /\ Len(chan[r]) < ChanCap
             /\ chan' = [chan EXCEPT ![r] = Append(chan[r], current[a])]
      BY <2>1 DEF Deliver
    <3> HIDE DEF r
    <3>6. ASSUME NEW c \in Agents PROVE Full(c)'
      <4>1. CASE chan'[c] = chan[c]
        BY <1>2, <4>1
      <4>2. CASE chan'[c] # chan[c]
        <5>1. c = r /\ chan'[c] = Append(chan[r], current[a]) /\ Len(chan[r]) < ChanCap
          BY <3>5, <4>2 DEF TypeInv, Shapes
        <5>2. Len(chan[r]) + 1 <= ChanCap
          BY <1>2, <5>1, ServerAssumption
        <5> QED BY <3>4, <5>1, <5>2
      <4> QED BY <4>1, <4>2
    <3> QED BY <3>6
  <2>2. CASE Write(a)
    <3>1. chan[a] \in Seq(Msg) /\ chan[a] # <<>> /\ chan' = [chan EXCEPT ![a] = Tail(chan[a])]
      BY <2>2 DEF Write, TypeInv, Shapes
    <3>2. Len(Tail(chan[a])) = Len(chan[a]) - 1
      BY <3>1, HeadTailProperties
    <3>3. \A c \in Agents : chan'[c] = IF c = a THEN Tail(chan[a]) ELSE chan[c]
      BY <3>1 DEF TypeInv, Shapes
    <3>4. Len(chan[a]) - 1 <= ChanCap
      BY <1>2, ServerAssumption
    <3> QED BY <1>2, <3>2, <3>3, <3>4
  <2>3. CASE ~Deliver(a) /\ ~Write(a)
    <3>1. UNCHANGED chan \/ chan' = [chan EXCEPT ![a] = <<>>]
      BY <1>1, <2>3 DEF Client, Reading, Connect, ClientAlign, ClientVerify, Recv, Send, Reply,
        RecvTimeout, Close, Connection, Echo, Verify, HandshakeEOF, AskRegister, Insert,
        ReadLine, Route, Routed, ReadEOF, ReadError, RemoveAgent, Writer, WriterStops, out
    <3>2. Len(<<>>) = 0
      OBVIOUS
    <3>3. \A c \in Agents : chan'[c] \in {chan[c], <<>>}
      BY <3>1 DEF TypeInv, Shapes
    <3>4. 0 <= ChanCap
      BY ServerAssumption
    <3> QED BY <1>2, <3>2, <3>3, <3>4
  <2> QED BY <2>1, <2>2, <2>3
<1>4. \A c \in Agents : Routes(c)'
  <2>1. CASE ReadLine(a)
    <3>1. inbox[a] \in Seq(Lines) /\ inbox[a] # <<>>
      BY <2>1 DEF ReadLine, ReadHead, TypeInv, Shapes
    <3>2. Head(inbox[a]) \in Lines
      BY <3>1, Queues
    <3>3. Head(inbox[a]).kind = "msg" => Head(inbox[a]) \in Msg
      BY <3>2, LineKinds
    <3> QED BY <1>2, <2>1, <3>3 DEF ReadLine, TypeInv, Shapes, Goto
  <2>2. CASE Route(a)
    BY <1>2, <2>2 DEF Route, TypeInv, Shapes, Goto
  <2>3. CASE Routed(a)
    BY <1>2, <2>3 DEF Routed, TypeInv, Shapes, Goto
  <2>4. CASE ~ReadLine(a) /\ ~Route(a) /\ ~Routed(a)
    <3>1. UNCHANGED current
      BY <1>1, <2>4 DEF Client, Reading, Connect, ClientAlign, ClientVerify, Recv, Send, Reply,
        RecvTimeout, Close, Connection, Echo, Verify, HandshakeEOF, AskRegister, Insert,
        Deliver, ReadEOF, ReadError, RemoveAgent, Writer, Write, WriterStops, task
    <3>2. \/ UNCHANGED stage
          \/ \E s \in Stages \ {"ask", "route"} : stage' = [stage EXCEPT ![a] = s]
      BY <1>1, <2>4, NextStage
    <3> QED BY <1>2, <3>1, <3>2 DEF TypeInv, Shapes
  <2> QED BY <2>1, <2>2, <2>3, <2>4
<1> QED BY <1>3, <1>4 DEF Held

-----------------------------------------------------------------------------
(***************************************************************************)
(* The handshake and the registry.                                         *)
(***************************************************************************)
LEMMA ShortQueues ==
  /\ \A s \in Seq(Lines), l \in Lines :
       /\ Append(s, l) # <<>>
       /\ s = <<>> => Append(s, l) = <<l>> /\ Len(Append(s, l)) = 1 /\ Head(Append(s, l)) = l
       /\ s # <<>> => Head(Append(s, l)) = Head(s)
  /\ \A s \in Seq(Lines) : Len(s) = 1 => s # <<>> /\ Tail(s) = <<>>
  /\ \A l : Tail(<<l>>) = <<>> /\ Head(<<l>>) = l /\ <<l>> # <<>>
<1>1. ASSUME NEW s \in Seq(Lines), NEW l \in Lines
      PROVE  /\ Append(s, l) # <<>>
             /\ s = <<>> => Append(s, l) = <<l>> /\ Len(Append(s, l)) = 1 /\ Head(Append(s, l)) = l
             /\ s # <<>> => Head(Append(s, l)) = Head(s)
  <2>1. Len(Append(s, l)) = Len(s) + 1 /\ Len(s) \in Nat
    BY AppendProperties, LenProperties
  <2>2. Append(s, l) # <<>>
    BY <2>1
  <2>3. s = <<>> => Append(s, l) = <<l>> /\ Len(Append(s, l)) = 1 /\ Head(Append(s, l)) = l
    OBVIOUS
  <2>4. s # <<>> => Head(Append(s, l)) = Head(s)
    <3>1. SUFFICES ASSUME s # <<>> PROVE Head(Append(s, l)) = Head(s)
      OBVIOUS
    <3>2. 1 \in 1 .. Len(s) /\ Append(s, l)[1] = s[1]
      BY <3>1, AppendProperties, EmptySeq
    <3> QED BY <3>2
  <2> QED BY <2>2, <2>3, <2>4
<1>2. ASSUME NEW s \in Seq(Lines), Len(s) = 1 PROVE s # <<>> /\ Tail(s) = <<>>
  <2>1. s # <<>>
    BY <1>2, EmptySeq
  <2>2. Tail(s) \in Seq(Lines) /\ Len(Tail(s)) = 0
    BY <1>2, <2>1, HeadTailProperties
  <2> QED BY <2>1, <2>2, EmptySeq
<1>3. \A l : Tail(<<l>>) = <<>> /\ Head(<<l>>) = l /\ <<l>> # <<>>
  OBVIOUS
<1> QED BY <1>1, <1>2, <1>3

\* A step of a is no business of another connection's ends.
Untouched(c) ==
  /\ client'[c] = client[c] /\ stage'[c] = stage[c] /\ inbox'[c] = inbox[c]
  /\ sock'[c] = sock[c] /\ writer'[c] = writer[c] /\ (c \in agents' <=> c \in agents)

LEMMA OthersUntouched ==
  ASSUME NEW a \in Agents, Shapes, Client(a) \/ Connection(a) \/ Writer(a),
         NEW c \in Agents, c # a
  PROVE  Untouched(c)
<1> USE DEF Untouched, Shapes, Goto, ClientGoto, ToServer, ToClient, WriteLine, ReadHead,
            ends, task, out
<1>1. CASE Connect(a) \/ ClientAlign(a)
  BY <1>1 DEF Connect, ClientAlign
<1>2. CASE ClientVerify(a) \/ Recv(a) \/ RecvTimeout(a) \/ Close(a)
  BY <1>2 DEF ClientVerify, Recv, RecvTimeout, Close
<1>3. CASE Send(a) \/ Reply(a)
  BY <1>3 DEF Send, Reply
<1>4. CASE Echo(a) \/ Verify(a) \/ HandshakeEOF(a)
  BY <1>4 DEF Echo, Verify, HandshakeEOF
<1>5. CASE AskRegister(a) \/ Insert(a) \/ ReadLine(a)
  BY <1>5 DEF AskRegister, Insert, ReadLine
<1>6. CASE Route(a) \/ Deliver(a) \/ Routed(a)
  BY <1>6 DEF Route, Deliver, Routed
<1>7. CASE ReadEOF(a) \/ ReadError(a) \/ RemoveAgent(a)
  BY <1>7 DEF ReadEOF, ReadError, RemoveAgent
<1>8. CASE Write(a) \/ WriterStops(a)
  BY <1>8 DEF Write, WriterStops
<1> QED BY <1>1, <1>2, <1>3, <1>4, <1>5, <1>6, <1>7, <1>8
        DEF Client, Reading, Connection, Writer

LEMMA InitEnds == Init => Ends
BY DEF Init, Ends, Handshake, Registered, Served

LEMMA ClientEnds ==
  ASSUME NEW a \in Agents, Shapes, Ends, Client(a)
  PROVE  Handshake(a)' /\ Registered(a)'
<1> USE ShortQueues, LineKinds
<1>0. /\ Handshake(a) /\ Registered(a)
      /\ inbox[a] \in Seq(Lines) /\ sock[a] \in Seq(Lines)
  BY DEF Ends, Shapes
<1> USE DEF Handshake, Registered, Served, Shapes, ClientGoto, Goto, ToServer, task, out, ends
<1>1. CASE Connect(a)
  <2>1. PICK k \in Kinds : ToServer(a, Line(k))
    BY <1>1 DEF Connect, Kinds
  <2> QED BY <1>0, <1>1, <2>1 DEF Connect
<1>2. CASE ClientAlign(a)
  <2>1. stage[a] = "align" => inbox[a] = <<>>
    BY <1>0, <1>2 DEF ClientAlign
  <2>2. CASE Head(sock[a]).kind = "registered"
    <3>1. PICK k \in Kinds : ToServer(a, Line(k))
      BY <1>2, <2>2 DEF ClientAlign, Kinds
    <3> QED BY <1>0, <1>2, <2>1, <2>2, <3>1 DEF ClientAlign
  <2>3. CASE Head(sock[a]).kind # "registered"
    BY <1>0, <1>2, <2>3 DEF ClientAlign
  <2> QED BY <2>2, <2>3
<1>3. CASE ClientVerify(a)
  BY <1>0, <1>3 DEF ClientVerify, Kinds
<1>4. CASE Recv(a) \/ RecvTimeout(a) \/ Close(a)
  BY <1>0, <1>4 DEF Recv, RecvTimeout, Close
<1>5. CASE Send(a) \/ Reply(a)
  BY <1>0, <1>5 DEF Send, Reply, CanSend
<1> QED BY <1>1, <1>2, <1>3, <1>4, <1>5 DEF Client, Reading

LEMMA ConnectionEnds ==
  ASSUME NEW a \in Agents, TypeInv, Ends, Connection(a) \/ Writer(a)
  PROVE  Handshake(a)' /\ Registered(a)'
<1> USE ShortQueues, LineKinds
<1>0. /\ Handshake(a) /\ Registered(a)
      /\ inbox[a] \in Seq(Lines) /\ sock[a] \in Seq(Lines)
  BY DEF Ends, TypeInv, Shapes
<1> USE DEF Handshake, Registered, Served, TypeInv, Shapes, Goto, ReadHead, task, out, ends
<1>1. CASE Echo(a)
  BY <1>0, <1>1 DEF Echo, WriteLine, ToClient, Kinds
<1>2. CASE Verify(a)
  BY <1>0, <1>2 DEF Verify, WriteLine, ToClient, Kinds
<1>3. CASE HandshakeEOF(a)
  BY <1>0, <1>3 DEF HandshakeEOF
<1>4. CASE AskRegister(a)
  BY <1>0, <1>4 DEF AskRegister
<1>5. CASE Insert(a)
  BY <1>0, <1>5 DEF Insert
<1>6. CASE ReadLine(a)
  BY <1>0, <1>6 DEF ReadLine
<1>7. CASE Route(a) \/ Deliver(a) \/ Routed(a)
  BY <1>0, <1>7 DEF Route, Deliver, Routed
<1>8. CASE ReadEOF(a)
  BY <1>0, <1>8 DEF ReadEOF
<1>9. CASE ReadError(a)
  BY <1>0, <1>9 DEF ReadError, ReadFails
<1>10. CASE RemoveAgent(a)
  BY <1>0, <1>10 DEF RemoveAgent
<1>11. CASE Write(a)
  <2>1. chan[a] \in Seq(Msg) /\ chan[a] # <<>>
    BY <1>11 DEF Write
  <2>2. Head(chan[a]) \in Lines
    BY <2>1, Queues
  <2>3. /\ UNCHANGED <<client, stage, inbox, writer, agents>> /\ writer[a] = "running"
        /\ \/ client[a] = "closed" \/ sock'[a] = Append(sock[a], Head(chan[a]))
    BY <1>11 DEF Write, ToClient
  <2>4. client[a] \in {"align", "up", "closed"} /\ (client[a] = "align" => stage[a] \in Served)
    BY <1>0, <2>3
  <2>5. CASE client[a] # "align"
    BY <1>0, <2>3, <2>4, <2>5
  <2>6. CASE client[a] = "align"
    <3>1. sock[a] # <<>> /\ Head(sock[a]) = Line("ready")
      BY <1>0, <2>4, <2>6
    <3>2. sock'[a] # <<>> /\ Head(sock'[a]) = Line("ready")
      <4> DEFINE t == Append(sock[a], Head(chan[a]))
      <4>1. t # <<>> /\ Head(t) = Head(sock[a])
        BY <1>0, <2>2, <3>1
      <4>2. sock'[a] = t
        BY <2>3, <2>6
      <4> HIDE DEF t
      <4> QED BY <3>1, <4>1, <4>2
    <3> QED BY <1>0, <2>3, <2>4, <2>6, <3>2
  <2> QED BY <2>5, <2>6
<1>12. CASE WriterStops(a)
  BY <1>0, <1>12 DEF WriterStops
<1> QED BY <1>1, <1>2, <1>3, <1>4, <1>5, <1>6, <1>7, <1>8, <1>9, <1>10, <1>11, <1>12
        DEF Connection, Writer

LEMMA NextEnds == ASSUME TypeInv, Ends, Next PROVE Ends'
<1>1. PICK a \in Agents : Client(a) \/ Connection(a) \/ Writer(a)
  BY DEF Next
<1>2. Handshake(a)' /\ Registered(a)'
  BY <1>1, ClientEnds, ConnectionEnds DEF TypeInv
<1>3. ASSUME NEW c \in Agents, c # a PROVE Handshake(c)' /\ Registered(c)'
  <2>1. Untouched(c) /\ Handshake(c) /\ Registered(c)
    BY <1>1, <1>3, OthersUntouched DEF Ends, TypeInv
  <2> QED BY <2>1 DEF Untouched, Handshake, Registered
<1> QED BY <1>2, <1>3 DEF Ends

-----------------------------------------------------------------------------
(***************************************************************************)
(* Messages in order.                                                      *)
(***************************************************************************)
LEMMA NotOlder ==
  \A k \in Kinds : \A l : Older(Line(k), l) /\ Older(l, Line(k))
BY LineKinds DEF Older

LEMMA SortedAppend ==
  ASSUME NEW s \in Seq(Lines), NEW e \in Lines, Sorted(s), \A m \in ToSet(s) : Older(m, e)
  PROVE  Sorted(Append(s, e))
<1>1. /\ Len(s) \in Nat /\ DOMAIN s = 1 .. Len(s) /\ DOMAIN Append(s, e) = 1 .. Len(s) + 1
      /\ \A i \in 1 .. Len(s) : Append(s, e)[i] = s[i]
      /\ Append(s, e)[Len(s) + 1] = e
  BY AppendProperties, LenProperties
<1>2. \A i \in 1 .. Len(s) : Older(s[i], e)
  BY <1>1 DEF ToSet
<1>3. SUFFICES ASSUME NEW i \in 1 .. Len(s) + 1, NEW j \in 1 .. Len(s) + 1, i < j
               PROVE  Older(Append(s, e)[i], Append(s, e)[j])
  BY <1>1 DEF Sorted
<1>4. i \in 1 .. Len(s)
  BY <1>1, <1>3
<1>5. CASE j = Len(s) + 1
  BY <1>1, <1>2, <1>4, <1>5
<1>6. CASE j \in 1 .. Len(s)
  BY <1>1, <1>3, <1>4, <1>6 DEF Sorted
<1> QED BY <1>1, <1>5, <1>6

LEMMA SortedTail ==
  ASSUME NEW s \in Seq(Lines), s # <<>>, Sorted(s)
  PROVE  Sorted(Tail(s)) /\ \A m \in ToSet(Tail(s)) : Older(Head(s), m)
<1>1. /\ Len(s) \in Nat \ {0} /\ Head(s) = s[1]
      /\ \A i \in 1 .. Len(s) - 1 : Tail(s)[i] = s[i + 1]
      /\ DOMAIN s = 1 .. Len(s) /\ DOMAIN Tail(s) = 1 .. Len(s) - 1
  BY HeadTailProperties, LenProperties, EmptySeq
<1>2. Sorted(Tail(s))
  <2>1. SUFFICES ASSUME NEW i \in 1 .. Len(s) - 1, NEW j \in 1 .. Len(s) - 1, i < j
                 PROVE  Older(Tail(s)[i], Tail(s)[j])
    BY <1>1 DEF Sorted
  <2>2. i + 1 \in 1 .. Len(s) /\ j + 1 \in 1 .. Len(s) /\ i + 1 < j + 1
    BY <1>1, <2>1
  <2> QED BY <1>1, <2>2 DEF Sorted
<1>3. ASSUME NEW m \in ToSet(Tail(s)) PROVE Older(Head(s), m)
  <2>1. PICK i \in 1 .. Len(s) - 1 : m = Tail(s)[i]
    BY <1>1 DEF ToSet
  <2>2. 1 \in 1 .. Len(s) /\ i + 1 \in 1 .. Len(s) /\ 1 < i + 1 /\ m = s[i + 1]
    BY <1>1, <2>1
  <2> QED BY <1>1, <2>2 DEF Sorted
<1> QED BY <1>2, <1>3

LEMMA SortedRest ==
  ASSUME NEW s \in Seq(Lines), NEW k \in Kinds, Sorted(s)
  PROVE  /\ <<Line(k)>> \o s \in Seq(Lines) /\ Sorted(<<Line(k)>> \o s)
         /\ ToSet(<<Line(k)>> \o s) = {Line(k)} \cup ToSet(s)
<1> DEFINE t == <<Line(k)>> \o s
<1>1. <<Line(k)>> \in Seq(Lines) /\ Len(<<Line(k)>>) = 1 /\ <<Line(k)>>[1] = Line(k)
  BY LineKinds
<1>2. /\ Len(s) \in Nat /\ t \in Seq(Lines) /\ DOMAIN s = 1 .. Len(s)
      /\ DOMAIN t = 1 .. Len(s) + 1
      /\ \A i \in 1 .. Len(s) + 1 : t[i] = IF i <= 1 THEN Line(k) ELSE s[i - 1]
  <2>1. Len(s) \in Nat /\ DOMAIN s = 1 .. Len(s)
    BY LenProperties
  <2>2. /\ t \in Seq(Lines) /\ Len(t) = 1 + Len(s)
        /\ \A i \in 1 .. 1 + Len(s) : t[i] = IF i <= 1 THEN <<Line(k)>>[i] ELSE s[i - 1]
    BY <1>1, ConcatProperties
  <2>3. DOMAIN t = 1 .. Len(s) + 1
    BY <2>1, <2>2, LenProperties
  <2>4. ASSUME NEW i \in 1 .. Len(s) + 1 PROVE t[i] = IF i <= 1 THEN Line(k) ELSE s[i - 1]
    <3>1. i \in 1 .. 1 + Len(s) /\ (i <= 1 => i = 1)
      BY <2>1
    <3> QED BY <1>1, <2>2, <3>1
  <2> QED BY <2>1, <2>2, <2>3, <2>4
<1> HIDE DEF t
<1>3. t[1] = Line(k) /\ \A i \in 1 .. Len(s) : t[i + 1] = s[i]
  BY <1>2
<1>4. Sorted(t)
  <2>1. SUFFICES ASSUME NEW i \in 1 .. Len(s) + 1, NEW j \in 1 .. Len(s) + 1, i < j
                 PROVE  Older(t[i], t[j])
    BY <1>2 DEF Sorted
  <2>2. CASE i = 1
    BY <1>3, <2>2, NotOlder
  <2>3. CASE i # 1
    <3>1. /\ i - 1 \in 1 .. Len(s) /\ j - 1 \in 1 .. Len(s) /\ i - 1 < j - 1
          /\ ~(i <= 1) /\ ~(j <= 1)
      BY <1>2, <2>1, <2>3
    <3> QED BY <1>2, <3>1 DEF Sorted
  <2> QED BY <2>2, <2>3
<1>5. ToSet(t) \subseteq {Line(k)} \cup ToSet(s)
  <2>1. SUFFICES ASSUME NEW i \in 1 .. Len(s) + 1 PROVE t[i] \in {Line(k)} \cup ToSet(s)
    BY <1>2 DEF ToSet
  <2>2. CASE i = 1
    BY <1>3, <2>2
  <2>3. CASE i # 1
    <3>1. i - 1 \in 1 .. Len(s) /\ ~(i <= 1)
      BY <1>2, <2>3
    <3> QED BY <1>2, <3>1 DEF ToSet
  <2> QED BY <2>2, <2>3
<1>6. {Line(k)} \cup ToSet(s) \subseteq ToSet(t)
  <2>1. 1 \in 1 .. Len(s) + 1 /\ \A i \in 1 .. Len(s) : i + 1 \in 1 .. Len(s) + 1
    BY <1>2
  <2>2. Line(k) \in ToSet(t)
    BY <1>2, <1>3, <2>1 DEF ToSet
  <2>3. \A i \in 1 .. Len(s) : s[i] \in ToSet(t)
    BY <1>2, <1>3, <2>1 DEF ToSet
  <2> QED BY <1>2, <2>2, <2>3 DEF ToSet
<1> QED BY <1>2, <1>4, <1>5, <1>6 DEF t

LEMMA SortedEmpty == Sorted(<<>>)
BY DEF Sorted

(***************************************************************************)
(* What a step does to the lines on their way: it passes one on, or drops  *)
(* it; the order remains.                                                  *)
(***************************************************************************)
LEMMA PopInLine ==
  ASSUME NEW g \in Seq(Lines), NEW s \in Seq(Lines), NEW c \in Seq(Lines), InLine(g, s, c)
  PROVE  /\ s # <<>> => InLine(g, Tail(s), c)
         /\ c # <<>> => InLine(g, s, Tail(c))
         /\ InLine(g, s, <<>>)
<1>1. s # <<>> => InLine(g, Tail(s), c)
  BY SortedTail, ToSetTail DEF InLine, Before
<1>2. c # <<>> => InLine(g, s, Tail(c))
  BY SortedTail, ToSetTail DEF InLine, Before
<1>3. InLine(g, s, <<>>)
  BY SortedEmpty, ToSetEmpty DEF InLine, Before
<1> QED BY <1>1, <1>2, <1>3

LEMMA MoveInLine ==
  ASSUME NEW g \in Seq(Lines), NEW s \in Seq(Lines), NEW c \in Seq(Lines), InLine(g, s, c)
  PROVE  /\ s # <<>> => InLine(Append(g, Head(s)), Tail(s), c)
         /\ c # <<>> => InLine(g, Append(s, Head(c)), Tail(c))
<1>1. ASSUME s # <<>> PROVE InLine(Append(g, Head(s)), Tail(s), c)
  <2>1. /\ Head(s) \in Lines /\ ToSet(s) = {Head(s)} \cup ToSet(Tail(s))
        /\ Sorted(Tail(s)) /\ \A m \in ToSet(Tail(s)) : Older(Head(s), m)
    BY <1>1, SortedTail, ToSetTail DEF InLine
  <2>2. \A m \in ToSet(g) : Older(m, Head(s))
    BY <2>1 DEF InLine, Before
  <2>3. Sorted(Append(g, Head(s))) /\ ToSet(Append(g, Head(s))) = ToSet(g) \cup {Head(s)}
    BY <2>1, <2>2, SortedAppend, ToSetAppend DEF InLine
  <2> QED BY <2>1, <2>3 DEF InLine, Before
<1>2. ASSUME c # <<>> PROVE InLine(g, Append(s, Head(c)), Tail(c))
  <2>1. /\ Head(c) \in Lines /\ ToSet(c) = {Head(c)} \cup ToSet(Tail(c))
        /\ Sorted(Tail(c)) /\ \A m \in ToSet(Tail(c)) : Older(Head(c), m)
    BY <1>2, SortedTail, ToSetTail DEF InLine
  <2>2. \A m \in ToSet(s) : Older(m, Head(c))
    BY <2>1 DEF InLine, Before
  <2>3. Sorted(Append(s, Head(c))) /\ ToSet(Append(s, Head(c))) = ToSet(s) \cup {Head(c)}
    BY <2>1, <2>2, SortedAppend, ToSetAppend DEF InLine
  <2> QED BY <2>1, <2>3 DEF InLine, Before
<1> QED BY <1>1, <1>2

LEMMA PutInLine ==
  ASSUME NEW g \in Seq(Lines), NEW s \in Seq(Lines), NEW c \in Seq(Lines), InLine(g, s, c)
  PROVE  /\ \A k \in Kinds : InLine(g, Append(s, Line(k)), c)
         /\ s # <<>> => \A k \in Kinds : InLine(g, <<Line(k)>> \o Tail(s), c)
         /\ \A m \in Lines : (\A l \in Along(g, s, c) : Older(l, m))
                            => InLine(g, s, Append(c, m))
<1>1. ASSUME NEW k \in Kinds PROVE InLine(g, Append(s, Line(k)), c)
  <2>1. Line(k) \in Lines
    BY LineKinds
  <2>2. /\ Sorted(Append(s, Line(k)))
        /\ ToSet(Append(s, Line(k))) = ToSet(s) \cup {Line(k)}
    BY <2>1, NotOlder, SortedAppend, ToSetAppend DEF InLine
  <2> QED BY <2>2, NotOlder DEF InLine, Before
<1>2. ASSUME s # <<>>, NEW k \in Kinds PROVE InLine(g, <<Line(k)>> \o Tail(s), c)
  <2> DEFINE t == <<Line(k)>> \o Tail(s)
  <2>1. InLine(g, Tail(s), c) /\ Tail(s) \in Seq(Lines)
    BY <1>2, PopInLine, ToSetTail
  <2>2. Sorted(t) /\ ToSet(t) = {Line(k)} \cup ToSet(Tail(s))
    BY <2>1, SortedRest DEF InLine
  <2> HIDE DEF t
  <2>3. InLine(g, t, c)
    BY <2>1, <2>2, NotOlder DEF InLine, Before
  <2> QED BY <2>3 DEF t
<1>3. ASSUME NEW m \in Lines, \A l \in Along(g, s, c) : Older(l, m)
      PROVE  InLine(g, s, Append(c, m))
  <2>1. Sorted(Append(c, m)) /\ ToSet(Append(c, m)) = ToSet(c) \cup {m}
    BY <1>3, SortedAppend, ToSetAppend DEF InLine, Along
  <2> QED BY <1>3, <2>1 DEF InLine, Before, Along
<1> QED BY <1>1, <1>2, <1>3

(***************************************************************************)
(* The ways in which the lines on their way to r change, but for a new     *)
(* message in its channel: nothing, a line of the handshake is read or     *)
(* written, a message is received, a read gives up, the writer task passes *)
(* a message on or drops it, and the channel closes.                       *)
(***************************************************************************)
Slide(r) ==
  /\ client[r] = "closed" => client'[r] = "closed"
  /\ \/ got'[r] = got[r] /\ sock'[r] = sock[r] /\ chan'[r] = chan[r]
     \/ /\ sock[r] # <<>> /\ Head(sock[r]).kind # "msg"
        /\ got'[r] = got[r] /\ sock'[r] = Tail(sock[r]) /\ chan'[r] = chan[r]
     \/ /\ \E k \in Kinds : sock'[r] = Append(sock[r], Line(k))
        /\ got'[r] = got[r] /\ chan'[r] = chan[r]
     \/ /\ sock[r] # <<>> /\ got'[r] = Append(got[r], Head(sock[r]))
        /\ sock'[r] = Tail(sock[r]) /\ chan'[r] = chan[r]
     \/ /\ r \in Impatient /\ sock[r] # <<>>
        /\ \E k \in Kinds : sock'[r] = <<Line(k)>> \o Tail(sock[r])
        /\ got'[r] = got[r] /\ chan'[r] = chan[r]
     \/ /\ chan[r] # <<>> /\ sock'[r] = Append(sock[r], Head(chan[r]))
        /\ chan'[r] = Tail(chan[r]) /\ got'[r] = got[r]
     \/ /\ client[r] = "closed" \/ r \notin agents'
        /\ got'[r] = got[r] /\ sock'[r] = sock[r]
        /\ chan'[r] = <<>> \/ (chan[r] # <<>> /\ chan'[r] = Tail(chan[r]))

\* Nothing new arrives, the order remains, and only a client that is gone, one
\* that gives up reading, or one that the registry drops, loses a message.
LEMMA SlideKeeps ==
  ASSUME NEW r \in Agents, Shapes, Slide(r), Arriving(r)
  PROVE  /\ Arriving(r)'
         /\ \A m \in Seen(r)' : m.kind = "msg" => m \in Seen(r)
         /\ \A m \in Seen(r) : m.kind = "msg" =>
              m \in Seen(r)' \/ client'[r] = "closed" \/ r \in Impatient \/ r \notin agents'
<1> DEFINE g == got[r]
           s == sock[r]
           c == chan[r]
<1> USE LineKinds
<1>1. g \in Seq(Lines) /\ s \in Seq(Lines) /\ c \in Seq(Lines)
  BY SeqMonotonic DEF Shapes
<1>2. InLine(g, s, c) /\ Seen(r) = Along(g, s, c)
  BY DEF Arriving, Seen
<1> DEFINE G == got'[r]
           S == sock'[r]
           C == chan'[r]
<1>3. /\ Arriving(r)' <=> InLine(G, S, C)
      /\ Seen(r)' = Along(G, S, C)
  BY DEF Arriving, Seen
<1> DEFINE Goal == /\ InLine(G, S, C)
                   /\ \A m \in Along(G, S, C) : m.kind = "msg" => m \in Along(g, s, c)
                   /\ \A m \in Along(g, s, c) : m.kind = "msg" =>
                        \/ m \in Along(G, S, C) \/ client'[r] = "closed"
                        \/ r \in Impatient \/ r \notin agents'
<1>4. SUFFICES Goal
  BY <1>2, <1>3
<1>5. client[r] = "closed" => client'[r] = "closed"
  BY DEF Slide
<1> HIDE DEF g, s, c, G, S, C
<1>6. CASE G = g /\ S = s /\ C = c
  BY <1>2, <1>6
<1>7. CASE s # <<>> /\ Head(s).kind # "msg" /\ G = g /\ S = Tail(s) /\ C = c
  <2>1. InLine(G, S, C) /\ ToSet(s) = {Head(s)} \cup ToSet(S)
    BY <1>1, <1>2, <1>7, PopInLine, ToSetTail
  <2> QED BY <1>7, <2>1 DEF Along
<1>8. CASE (\E k \in Kinds : S = Append(s, Line(k))) /\ G = g /\ C = c
  <2>1. PICK k \in Kinds : S = Append(s, Line(k))
    BY <1>8
  <2>2. InLine(G, S, C) /\ ToSet(S) = ToSet(s) \cup {Line(k)}
    BY <1>1, <1>2, <1>8, <2>1, PutInLine, ToSetAppend
  <2> QED BY <1>8, <2>2 DEF Along
<1>9. CASE s # <<>> /\ G = Append(g, Head(s)) /\ S = Tail(s) /\ C = c
  <2>1. Head(s) \in Lines /\ ToSet(s) = {Head(s)} \cup ToSet(S)
    BY <1>1, <1>9, ToSetTail
  <2>2. InLine(G, S, C) /\ ToSet(G) = ToSet(g) \cup {Head(s)}
    BY <1>1, <1>2, <1>9, <2>1, MoveInLine, ToSetAppend
  <2> QED BY <1>9, <2>1, <2>2 DEF Along
<1>10. CASE /\ r \in Impatient /\ s # <<>> /\ G = g /\ C = c
            /\ \E k \in Kinds : S = <<Line(k)>> \o Tail(s)
  <2>1. PICK k \in Kinds : S = <<Line(k)>> \o Tail(s)
    BY <1>10
  <2>2. /\ Tail(s) \in Seq(Lines) /\ Sorted(Tail(s))
        /\ ToSet(s) = {Head(s)} \cup ToSet(Tail(s))
    BY <1>1, <1>2, <1>10, ToSetTail, SortedTail DEF InLine
  <2>3. InLine(G, S, C) /\ ToSet(S) = {Line(k)} \cup ToSet(Tail(s))
    BY <1>1, <1>2, <1>10, <2>1, <2>2, PutInLine, SortedRest
  <2> QED BY <1>10, <2>2, <2>3 DEF Along
<1>11. CASE c # <<>> /\ S = Append(s, Head(c)) /\ C = Tail(c) /\ G = g
  <2>1. Head(c) \in Lines /\ ToSet(c) = {Head(c)} \cup ToSet(C)
    BY <1>1, <1>11, ToSetTail
  <2>2. InLine(G, S, C) /\ ToSet(S) = ToSet(s) \cup {Head(c)}
    BY <1>1, <1>2, <1>11, <2>1, MoveInLine, ToSetAppend
  <2> QED BY <1>11, <2>1, <2>2 DEF Along
<1>12. CASE /\ client[r] = "closed" \/ r \notin agents'
            /\ G = g /\ S = s
            /\ C = <<>> \/ (c # <<>> /\ C = Tail(c))
  <2>1. InLine(G, S, C) /\ ToSet(C) \subseteq ToSet(c)
    <3>1. CASE C = <<>>
      BY <1>1, <1>2, <1>12, <3>1, PopInLine, ToSetEmpty
    <3>2. CASE c # <<>> /\ C = Tail(c)
      BY <1>1, <1>2, <1>12, <3>2, PopInLine, ToSetTail
    <3> QED BY <1>12, <3>1, <3>2
  <2> QED BY <1>5, <1>12, <2>1 DEF Along
<1> QED BY <1>6, <1>7, <1>8, <1>9, <1>10, <1>11, <1>12 DEF Slide, g, s, c, G, S, C

LEMMA Slides ==
  ASSUME NEW a \in Agents, Shapes, Ends, Client(a) \/ Connection(a) \/ Writer(a), ~Deliver(a),
         NEW r \in Agents
  PROVE  Slide(r)
<1> USE DEF Slide, Shapes, ends, task, out
<1>0. Handshake(a) /\ Registered(a)
  BY DEF Ends
<1>1. CASE Connect(a)
  BY <1>1 DEF Connect, ClientGoto
<1>2. CASE ClientAlign(a)
  <2>1. Head(sock[a]).kind # "msg"
    BY <1>0, <1>2, ShortQueues, LineKinds DEF ClientAlign, Handshake, Kinds
  <2> QED BY <1>2, <2>1 DEF ClientAlign, ClientGoto
<1>3. CASE ClientVerify(a)
  <2>1. Head(sock[a]).kind # "msg"
    BY <1>0, <1>3, ShortQueues, LineKinds DEF ClientVerify, Handshake, Kinds
  <2> QED BY <1>3, <2>1 DEF ClientVerify, ClientGoto
<1>4. CASE Recv(a)
  <2>1. CASE Head(sock[a]).kind = "msg"
    <3>1. /\ got' = [got EXCEPT ![a] = Append(@, Head(sock[a]))]
          /\ sock' = [sock EXCEPT ![a] = Tail(@)] /\ UNCHANGED <<client, chan>>
      BY <1>4, <2>1 DEF Recv
    <3>2. CASE r = a
      <4>1. /\ sock[r] # <<>> /\ got'[r] = Append(got[r], Head(sock[r]))
            /\ sock'[r] = Tail(sock[r]) /\ chan'[r] = chan[r] /\ client'[r] = client[r]
        BY <1>4, <3>1, <3>2 DEF Recv
      <4> QED BY <4>1
    <3>3. CASE r # a
      BY <3>1, <3>3
    <3> QED BY <3>2, <3>3
  <2>2. CASE Head(sock[a]).kind # "msg"
    BY <1>4, <2>2 DEF Recv
  <2> QED BY <2>1, <2>2
<1>5. CASE Send(a) \/ Reply(a)
  BY <1>5 DEF Send, Reply
<1>6. CASE RecvTimeout(a)
  BY <1>6 DEF RecvTimeout, Kinds
<1>7. CASE Close(a)
  BY <1>7 DEF Close, ClientGoto
<1>8. CASE Echo(a)
  BY <1>8 DEF Echo, WriteLine, ToClient, Kinds
<1>9. CASE Verify(a)
  BY <1>9 DEF Verify, WriteLine, ToClient, Kinds
<1>10. CASE HandshakeEOF(a) \/ AskRegister(a) \/ Insert(a) \/ ReadLine(a)
  BY <1>10 DEF HandshakeEOF, AskRegister, Insert, ReadLine
<1>11. CASE Route(a) \/ Routed(a) \/ ReadEOF(a) \/ ReadError(a)
  BY <1>11 DEF Route, Routed, ReadEOF, ReadError
<1>12. CASE RemoveAgent(a)
  <2>1. a \notin agents'
    BY <1>12 DEF RemoveAgent
  <2> QED BY <1>12, <2>1 DEF RemoveAgent
<1>13. CASE Write(a)
  BY <1>13 DEF Write, ToClient
<1>14. CASE WriterStops(a)
  <2>1. client[a] = "closed"
    BY <1>0, <1>14 DEF WriterStops, Registered
  <2> QED BY <1>14, <2>1 DEF WriterStops
<1> QED BY <1>1, <1>2, <1>3, <1>4, <1>5, <1>6, <1>7, <1>8, <1>9, <1>10, <1>11, <1>12, <1>13,
           <1>14 DEF Client, Reading, Connection, Writer

(***************************************************************************)
(* What a step does to the messages of client c that are not on their way  *)
(* yet: some are dropped, one is sent, one is read, its targets are set.   *)
(***************************************************************************)
Idle(c) ==
  /\ sent'[c] >= sent[c]
  /\ \/ inbox'[c] = inbox[c] \/ inbox'[c] = <<>>
     \/ inbox[c] # <<>> /\ inbox'[c] = Tail(inbox[c])
     \/ \E k \in Kinds : inbox'[c] = Append(inbox[c], Line(k))
  /\ stage'[c] \in {"ask", "route"} =>
       stage'[c] = stage[c] /\ current'[c] = current[c] /\ todo'[c] = todo[c]

Posts(c) ==
  /\ sent'[c] = sent[c] + 1
  /\ \E m \in Msg : m.from = c /\ m.n = sent[c] + 1 /\ inbox'[c] = Append(inbox[c], m)
  /\ stage'[c] = stage[c] /\ current'[c] = current[c] /\ todo'[c] = todo[c]

Takes(c) ==
  /\ stage'[c] = "ask" /\ inbox[c] # <<>> /\ Head(inbox[c]).kind = "msg"
  /\ current'[c] = Head(inbox[c]) /\ inbox'[c] = Tail(inbox[c]) /\ sent'[c] = sent[c]

Starts(c) ==
  /\ stage[c] = "ask" /\ stage'[c] = "route" /\ current'[c] = current[c]
  /\ inbox'[c] = inbox[c] /\ sent'[c] = sent[c] /\ agents' = agents
  /\ todo'[c] \in SetToSeqs(Targets(current[c]))

LEMMA SenderStep ==
  ASSUME NEW a \in Agents, Shapes, Client(a) \/ Connection(a) \/ Writer(a), ~Deliver(a),
         NEW c \in Agents
  PROVE  Idle(c) \/ Posts(c) \/ Takes(c) \/ Starts(c)
<1> USE DEF Shapes, ends, task, out
<1>0. /\ sent[c] \in 0 .. MaxSend /\ sent[c] >= sent[c] /\ sent[c] + 1 >= sent[c]
      /\ sent[c] \in Nat /\ MaxSend \in Nat
  BY ServerAssumption
<1>1. CASE Connect(a)
  <2>1. PICK k \in Kinds : ToServer(a, Line(k))
    BY <1>1 DEF Connect, Kinds
  <2> QED BY <1>0, <1>1, <2>1 DEF Connect, ToServer, Goto, Idle
<1>2. CASE ClientAlign(a)
  <2>1. UNCHANGED inbox \/ \E k \in Kinds : ToServer(a, Line(k))
    BY <1>2 DEF ClientAlign, Kinds
  <2> QED BY <1>0, <1>2, <2>1 DEF ClientAlign, ToServer, Idle
<1>3. CASE ClientVerify(a) \/ Recv(a) \/ RecvTimeout(a) \/ Close(a)
  BY <1>0, <1>3 DEF ClientVerify, Recv, RecvTimeout, Close, Idle
<1>4. CASE Send(a)
  <2>1. /\ sent' = [sent EXCEPT ![a] = @ + 1] /\ sent[a] + 1 \in 1 .. MaxSend
        /\ UNCHANGED <<stage, current, todo>>
    BY <1>0, <1>4 DEF Send, CanSend
  <2>2. CASE c # a
    <3>1. inbox'[c] = inbox[c]
      BY <1>4, <2>2 DEF Send, ToServer
    <3> QED BY <1>0, <2>1, <2>2, <3>1 DEF Idle
  <2>3. CASE c = a
    <3>1. CASE \E k \in {"junk", "raw"} : ToServer(a, Line(k))
      BY <1>0, <2>1, <2>3, <3>1 DEF ToServer, Idle, Kinds
    <3>2. CASE \E to \in Agents \cup {Broadcast} :
                 ToServer(a, [kind |-> "msg", from |-> a, n |-> sent'[a], to |-> to])
      <4>1. PICK to \in Agents \cup {Broadcast} :
                   ToServer(a, [kind |-> "msg", from |-> a, n |-> sent'[a], to |-> to])
        BY <3>2
      <4> DEFINE m == [kind |-> "msg", from |-> a, n |-> sent'[a], to |-> to]
      <4>2. m \in Msg /\ m.from = a /\ m.n = sent[a] + 1
        BY <2>1 DEF Msg
      <4> HIDE DEF m
      <4>3. inbox'[a] = Append(inbox[a], m)
        BY <4>1 DEF m, ToServer
      <4> QED BY <2>1, <2>3, <4>2, <4>3 DEF Posts
    <3> QED BY <1>4, <3>1, <3>2 DEF Send
  <2> QED BY <2>2, <2>3
<1>5. CASE Reply(a)
  <2> DEFINE m == [kind |-> "msg", from |-> a, n |-> sent'[a], to |-> Broadcast]
  <2>1. /\ sent' = [sent EXCEPT ![a] = @ + 1] /\ sent[a] + 1 \in 1 .. MaxSend
        /\ UNCHANGED <<stage, current, todo>> /\ ToServer(a, m)
    BY <1>0, <1>5 DEF Reply, CanSend
  <2>2. m \in Msg /\ m.from = a /\ m.n = sent[a] + 1
    BY <2>1 DEF Msg
  <2> HIDE DEF m
  <2>3. CASE c # a
    BY <1>0, <2>1, <2>3 DEF ToServer, Idle
  <2>4. CASE c = a
    <3>1. inbox'[a] = Append(inbox[a], m)
      BY <2>1 DEF ToServer
    <3> QED BY <2>1, <2>2, <2>4, <3>1 DEF Posts
  <2> QED BY <2>3, <2>4
<1>6. CASE Echo(a) \/ Verify(a)
  <2>1. /\ inbox[a] # <<>> /\ inbox' = [inbox EXCEPT ![a] = Tail(@)]
        /\ UNCHANGED <<sent, current, todo>>
    BY <1>6 DEF Echo, Verify, ReadHead
  <2>2. \/ \E s \in {"align", "verified", "gone"} : Goto(a, s)
        \/ stage' \in {[stage EXCEPT ![a] = s] : s \in {"align", "verified", "gone"}}
    BY <1>6 DEF Echo, Verify, WriteLine
  <2>3. \E s \in {"align", "verified", "gone"} : stage' = [stage EXCEPT ![a] = s]
    BY <2>2 DEF Goto
  <2> QED BY <1>0, <2>1, <2>3 DEF Idle
<1>7. CASE HandshakeEOF(a) \/ AskRegister(a) \/ Insert(a)
  BY <1>0, <1>7 DEF HandshakeEOF, AskRegister, Insert, Goto, Idle
<1>8. CASE ReadLine(a)
  <2>1. CASE Head(inbox[a]).kind = "msg"
    <3>1. /\ inbox[a] # <<>> /\ inbox' = [inbox EXCEPT ![a] = Tail(@)]
          /\ current' = [current EXCEPT ![a] = Head(inbox[a])]
          /\ stage' = [stage EXCEPT ![a] = "ask"] /\ UNCHANGED <<sent, todo>>
      BY <1>8, <2>1 DEF ReadLine, ReadHead, Goto
    <3>2. CASE c = a
      BY <2>1, <3>1, <3>2 DEF Takes
    <3>3. CASE c # a
      BY <1>0, <3>1, <3>3 DEF Idle
    <3> QED BY <3>2, <3>3
  <2>2. CASE Head(inbox[a]).kind # "msg"
    BY <1>0, <1>8, <2>2 DEF ReadLine, ReadHead, Idle
  <2> QED BY <2>1, <2>2
<1>9. CASE Route(a)
  <2>1. PICK order \in SetToSeqs(Targets(current[a])) : todo' = [todo EXCEPT ![a] = order]
    BY <1>9 DEF Route
  <2>2. CASE c = a
    BY <1>9, <2>1, <2>2 DEF Route, Goto, Starts
  <2>3. CASE c # a
    BY <1>0, <1>9, <2>1, <2>3 DEF Route, Goto, Idle
  <2> QED BY <2>2, <2>3
<1>10. CASE Routed(a) \/ ReadEOF(a) \/ ReadError(a) \/ RemoveAgent(a)
  BY <1>0, <1>10 DEF Routed, ReadEOF, ReadError, RemoveAgent, Goto, Idle
<1>11. CASE Write(a) \/ WriterStops(a)
  BY <1>0, <1>11 DEF Write, WriterStops, Idle
<1> QED BY <1>1, <1>2, <1>3, <1>4, <1>5, <1>6, <1>7, <1>8, <1>9, <1>10, <1>11
        DEF Client, Reading, Connection, Writer

\* The messages of c stay in order, and later than what r has of them.
LEMMA IdleKeeps ==
  ASSUME TypeInv, Shapes', NEW c \in Agents, NEW r \in Agents, Idle(c),
         Routing(c), Sending(c), Upto(c, r),
         \A m \in Seen(r)' : m.kind = "msg" => m \in Seen(r), Seen(r)' \subseteq Lines
  PROVE  Routing(c)' /\ Sending(c)' /\ Upto(c, r)'
<1> DEFINE s == inbox[c]
           S == inbox'[c]
<1>1. s \in Seq(Lines) /\ sent[c] \in Nat /\ sent'[c] >= sent[c] /\ Sorted(s)
  BY ServerAssumption DEF TypeInv, Shapes, Sending, Idle
<1>0. sent'[c] \in Nat
  BY ServerAssumption DEF Shapes
<1>2. Sorted(S) /\ \A m \in ToSet(S) : m \in ToSet(s) \/ \E k \in Kinds : m = Line(k)
  <2> HIDE DEF s, S
  <2>1. CASE S = s \/ S = <<>>
    BY <1>1, <2>1, SortedEmpty, ToSetEmpty
  <2>2. CASE s # <<>> /\ S = Tail(s)
    BY <1>1, <2>2, SortedTail, ToSetTail
  <2>3. CASE \E k \in Kinds : S = Append(s, Line(k))
    <3>1. PICK k \in Kinds : S = Append(s, Line(k))
      BY <2>3
    <3>2. Line(k) \in Lines
      BY LineKinds
    <3>3. ToSet(S) = ToSet(s) \cup {Line(k)} /\ Sorted(S)
      BY <1>1, <3>1, <3>2, SortedAppend, ToSetAppend, NotOlder
    <3> QED BY <3>3
  <2> QED BY <2>1, <2>2, <2>3 DEF Idle, s, S
<1>3. stage'[c] \in {"ask", "route"} =>
        stage'[c] = stage[c] /\ current'[c] = current[c] /\ todo'[c] = todo[c]
  BY DEF Idle
<1>4. \A l, m : m \in ToSet(S) /\ (m \in ToSet(s) => Older(l, m)) => Older(l, m)
  BY <1>2, NotOlder
<1>5. \A m \in ToSet(S) : m.kind = "msg" => m \in ToSet(s)
  BY <1>2, LineKinds
<1> HIDE DEF s, S
<1>6. \A m \in ToSet(s) : m.kind = "msg" => m.n \in Nat
  <2>1. ToSet(s) \subseteq Lines
    BY <1>1, ToSetEmpty
  <2> QED BY <2>1, LineKinds, ServerAssumption
<1>7. \A m \in Seen(r)' : m.kind = "msg" => m.n \in Nat
  BY LineKinds, ServerAssumption
<1>8. Routing(c)'
  BY <1>3, <1>5 DEF Routing, s, S
<1>9. Sending(c)'
  <2>1. \A m \in ToSet(S) : m.kind = "msg" => m.n <= sent'[c]
    BY <1>0, <1>1, <1>5, <1>6 DEF Sending, s
  <2>2. stage'[c] \in {"ask", "route"} => current'[c].n <= sent'[c]
    <3>1. stage[c] \in {"ask", "route"} => current[c].n \in Nat
      BY LineKinds, ServerAssumption DEF TypeInv, Held
    <3> QED BY <1>0, <1>1, <1>3, <3>1 DEF Sending
  <2>3. stage'[c] \in {"ask", "route"} => \A m \in ToSet(S) : Older(current'[c], m)
    BY <1>3, <1>4 DEF Sending, s
  <2> QED BY <1>2, <2>1, <2>2, <2>3 DEF Sending, S
<1>10. Upto(c, r)'
  <2>1. SUFFICES ASSUME NEW m \in Seen(r)', m.kind = "msg", m.from = c
                 PROVE  /\ m.n <= sent'[c] /\ \A k \in ToSet(S) : Older(m, k)
                        /\ stage'[c] = "ask" => m.n < current'[c].n
                        /\ stage'[c] = "route" => m.n <= current'[c].n
                        /\ stage'[c] = "route" /\ r \in ToSet(todo'[c]) => m.n < current'[c].n
    BY DEF Upto, S
  <2>2. m \in Seen(r) /\ m.n \in Nat
    BY <1>7, <2>1
  <2>3. m.n <= sent'[c]
    BY <1>0, <1>1, <2>1, <2>2 DEF Upto
  <2>4. \A k \in ToSet(S) : Older(m, k)
    BY <1>4, <2>1, <2>2 DEF Upto, s
  <2> QED BY <1>3, <2>1, <2>2, <2>3, <2>4 DEF Upto
<1> QED BY <1>8, <1>9, <1>10

LEMMA PostsKeeps ==
  ASSUME TypeInv, NEW c \in Agents, NEW r \in Agents, Posts(c),
         Routing(c), Sending(c), Upto(c, r),
         \A m \in Seen(r)' : m.kind = "msg" => m \in Seen(r), Seen(r)' \subseteq Lines
  PROVE  Routing(c)' /\ Sending(c)' /\ Upto(c, r)'
<1> DEFINE s == inbox[c]
           S == inbox'[c]
           n == sent[c]
<1>1. s \in Seq(Lines) /\ n \in Nat /\ sent'[c] = n + 1 /\ Sorted(s)
  BY ServerAssumption DEF TypeInv, Shapes, Sending, Posts
<1>2. PICK p \in Msg : p.from = c /\ p.n = n + 1 /\ S = Append(s, p)
  BY DEF Posts
<1>3. stage'[c] = stage[c] /\ current'[c] = current[c] /\ todo'[c] = todo[c]
  BY DEF Posts
<1>4. p \in Lines /\ p.kind = "msg"
  BY LineKinds
<1>5. /\ \A m \in ToSet(s) : m.kind = "msg" => m.n <= n /\ m.n \in Nat
      /\ \A m \in ToSet(s) : Older(m, p)
  <2>1. ToSet(s) \subseteq Lines
    BY <1>1, ToSetEmpty
  <2>2. \A m \in ToSet(s) : m.kind = "msg" => m.n <= n /\ m.n \in Nat
    BY <2>1, LineKinds, ServerAssumption DEF Sending
  <2> QED BY <1>1, <1>2, <2>2 DEF Older
<1>6. Sorted(S) /\ ToSet(S) = ToSet(s) \cup {p}
  <2> HIDE DEF s, S
  <2> QED BY <1>1, <1>2, <1>4, <1>5, SortedAppend, ToSetAppend
<1>7. stage[c] \in {"ask", "route"} =>
        current[c].n \in Nat /\ current[c].n <= n /\ Older(current[c], p)
  <2>1. SUFFICES ASSUME stage[c] \in {"ask", "route"}
                 PROVE  current[c].n \in Nat /\ current[c].n <= n /\ Older(current[c], p)
    OBVIOUS
  <2>2. current[c].n \in Nat /\ current[c].n <= n
    BY <2>1, LineKinds, ServerAssumption DEF TypeInv, Held, Sending
  <2> QED BY <1>1, <1>2, <2>2 DEF Older
<1>8. \A m \in Seen(r)' : m.kind = "msg" => m.n \in Nat
  BY LineKinds, ServerAssumption
<1> HIDE DEF s, S, n
<1>9. Routing(c)'
  BY <1>2, <1>3, <1>6 DEF Routing, s, S
<1>10. Sending(c)'
  <2>1. \A m \in ToSet(S) : m.kind = "msg" => m.n <= sent'[c]
    BY <1>1, <1>2, <1>5, <1>6
  <2>2. stage'[c] \in {"ask", "route"} =>
          current'[c].n <= sent'[c] /\ \A m \in ToSet(S) : Older(current'[c], m)
    BY <1>1, <1>3, <1>6, <1>7 DEF Sending, s
  <2> QED BY <1>6, <2>1, <2>2 DEF Sending, S
<1>11. Upto(c, r)'
  <2>1. SUFFICES ASSUME NEW m \in Seen(r)', m.kind = "msg", m.from = c
                 PROVE  /\ m.n <= sent'[c] /\ \A k \in ToSet(S) : Older(m, k)
                        /\ stage'[c] = "ask" => m.n < current'[c].n
                        /\ stage'[c] = "route" => m.n <= current'[c].n
                        /\ stage'[c] = "route" /\ r \in ToSet(todo'[c]) => m.n < current'[c].n
    BY DEF Upto, S
  <2>2. m \in Seen(r) /\ m.n \in Nat /\ m.n <= n
    BY <1>8, <2>1 DEF Upto, n
  <2>3. m.n <= sent'[c] /\ Older(m, p)
    BY <1>1, <1>2, <2>2 DEF Older
  <2>4. \A k \in ToSet(S) : Older(m, k)
    BY <1>6, <2>1, <2>2, <2>3 DEF Upto, s
  <2> QED BY <1>3, <2>1, <2>2, <2>3, <2>4 DEF Upto
<1> QED BY <1>9, <1>10, <1>11

LEMMA TakesKeeps ==
  ASSUME TypeInv, NEW c \in Agents, NEW r \in Agents, Takes(c),
         Routing(c), Sending(c), Upto(c, r),
         \A m \in Seen(r)' : m.kind = "msg" => m \in Seen(r)
  PROVE  Routing(c)' /\ Sending(c)' /\ Upto(c, r)'
<1> DEFINE s == inbox[c]
           h == Head(s)
<1>1. s \in Seq(Lines) /\ s # <<>> /\ Sorted(s)
  BY DEF TypeInv, Shapes, Sending, Takes
<1>2. /\ h.kind = "msg" /\ current'[c] = h /\ inbox'[c] = Tail(s) /\ sent'[c] = sent[c]
      /\ stage'[c] = "ask"
  BY DEF Takes
<1> HIDE DEF s
<1>3. /\ ToSet(s) = {h} \cup ToSet(Tail(s)) /\ Sorted(Tail(s))
      /\ \A m \in ToSet(Tail(s)) : Older(h, m)
  BY <1>1, SortedTail, ToSetTail
<1> HIDE DEF h
<1>4. h.from = c /\ h.n <= sent[c]
  BY <1>2, <1>3 DEF Routing, Sending, s
<1>5. Routing(c)'
  BY <1>2, <1>3, <1>4 DEF Routing, s
<1>6. Sending(c)'
  BY <1>2, <1>3, <1>4 DEF Sending, s
<1>7. Upto(c, r)'
  <2>1. SUFFICES ASSUME NEW m \in Seen(r)', m.kind = "msg", m.from = c
                 PROVE  /\ m.n <= sent'[c] /\ \A k \in ToSet(inbox'[c]) : Older(m, k)
                        /\ m.n < current'[c].n
    BY <1>2 DEF Upto
  <2>2. m.n <= sent[c] /\ \A k \in ToSet(s) : Older(m, k)
    BY <2>1 DEF Upto, s
  <2>3. m.n < h.n
    BY <1>2, <1>3, <1>4, <2>1, <2>2 DEF Older
  <2> QED BY <1>2, <1>3, <2>2, <2>3
<1> QED BY <1>5, <1>6, <1>7

LEMMA StartsKeeps ==
  ASSUME TypeInv, NEW c \in Agents, NEW r \in Agents, Starts(c),
         Routing(c), Sending(c), Upto(c, r),
         \A m \in Seen(r)' : m.kind = "msg" => m \in Seen(r), Seen(r)' \subseteq Lines
  PROVE  /\ Routing(c)' /\ Sending(c)' /\ Upto(c, r)'
         /\ ToSet(todo[c])' = Targets(current[c])'
<1> DEFINE m == current[c]
<1>1. /\ stage[c] = "ask" /\ stage'[c] = "route" /\ current'[c] = m
      /\ inbox'[c] = inbox[c] /\ sent'[c] = sent[c] /\ agents' = agents
      /\ todo'[c] \in SetToSeqs(Targets(m))
  BY DEF Starts
<1>2. m \in Msg /\ m.kind = "msg" /\ m.n \in Nat /\ m.from = c
  BY <1>1, LineKinds, ServerAssumption DEF TypeInv, Held, Routing
<1> HIDE DEF m
<1>3. IsInjective(todo'[c]) /\ ToSet(todo'[c]) = Targets(m)
  BY <1>1, TargetOrders DEF TypeInv
<1>4. ToSet(todo[c])' = Targets(current[c])'
  BY <1>1, <1>3 DEF Targets
<1>5. \A q \in Targets(m) : Addressed(q, m)
  BY DEF Targets, Addressed
<1>6. Routing(c)'
  BY <1>1, <1>2, <1>3, <1>5 DEF Routing, Addressed
<1>7. Sending(c)'
  BY <1>1 DEF Sending, m
<1>8. Upto(c, r)'
  <2>1. \A k \in Seen(r)' : k.kind = "msg" => k.n \in Nat
    BY LineKinds, ServerAssumption
  <2> QED BY <1>1, <1>2, <2>1 DEF Upto, m
<1> QED BY <1>4, <1>6, <1>7, <1>8

(***************************************************************************)
(* The delivery of a message to one of its targets.                        *)
(***************************************************************************)
LEMMA DeliverFrame ==
  ASSUME TypeInv, Ends, Recipients, Reached, NEW a \in Agents, Deliver(a)
  PROVE  LET q == Head(todo[a]) IN
         /\ stage[a] = "route" /\ todo[a] # <<>> /\ q \in Agents /\ current[a] \in Msg
         /\ UNCHANGED <<client, sent, got, inbox, sock, stage, current, agents>>
         /\ todo'[a] = Tail(todo[a]) /\ \A c \in Agents : c # a => todo'[c] = todo[c]
         /\ \A c \in Agents : c # q => chan'[c] = chan[c]
         /\ \/ chan'[q] = chan[q] /\ client[q] = "closed"
            \/ chan'[q] = Append(chan[q], current[a])
<1> DEFINE q == Head(todo[a])
<1>1. /\ stage[a] = "route" /\ todo[a] # <<>> /\ todo[a] \in Seq(Agents) /\ current[a] \in Msg
      /\ UNCHANGED <<client, sent, got, inbox, sock, stage, current, agents>>
      /\ todo' = [todo EXCEPT ![a] = Tail(@)]
  BY DEF Deliver, ends, TypeInv, Shapes, Held
<1>2. \/ writer[q] = "stopped" /\ chan' = chan
      \/ chan' = [chan EXCEPT ![q] = Append(@, current[a])]
  BY DEF Deliver
<1>3. q \in Agents /\ q \in agents
  <2>1. IsInjective(todo[a])
    BY <1>1 DEF Recipients, Routing
  <2>2. q \in Agents /\ q \in ToSet(todo[a])
    BY <1>1, ToSetEmpty
  <2> QED BY <1>1, <2>2 DEF Reached, Reaches
<1> HIDE DEF q
<1>4. writer[q] = "stopped" => client[q] = "closed"
  BY <1>3 DEF Ends, Registered
<1>5. chan \in [Agents -> Seq(Msg)] /\ todo \in [Agents -> Seq(Agents)]
  BY DEF TypeInv, Shapes
<1>6. /\ \A c \in Agents : c # q => chan'[c] = chan[c]
      /\ \/ chan'[q] = chan[q] /\ client[q] = "closed"
         \/ chan'[q] = Append(chan[q], current[a])
  BY <1>2, <1>3, <1>4, <1>5
<1>7. todo'[a] = Tail(todo[a]) /\ \A c \in Agents : c # a => todo'[c] = todo[c]
  BY <1>1, <1>5
<1> QED BY <1>1, <1>3, <1>6, <1>7 DEF q

LEMMA DeliverKeeps ==
  ASSUME TypeInv, Ends, Recipients, Order, Reached, NEW a \in Agents, Deliver(a)
  PROVE  Recipients' /\ Order' /\ Reached'
<1> DEFINE q == Head(todo[a])
           m == current[a]
<1>1. /\ stage[a] = "route" /\ todo[a] # <<>> /\ q \in Agents /\ m \in Msg
      /\ UNCHANGED <<client, sent, got, inbox, sock, stage, current, agents>>
      /\ todo'[a] = Tail(todo[a]) /\ \A c \in Agents : c # a => todo'[c] = todo[c]
      /\ \A c \in Agents : c # q => chan'[c] = chan[c]
      /\ \/ chan'[q] = chan[q] /\ client[q] = "closed"
         \/ chan'[q] = Append(chan[q], m)
  BY DeliverFrame
<1>2. /\ q \in ToSet(todo[a]) /\ ToSet(todo'[a]) = ToSet(todo[a]) \ {q}
      /\ IsInjective(todo'[a])
  <2>1. todo[a] \in Seq(Agents) /\ IsInjective(todo[a])
    BY <1>1 DEF TypeInv, Shapes, Recipients, Routing
  <2> QED BY <1>1, <2>1, InjectiveTail, ToSetEmpty
<1>3. /\ m \in Lines /\ m.kind = "msg" /\ m.n \in Nat /\ m.from = a
      /\ Addressed(q, m) /\ m.n <= sent[a] /\ \A k \in ToSet(inbox[a]) : Older(m, k)
  BY <1>1, <1>2, LineKinds, ServerAssumption DEF Recipients, Routing, Order, Sending
<1> HIDE DEF q, m
<1>4. \A r \in Agents : chan[r] \in Seq(Msg) /\ chan[r] \in Seq(Lines)
                      /\ got[r] \in Seq(Lines) /\ sock[r] \in Seq(Lines)
  BY SeqMonotonic, LineKinds DEF TypeInv, Shapes
<1>5. ASSUME NEW r \in Agents
      PROVE  /\ \A k \in Seen(r)' : k \in Seen(r) \/ (r = q /\ k = m)
             /\ \A k \in Seen(r) : k \in Seen(r)'
             /\ r = q => client[q] = "closed" \/ m \in Seen(r)'
  <2>1. Seen(r)' = Along(got[r], sock[r], chan'[r])
    BY <1>1 DEF Seen
  <2>2. CASE chan'[r] = chan[r] /\ (r = q => client[q] = "closed")
    BY <2>1, <2>2 DEF Seen
  <2>3. CASE r = q /\ chan'[r] = Append(chan[r], m)
    <3>1. ToSet(chan'[r]) = ToSet(chan[r]) \cup {m}
      BY <1>1, <2>3, <1>4, ToSetAppend
    <3> QED BY <2>1, <2>3, <3>1 DEF Seen, Along
  <2> QED BY <1>1, <2>2, <2>3
<1>6. \A l \in Seen(q) : Older(l, m)
  BY <1>1, <1>2, <1>3 DEF Order, Upto, Older, m
<1>7. ASSUME NEW r \in Agents PROVE Arriving(r)'
  <2>1. InLine(got[r], sock[r], chan[r])
    BY DEF Order, Arriving
  <2>2. CASE chan'[r] = chan[r]
    BY <1>1, <2>1, <2>2 DEF Arriving
  <2>3. CASE chan'[r] # chan[r]
    <3>1. r = q /\ chan'[r] = Append(chan[r], m)
      BY <1>1, <2>3
    <3>2. InLine(got[r], sock[r], Append(chan[r], m))
      BY <1>3, <1>4, <1>6, <2>1, <3>1, PutInLine DEF Seen
    <3> QED BY <1>1, <3>1, <3>2 DEF Arriving
  <2> QED BY <2>2, <2>3
<1>8. ASSUME NEW c \in Agents PROVE Routing(c)' /\ Sending(c)'
  <2>1. Routing(c) /\ Sending(c)
    BY DEF Recipients, Order
  <2>2. Sending(c)'
    BY <1>1, <2>1 DEF Sending
  <2>3. CASE c = a
    BY <1>1, <1>2, <2>1, <2>2, <2>3 DEF Routing
  <2>4. CASE c # a
    BY <1>1, <2>1, <2>2, <2>4 DEF Routing
  <2> QED BY <2>2, <2>3, <2>4
<1>9. ASSUME NEW c \in Agents, NEW r \in Agents PROVE Upto(c, r)'
  <2>1. SUFFICES ASSUME NEW k \in Seen(r)', k.kind = "msg", k.from = c
                 PROVE  /\ k.n <= sent[c] /\ \A l \in ToSet(inbox[c]) : Older(k, l)
                        /\ stage[c] = "ask" => k.n < current[c].n
                        /\ stage[c] = "route" => k.n <= current[c].n
                        /\ stage[c] = "route" /\ r \in ToSet(todo'[c]) => k.n < current[c].n
    BY <1>1 DEF Upto
  <2>2. CASE k \in Seen(r)
    <3>1. ToSet(todo'[c]) \subseteq ToSet(todo[c])
      BY <1>1, <1>2
    <3>2. Upto(c, r)
      BY DEF Order
    <3> QED BY <2>1, <2>2, <3>1, <3>2 DEF Upto
  <2>3. CASE k \notin Seen(r)
    <3>1. r = q /\ k = m /\ c = a
      BY <1>3, <1>5, <2>1, <2>3
    <3>2. r \notin ToSet(todo'[c])
      BY <1>2, <3>1
    <3> QED BY <1>1, <1>3, <3>1, <3>2 DEF m
  <2> QED BY <2>2, <2>3
<1>10. ASSUME NEW c \in Agents, NEW r \in Agents PROVE Reaches(c, r)'
  <2>0. stage[c] = "route" /\ r \in ToSet(todo'[c]) => r \in agents
    <3>1. ToSet(todo'[c]) \subseteq ToSet(todo[c])
      BY <1>1, <1>2
    <3> QED BY <3>1 DEF Reached, Reaches
  <2>1. SUFFICES ASSUME stage[c] = "route", r \in Targets(current[c])
                 PROVE  \/ r \in ToSet(todo'[c]) \/ current[c] \in Seen(r)'
                        \/ client[r] = "closed" \/ r \in Impatient
    BY <1>1, <2>0 DEF Reaches, Targets
  <2>2. \/ r \in ToSet(todo[c]) \/ current[c] \in Seen(r)
        \/ client[r] = "closed" \/ r \in Impatient
    BY <2>1 DEF Reached, Reaches
  <2>3. Seen(r) \subseteq Seen(r)'
    BY <1>5
  <2>4. CASE r \in ToSet(todo[c]) /\ r \notin ToSet(todo'[c])
    <3>1. c = a /\ r = q
      BY <1>1, <1>2, <2>4
    <3> QED BY <1>5, <3>1 DEF m
  <2> QED BY <2>2, <2>3, <2>4
<1>11. Recipients'
  <2>1. ASSUME NEW r \in Agents, NEW k \in Seen(r)' PROVE Addressed(r, k)
    <3>1. CASE k \in Seen(r)
      BY <3>1 DEF Recipients
    <3>2. CASE k \notin Seen(r)
      BY <1>3, <1>5, <3>2
    <3> QED BY <3>1, <3>2
  <2>2. \A r \in Agents : \A k \in Seen(r)' : Addressed(r, k)
    BY <2>1
  <2>3. \A r, k : Addressed(r, k)' <=> Addressed(r, k)
    BY DEF Addressed
  <2> QED BY <1>8, <2>2, <2>3 DEF Recipients
<1> QED BY <1>7, <1>8, <1>9, <1>10, <1>11 DEF Order, Reached

(***************************************************************************)
(* Every step.                                                             *)
(***************************************************************************)
\* The registry stays as it is while somebody routes.
LEMMA RegistryHeld ==
  ASSUME TypeInv, NEW b \in Agents, stage[b] = "route",
         NEW a \in Agents, Client(a) \/ Connection(a) \/ Writer(a)
  PROVE  agents' = agents
<1>1. ~MayWrite(a)
  BY DEF MayWrite, TypeInv, Locked
<1>2. ~Insert(a) /\ ~RemoveAgent(a)
  BY <1>1 DEF Insert, RemoveAgent
<1> QED BY <1>2 DEF Client, Reading, Connect, ClientAlign, ClientVerify, Recv, Send, Reply,
  RecvTimeout, Close, Connection, Echo, Verify, HandshakeEOF, AskRegister, ReadLine,
  Route, Deliver, Routed, ReadEOF, ReadError, Writer, Write, WriterStops

LEMMA NextMessages ==
  ASSUME TypeInv, Shapes', Ends, Recipients, Order, Reached, Next
  PROVE  Recipients' /\ Order' /\ Reached'
<1>1. PICK a \in Agents : Client(a) \/ Connection(a) \/ Writer(a)
  BY DEF Next
<1>2. CASE Deliver(a)
  BY <1>2, DeliverKeeps
<1>3. CASE ~Deliver(a)
  <2>1. ASSUME NEW r \in Agents
        PROVE  /\ Slide(r) /\ Arriving(r)' /\ Seen(r)' \subseteq Lines
               /\ \A m \in Seen(r)' : m.kind = "msg" => m \in Seen(r)
               /\ \A m \in Seen(r) : m.kind = "msg" =>
                    \/ m \in Seen(r)' \/ client'[r] = "closed"
                    \/ r \in Impatient \/ r \notin agents'
    <3>1. Slide(r) /\ Arriving(r)
      BY <1>1, <1>3, Slides DEF TypeInv, Order
    <3>2. Seen(r)' \subseteq Lines
      <4>1. /\ got'[r] \in Seq(Lines) /\ sock'[r] \in Seq(Lines) /\ chan'[r] \in Seq(Lines)
        BY SeqMonotonic, LineKinds DEF Shapes
      <4> QED BY <4>1, ToSetEmpty DEF Seen, Along
    <3> QED BY <3>1, <3>2, SlideKeeps DEF TypeInv
  <2>2. ASSUME NEW c \in Agents PROVE Idle(c) \/ Posts(c) \/ Takes(c) \/ Starts(c)
    BY <1>1, <1>3, SenderStep DEF TypeInv
  <2>3. ASSUME NEW c \in Agents, NEW r \in Agents
        PROVE  Routing(c)' /\ Sending(c)' /\ Upto(c, r)'
    <3>1. Routing(c) /\ Sending(c) /\ Upto(c, r)
      BY DEF Recipients, Order
    <3> QED BY <2>1, <2>2, <3>1, IdleKeeps, PostsKeeps, TakesKeeps, StartsKeeps
  <2>4. ASSUME NEW c \in Agents, NEW r \in Agents PROVE Reaches(c, r)'
    <3>0. stage'[c] = "route" /\ r \in ToSet(todo'[c]) => r \in agents'
      <4>1. CASE Starts(c)
        <5>1. ToSet(todo[c])' = Targets(current[c])'
          BY <2>1, <4>1, StartsKeeps DEF Recipients, Order
        <5> QED BY <5>1 DEF Targets
      <4>2. ASSUME Idle(c) \/ Posts(c), stage'[c] = "route"
            PROVE  r \in ToSet(todo'[c]) => r \in agents'
        <5>1. stage[c] = "route" /\ todo'[c] = todo[c]
          BY <4>2 DEF Idle, Posts
        <5>2. agents' = agents
          BY <1>1, <5>1, RegistryHeld
        <5> QED BY <5>1, <5>2 DEF Reached, Reaches
      <4>3. CASE Takes(c)
        BY <4>3 DEF Takes
      <4> QED BY <2>2, <4>1, <4>2, <4>3
    <3>1. SUFFICES ASSUME stage'[c] = "route", r \in Targets(current[c])'
                   PROVE  \/ r \in ToSet(todo'[c]) \/ current'[c] \in Seen(r)'
                          \/ client'[r] = "closed" \/ r \in Impatient
      BY <3>0 DEF Reaches
    <3>5. r \in agents'
      BY <3>1 DEF Targets
    <3>2. CASE Starts(c)
      <4>1. ToSet(todo[c])' = Targets(current[c])'
        BY <2>1, <3>2, StartsKeeps DEF Recipients, Order
      <4> QED BY <3>1, <4>1
    <3>3. CASE Idle(c) \/ Posts(c)
      <4>1. stage[c] = "route" /\ current'[c] = current[c] /\ todo'[c] = todo[c]
        BY <3>1, <3>3 DEF Idle, Posts
      <4>2. r \in Targets(current[c])
        BY <1>1, <3>1, <4>1, RegistryHeld DEF Targets
      <4>3. \/ r \in ToSet(todo[c]) \/ current[c] \in Seen(r)
            \/ client[r] = "closed" \/ r \in Impatient
        BY <4>1, <4>2 DEF Reached, Reaches
      <4>4. current[c].kind = "msg"
        BY <4>1 DEF Recipients, Routing
      <4>5. client[r] = "closed" => client'[r] = "closed"
        BY <2>1 DEF Slide
      <4> QED BY <2>1, <3>5, <4>1, <4>3, <4>4, <4>5
    <3>4. CASE Takes(c)
      BY <3>1, <3>4 DEF Takes
    <3> QED BY <2>2, <3>2, <3>3, <3>4
  <2>5. \A r \in Agents : \A m \in Seen(r)' : Addressed(r, m)
    BY <2>1 DEF Recipients, Addressed
  <2>6. \A r, m : Addressed(r, m)' <=> Addressed(r, m)
    BY DEF Addressed
  <2> QED BY <2>1, <2>3, <2>4, <2>5, <2>6 DEF Recipients, Order, Reached
<1> QED BY <1>2, <1>3

LEMMA InitMessages == Init => Recipients /\ Order /\ Reached
<1> SUFFICES ASSUME Init PROVE Recipients /\ Order /\ Reached
  OBVIOUS
<1>1. \A r \in Agents :
        /\ inbox[r] = <<>> /\ got[r] = <<>> /\ sock[r] = <<>> /\ chan[r] = <<>>
        /\ stage[r] = "new"
  BY DEF Init
<1>2. \A r \in Agents : Seen(r) = {} /\ ToSet(inbox[r]) = {} /\ Arriving(r) /\ Sorted(inbox[r])
  BY <1>1, ToSetEmpty, SortedEmpty DEF Seen, Along, Arriving, InLine, Before
<1>3. Recipients
  BY <1>1, <1>2 DEF Recipients, Routing
<1>4. Order
  BY <1>1, <1>2 DEF Order, Sending, Upto
<1>5. Reached
  BY <1>1 DEF Reached, Reaches
<1> QED BY <1>3, <1>4, <1>5

(***************************************************************************)
(* The inductive invariant.                                                *)
(***************************************************************************)
ServerInv == TypeInv /\ Ends /\ Recipients /\ Order /\ Reached

LEMMA StutterKeeps == ASSUME ServerInv, UNCHANGED vars PROVE ServerInv'
<1>1. /\ UNCHANGED <<client, owes, sent, got, inbox, sock, stage, current, todo>>
      /\ UNCHANGED <<chan, writer, agents, peak, readers, waiting>>
  BY DEF vars, ends, task, out, lock
<1>2. TypeInv'
  BY <1>1 DEF ServerInv, TypeInv, Shapes, Held, Registry, Locked
<1>3. Ends'
  BY <1>1 DEF ServerInv, Ends, Handshake, Registered
<1>4. \A r \in Agents : Seen(r)' = Seen(r)
  BY <1>1 DEF Seen, Along
<1>5. Recipients'
  BY <1>1, <1>4 DEF ServerInv, Recipients, Routing, Addressed
<1>6. Order'
  BY <1>1, <1>4 DEF ServerInv, Order, Arriving, Sending, Upto
<1>7. Reached'
  BY <1>1, <1>4 DEF ServerInv, Reached, Reaches, Targets
<1> QED BY <1>2, <1>3, <1>5, <1>6, <1>7 DEF ServerInv

LEMMA ServerInvariance == Spec => []ServerInv
<1>1. Init => ServerInv
  BY InitTypeInv, InitEnds, InitMessages DEF ServerInv
<1>2. ServerInv /\ [Next]_vars => ServerInv'
  <2>1. ASSUME ServerInv, Next PROVE ServerInv'
    <3>1. TypeInv'
      BY <2>1, NextShapes, NextHeld, NextRegistry, NextLocked DEF ServerInv, TypeInv
    <3>2. Ends'
      BY <2>1, NextEnds DEF ServerInv
    <3>3. Recipients' /\ Order' /\ Reached'
      BY <2>1, <3>1, NextMessages DEF ServerInv, TypeInv
    <3> QED BY <3>1, <3>2, <3>3 DEF ServerInv
  <2> QED BY <2>1, StutterKeeps
<1> QED BY <1>1, <1>2, PTL DEF Spec

-----------------------------------------------------------------------------
(***************************************************************************)
(* The theorems.                                                           *)
(***************************************************************************)
\* The variables have their types, no channel holds more than it may, and the
\* lock's readers and its queue are the connections that are at it.
THEOREM ServerTypeCorrect == Spec => []TypeOK
<1>1. ServerInv => TypeOK
  BY DEF ServerInv, TypeInv, Shapes, Held, Registry, Locked, Stages, TypeOK
<1> QED BY <1>1, ServerInvariance, PTL

\* No client is shown anything but the answer it expects before it is up.
THEOREM HandshakeIsClean == Spec => []HandshakeClean
<1>1. ServerInv => HandshakeClean
  BY ShortQueues, LineKinds DEF ServerInv, Ends, Handshake, HandshakeClean, Kinds
<1> QED BY <1>1, ServerInvariance, PTL

\* The registry holds the connections over TCP that are served, and no other,
\* and agents_peak is never behind it.
THEOREM RegistryIsExact == Spec => []RegistryExact
<1>1. ServerInv => RegistryExact
  <2> SUFFICES ASSUME ServerInv PROVE RegistryExact
    OBVIOUS
  <2>1. agents \subseteq Agents /\ peak >= Cardinality(agents)
    BY DEF ServerInv, TypeInv, Registry
  <2>2. \A a \in Agents \ Unix : a \in agents <=> stage[a] \in {"read", "ask", "route", "leave"}
    BY DEF ServerInv, TypeInv, Shapes, Stages, Ends, Registered, Served
  <2> QED BY <2>1, <2>2 DEF RegistryExact
<1> QED BY <1>1, ServerInvariance, PTL

\* A message is received by those it is meant for only.
THEOREM NobodyElseReceives == Spec => []OnlyRecipients
<1>1. ServerInv => OnlyRecipients
  <2> SUFFICES ASSUME ServerInv, NEW r \in Agents, NEW i \in DOMAIN got[r]
               PROVE  Addressed(r, got[r][i]) /\ got[r][i].kind = "msg"
    BY DEF OnlyRecipients, Addressed
  <2>1. got[r] \in Seq(Msg) /\ got[r][i] \in Seen(r)
    BY DEF ServerInv, TypeInv, Shapes, Seen, Along, ToSet
  <2>2. got[r][i] \in Msg
    BY <2>1, ElementOfSeq, LenProperties
  <2> QED BY <2>1, <2>2, LineKinds DEF ServerInv, Recipients
<1> QED BY <1>1, ServerInvariance, PTL

\* What an agent receives of another comes in the order in which it was sent,
\* and once.
THEOREM MessagesInOrder == Spec => []InOrder
<1>1. ServerInv => InOrder
  <2> SUFFICES ASSUME ServerInv, NEW r \in Agents, NEW i \in DOMAIN got[r], NEW j \in DOMAIN got[r],
                      i < j, got[r][i].from = got[r][j].from
               PROVE  got[r][i].n < got[r][j].n
    BY DEF InOrder
  <2>1. got[r] \in Seq(Msg) /\ Older(got[r][i], got[r][j])
    BY DEF ServerInv, TypeInv, Shapes, Order, Arriving, InLine, Sorted
  <2>2. got[r][i] \in Msg /\ got[r][j] \in Msg
    BY <2>1, ElementOfSeq, LenProperties
  <2> QED BY <2>1, <2>2, LineKinds DEF Older
<1> QED BY <1>1, ServerInvariance, PTL

\* A connection ends its routing in one way only.
LEMMA OnlyRoutedLeaves ==
  ASSUME NEW a \in Agents, Shapes, Ends, Client(a) \/ Connection(a) \/ Writer(a),
         stage[a] = "route", stage'[a] # "route"
  PROVE  Routed(a)
<1>1. ~Connect(a)
  BY DEF Connect, Ends, Handshake
<1> QED BY <1>1 DEF Client, Reading, ClientAlign, ClientVerify, Recv, Send, Reply, RecvTimeout,
  Close, Connection, Echo, Verify, HandshakeEOF, AskRegister, Insert, ReadLine, Route, Deliver,
  ReadEOF, ReadError, RemoveAgent, Writer, Write, WriterStops, task, Writers

\* When a message has been routed, every agent that was to have it, and is still
\* there, has it, whatever the others did meanwhile.
THEOREM RoutingReachesAll == Spec => RoutedToAll
<1> DEFINE Step == \A a, r \in Agents :
                     stage[a] = "route" /\ stage'[a] # "route" /\ r \in Targets(current[a])
                       /\ client[r] = "up" /\ r \notin Impatient
                     => Has(r, current[a])
<1>1. ServerInv /\ [Next]_vars => Step
  <2> SUFFICES ASSUME ServerInv, [Next]_vars, NEW a \in Agents, NEW r \in Agents,
                      stage[a] = "route", stage'[a] # "route", r \in Targets(current[a]),
                      client[r] = "up", r \notin Impatient
               PROVE  Has(r, current[a])
    OBVIOUS
  <2>1. r \in ToSet(todo[a]) \/ current[a] \in Seen(r)
    BY DEF ServerInv, Reached, Reaches
  <2>2. todo[a] = <<>>
    <3>1. UNCHANGED stage \/ \E b \in Agents : Client(b) \/ Connection(b) \/ Writer(b)
      BY DEF Next, vars, task
    <3>2. PICK b \in Agents : Client(b) \/ Connection(b) \/ Writer(b)
      BY <3>1
    <3>3. b = a
      BY <3>2, OthersUntouched DEF Untouched, ServerInv, TypeInv
    <3>4. Routed(a)
      BY <3>2, <3>3, OnlyRoutedLeaves DEF ServerInv, TypeInv
    <3> QED BY <3>4 DEF Routed
  <2>3. current[a] \in Seen(r)
    BY <2>1, <2>2, ToSetEmpty
  <2> QED BY <2>3 DEF Has, Seen, Along
<1> QED BY <1>1, ServerInvariance, PTL DEF Spec, RoutedToAll

=============================================================================
