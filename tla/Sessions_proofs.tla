-------------------------- MODULE Sessions_proofs --------------------------
(***************************************************************************)
(* Proofs about the programs of OtherPrograms that keep a conversation,    *)
(* the settings of a user or what passes between agents: each has an       *)
(* inductive invariant of its own.                                         *)
(***************************************************************************)
EXTENDS OtherPrograms, Subsequences_proofs, FiniteSetTheorems, SequenceTheorems, TLAPS

(***************************************************************************)
(* leet-vm.                                                                *)
(***************************************************************************)
VmCall ==
  [pc : {"idle", "probe", "project", "recall", "agent", "reply", "query", "answer", "count",
         "write", "written"},
   op : {"chat", "run", "stream", "remember"}, session : 0 .. MaxChats, odd : BOOLEAN,
   cogon : Nat, result : Nat, delta : SUBSET Nat]

VmTypes ==
  /\ calls \in [VmTasks -> VmCall] /\ sessions \in [0 .. MaxChats -> Seq(Nat)]
  /\ storeKind \in {"memory", "redis"} /\ chatNo \in 0 .. MaxChats
  /\ stamp \in Nat /\ cogonsStored \in Nat /\ rows \in Nat /\ storedCogons \in SUBSET (1 .. stamp)

\* A request has its query projected, and is not in its session yet.
Away(req) == req.pc \in {"recall", "agent", "reply", "query", "answer"}

\* What a request has by the time it is where it is.
Staged(req, n, there) ==
  /\ Away(req) => req.op \in {"chat", "run"} /\ req.cogon \in 1 .. n
  /\ req.pc \in {"query", "answer"} => req.result \in 1 .. n /\ req.cogon <= req.result
  /\ req.pc = "answer" => req.cogon \in there
  /\ req.pc = "write" => req.cogon \in 1 .. n
  /\ storeKind = "memory" => req.pc \in {"idle", "probe", "project", "agent", "reply"}

\* A session two requests never used at once is in the order of the stamps, and
\* whoever is away has a cogon younger than all of it.
Calm(s) ==
  s \notin overlapped =>
    /\ \A i \in DOMAIN sessions[s] : sessions[s][i] <= LastStamp(sessions[s])
    /\ \A t, u \in InSession(s) : t = u
    /\ \A t \in InSession(s) : Away(calls[t]) =>
         \A i \in DOMAIN sessions[s] : sessions[s][i] < calls[t].cogon

\* In memory a query is stored with its answer: until then it is nobody else's,
\* and not in the store.
Unstored ==
  storeKind = "memory" =>
    \A t \in VmTasks : Away(calls[t]) =>
      /\ calls[t].cogon \notin storedCogons
      /\ \A u \in VmTasks : Away(calls[u]) /\ calls[u].cogon = calls[t].cogon => u = t

VmInv ==
  /\ VmTypes
  /\ \A t \in VmTasks : Staged(calls[t], stamp, storedCogons)
  /\ \A s \in 0 .. MaxChats : Calm(s)
  /\ Unstored
  /\ ExchangesWhole /\ DeltaOnlyIfOverlapped /\ CountNeverAhead

LEMMA VmStarts ==
  ASSUME VmInit
  PROVE  VmInv
<1>1. NoRequest \in VmCall /\ 1 \in 0 .. MaxChats /\ 0 \in 0 .. MaxChats
  BY VmAssumption DEF NoRequest, VmCall, Network
<1>2. <<>> \in Seq(Nat) /\ DOMAIN <<>> = {}
  OBVIOUS
<1>3. VmTypes
  BY <1>1, <1>2 DEF VmInit, VmTypes
<1>4. \A t \in VmTasks : calls[t] = NoRequest
  BY DEF VmInit
<1>5. rows = 0 /\ cogonsStored = 0
  BY DEF VmInit
<1>6. \A s \in 0 .. MaxChats : sessions[s] = <<>>
  BY DEF VmInit
<1>7. \A t \in VmTasks : Staged(calls[t], stamp, storedCogons)
  BY <1>4 DEF Staged, Away, NoRequest
<1>8. ASSUME NEW s \in 0 .. MaxChats PROVE Calm(s)
  <2>1. InSession(s) = {}
    BY <1>4 DEF InSession, At, NoRequest
  <2>2. DOMAIN sessions[s] = {}
    BY <1>2, <1>6
  <2> QED BY <2>1, <2>2 DEF Calm
<1>9. ExchangesWhole
  BY <1>2, <1>3, <1>6 DEF ExchangesWhole, ToSet, VmTypes
<1>10. Unstored /\ DeltaOnlyIfOverlapped
  BY <1>4 DEF Unstored, Away, DeltaOnlyIfOverlapped, NoRequest
<1>11. CountNeverAhead
  BY <1>5 DEF CountNeverAhead
<1> QED BY <1>3, <1>7, <1>8, <1>9, <1>10, <1>11 DEF VmInv

\* One call moves on, or ends, and nothing is stored.
LEMMA VmCallMoves ==
  ASSUME VmInv, NEW t \in VmTasks, NEW next \in VmCall,
         calls' = [calls EXCEPT ![t] = next],
         UNCHANGED <<storedCogons, rows, sessions, overlapped, storeKind, chatNo>>,
         stamp' \in {stamp, stamp + 1}, cogonsStored' \in Nat, CountNeverAhead',
         next.pc # "idle" =>
           calls[t].pc # "idle" /\ next.op = calls[t].op /\ next.session = calls[t].session,
         Staged(next, stamp', storedCogons),
         next.delta # {} => next.session \in overlapped,
         Away(next) => \/ next.cogon = stamp + 1 /\ stamp' = stamp + 1
                       \/ Away(calls[t]) /\ next.cogon = calls[t].cogon
  PROVE  VmInv'
<1>1. /\ calls' \in [VmTasks -> VmCall] /\ calls'[t] = next
      /\ \A u \in VmTasks : u # t => calls'[u] = calls[u]
      /\ stamp \in Nat /\ stamp' \in Nat /\ stamp <= stamp'
      /\ storedCogons \in SUBSET (1 .. stamp)
  BY DEF VmInv, VmTypes
<1>2. VmTypes'
  BY <1>1 DEF VmInv, VmTypes
<1>3. ASSUME NEW u \in VmTasks PROVE Staged(calls[u], stamp, storedCogons)'
  <2>1. CASE u = t
    BY <1>1, <2>1 DEF Staged
  <2>2. CASE u # t
    BY <1>1, <2>2 DEF VmInv, Staged
  <2> QED BY <2>1, <2>2
<1>4. ASSUME NEW s \in 0 .. MaxChats PROVE Calm(s)'
  <2> SUFFICES ASSUME s \notin overlapped PROVE Calm(s)'
    BY DEF Calm
  <2>1. InSession(s)' \subseteq InSession(s)
    BY <1>1 DEF InSession, At
  <2>2. /\ \A i \in DOMAIN sessions[s] : sessions[s][i] <= LastStamp(sessions[s])
        /\ \A a, b \in InSession(s) : a = b
        /\ \A a \in InSession(s) : Away(calls[a]) =>
             \A i \in DOMAIN sessions[s] : sessions[s][i] < calls[a].cogon
    BY DEF VmInv, Calm
  <2>3. ASSUME NEW i \in DOMAIN sessions[s] PROVE sessions[s][i] \in 1 .. stamp
    BY <1>1, <2>3 DEF VmInv, ExchangesWhole, ToSet, VmTypes
  <2>4. ASSUME NEW a \in InSession(s)', Away(calls'[a]), NEW i \in DOMAIN sessions[s]
        PROVE  sessions[s][i] < calls'[a].cogon
    <3>1. a \in VmTasks /\ a \in InSession(s)
      BY <2>1, <2>4 DEF InSession
    <3>2. CASE a # t
      BY <1>1, <2>2, <2>4, <3>1, <3>2
    <3>3. CASE a = t /\ Away(calls[t]) /\ next.cogon = calls[t].cogon
      BY <1>1, <2>2, <2>4, <3>1, <3>3
    <3>4. CASE a = t /\ next.cogon = stamp + 1
      BY <1>1, <2>3, <2>4, <3>4
    <3> QED BY <1>1, <2>4, <3>2, <3>3, <3>4
  <2> QED BY <2>1, <2>2, <2>4 DEF Calm
<1>5. ASSUME storeKind = "memory", NEW u \in VmTasks, Away(calls'[u])
      PROVE  /\ calls'[u].cogon \notin storedCogons
             /\ \A w \in VmTasks : Away(calls'[w]) /\ calls'[w].cogon = calls'[u].cogon => w = u
  <2>1. \A w \in VmTasks : Away(calls[w]) =>
          /\ calls[w].cogon \in 1 .. stamp /\ calls[w].cogon \notin storedCogons
          /\ \A v \in VmTasks : Away(calls[v]) /\ calls[v].cogon = calls[w].cogon => v = w
    BY <1>5 DEF VmInv, Unstored, Staged
  <2>2. stamp + 1 \notin storedCogons /\ stamp + 1 \notin 1 .. stamp
    BY <1>1
  <2>3. CASE Away(next) /\ Away(calls[t]) /\ next.cogon = calls[t].cogon
    <3>1. \A w \in VmTasks : /\ Away(calls'[w]) <=> Away(calls[w])
                             /\ Away(calls'[w]) => calls'[w].cogon = calls[w].cogon
      BY <1>1, <2>3
    <3> QED BY <1>5, <2>1, <3>1
  <2>4. CASE Away(next) /\ next.cogon = stamp + 1
    <3>1. \A w \in VmTasks : w # t /\ Away(calls'[w]) =>
            Away(calls[w]) /\ calls'[w].cogon = calls[w].cogon /\ calls'[w].cogon # stamp + 1
      BY <1>1, <2>1, <2>2
    <3>2. calls'[t].cogon = stamp + 1
      BY <1>1, <2>4
    <3>3. CASE u = t
      BY <2>2, <3>1, <3>2, <3>3
    <3>4. CASE u # t
      BY <1>5, <2>1, <3>1, <3>2, <3>4
    <3> QED BY <3>3, <3>4
  <2>5. CASE ~Away(next)
    <3>1. \A w \in VmTasks : Away(calls'[w]) => w # t /\ Away(calls[w]) /\ calls'[w].cogon = calls[w].cogon
      BY <1>1, <2>5
    <3> QED BY <1>5, <2>1, <3>1
  <2>6. \/ Away(next) /\ Away(calls[t]) /\ next.cogon = calls[t].cogon
        \/ Away(next) /\ next.cogon = stamp + 1
        \/ ~Away(next)
    OBVIOUS
  <2> QED BY <2>3, <2>4, <2>5, <2>6
<1>6. DeltaOnlyIfOverlapped'
  BY <1>1 DEF VmInv, DeltaOnlyIfOverlapped
<1>7. Unstored'
  BY <1>5 DEF Unstored
<1>8. ExchangesWhole'
  BY DEF VmInv, ExchangesWhole
<1> QED BY <1>2, <1>3, <1>4, <1>6, <1>7, <1>8 DEF VmInv

\* One call stores a cogon that is in no session.
LEMMA VmStores ==
  ASSUME VmInv, NEW t \in VmTasks, NEW next \in VmCall,
         calls' = [calls EXCEPT ![t] = next],
         UNCHANGED <<sessions, overlapped, storeKind, chatNo>>,
         stamp' \in {stamp, stamp + 1}, NEW x \in 1 .. stamp',
         storedCogons' = storedCogons \cup {x}, rows' = rows + 1,
         storeKind = "memory" => x = stamp + 1 /\ ~Away(next),
         cogonsStored' \in Nat, cogonsStored' <= cogonsStored + 1,
         next.pc # "idle" =>
           calls[t].pc # "idle" /\ next.op = calls[t].op /\ next.session = calls[t].session,
         Staged(next, stamp', storedCogons'),
         next.delta # {} => next.session \in overlapped,
         Away(next) => Away(calls[t]) /\ next.cogon = calls[t].cogon
  PROVE  VmInv'
<1>1. /\ calls' \in [VmTasks -> VmCall] /\ calls'[t] = next
      /\ \A u \in VmTasks : u # t => calls'[u] = calls[u]
      /\ stamp \in Nat /\ stamp' \in Nat /\ stamp <= stamp'
      /\ storedCogons \in SUBSET (1 .. stamp) /\ storedCogons' \in SUBSET (1 .. stamp')
  BY DEF VmInv, VmTypes
<1>2. VmTypes'
  BY <1>1 DEF VmInv, VmTypes
<1>3. ASSUME NEW u \in VmTasks PROVE Staged(calls[u], stamp, storedCogons)'
  <2>1. CASE u = t
    BY <1>1, <2>1 DEF Staged
  <2>2. CASE u # t
    BY <1>1, <2>2 DEF VmInv, Staged
  <2> QED BY <2>1, <2>2
<1>4. ASSUME NEW s \in 0 .. MaxChats PROVE Calm(s)'
  <2>1. InSession(s)' \subseteq InSession(s)
    BY <1>1 DEF InSession, At
  <2>2. \A a \in InSession(s)' : Away(calls'[a]) => Away(calls[a]) /\ calls'[a].cogon = calls[a].cogon
    BY <1>1 DEF InSession
  <2> QED BY <2>1, <2>2 DEF VmInv, Calm
<1>5. Unstored'
  <2> SUFFICES ASSUME storeKind = "memory" PROVE Unstored'
    BY DEF Unstored
  <2>1. \A u \in VmTasks : Away(calls'[u]) =>
          /\ Away(calls[u]) /\ calls'[u] = calls[u] /\ calls[u].cogon \in 1 .. stamp
    BY <1>1 DEF VmInv, Staged
  <2>2. x = stamp + 1 /\ x \notin 1 .. stamp
    BY <1>1
  <2> QED BY <2>1, <2>2 DEF VmInv, Unstored
<1>6. DeltaOnlyIfOverlapped'
  BY <1>1 DEF VmInv, DeltaOnlyIfOverlapped
<1>7. ExchangesWhole'
  BY DEF VmInv, ExchangesWhole
<1>8. CountNeverAhead'
  BY DEF VmInv, VmTypes, CountNeverAhead
<1> QED BY <1>2, <1>3, <1>4, <1>5, <1>6, <1>7, <1>8 DEF VmInv

\* An exchange gets into its session.
LongerBy(r, s, a, b) ==
  /\ r \in Seq(Nat) /\ Len(r) = Len(s) + 2
  /\ \A i \in DOMAIN r : r[i] = IF i <= Len(s) THEN s[i] ELSE IF i = Len(s) + 1 THEN a ELSE b
  /\ \A i \in DOMAIN r : i % 2 = 1 => i < Len(r) /\ r[i] <= r[i + 1]

LEMMA PairsStay ==
  ASSUME NEW s \in Seq(Nat), NEW a \in Nat, NEW b \in Nat, a <= b,
         \A i \in DOMAIN s : i % 2 = 1 => i < Len(s) /\ s[i] <= s[i + 1]
  PROVE  LongerBy(s \o <<a, b>>, s, a, b)
<1> DEFINE r == s \o <<a, b>>
           n == Len(s)
<1>1. <<a, b>> \in Seq(Nat) /\ Len(<<a, b>>) = 2 /\ <<a, b>>[1] = a /\ <<a, b>>[2] = b
  OBVIOUS
<1>2. /\ r \in Seq(Nat) /\ Len(r) = n + 2 /\ DOMAIN r = 1 .. (n + 2)
      /\ n \in Nat /\ DOMAIN s = 1 .. n
      /\ \A i \in 1 .. (n + 2) : r[i] = IF i <= n THEN s[i] ELSE <<a, b>>[i - n]
  BY <1>1, ConcatProperties, LenProperties
<1>0. \A i \in 1 .. n : i % 2 = 1 => i < n /\ s[i] <= s[i + 1]
  BY <1>2
<1> HIDE DEF r, n
<1>3. \A i \in 1 .. (n + 2) : r[i] = IF i <= n THEN s[i] ELSE IF i = n + 1 THEN a ELSE b
  BY <1>1, <1>2
<1>4. n % 2 = 0
  <2>1. CASE n = 0
    BY <2>1
  <2>2. CASE n # 0
    <3>1. n \in 1 .. n /\ ~(n < n)
      BY <1>2, <2>2
    <3>2. n % 2 # 1
      BY <1>0, <3>1
    <3> QED BY ONLY <1>2, <3>2
  <2> QED BY <2>1, <2>2
<1>5. ASSUME NEW i \in 1 .. (n + 2), i % 2 = 1 PROVE i < n + 2 /\ r[i] <= r[i + 1]
  <2>1. CASE i <= n
    <3>1. i < n /\ s[i] <= s[i + 1]
      <4>1. i \in 1 .. n
        BY <1>2, <2>1
      <4> QED BY <1>0, <1>5, <4>1
    <3>2. i + 1 \in 1 .. (n + 2) /\ i + 1 <= n /\ i < n + 2
      BY <1>2, <3>1
    <3>3. r[i] = s[i] /\ r[i + 1] = s[i + 1]
      BY <1>3, <2>1, <3>2
    <3> QED BY <3>1, <3>2, <3>3
  <2>2. CASE ~(i <= n)
    <3>1. i = n + 1
      <4>1. n \in Nat /\ i \in 1 .. (n + 2) /\ i % 2 = 1 /\ n % 2 = 0
        BY <1>2, <1>4, <1>5
      <4>2. i # n + 2
        BY ONLY <4>1
      <4> QED BY ONLY <4>1, <4>2, <2>2
    <3>2. i \in 1 .. (n + 2) /\ i + 1 \in 1 .. (n + 2) /\ ~(i <= n) /\ ~(i + 1 <= n)
      BY <1>2, <3>1
    <3>3. r[i] = a /\ r[i + 1] = b
      BY <1>3, <3>1, <3>2, <1>2
    <3> QED BY <1>2, <3>1, <3>3
  <2> QED BY <1>2, <2>1, <2>2
<1> QED BY <1>2, <1>3, <1>5 DEF r, n, LongerBy

\* An exchange is stored and gets into its session.
LEMMA VmExchanges ==
  ASSUME VmInv, NEW t \in VmTasks, NEW next \in VmCall, NEW c \in VmCall,
         calls' = [calls EXCEPT ![t] = next],
         sessions' = [sessions EXCEPT ![c.session] = Exchanged(@, c)],
         UNCHANGED <<overlapped, storeKind, chatNo>>,
         stamp' \in {stamp, stamp + 1}, cogonsStored' \in Nat, CountNeverAhead',
         Away(calls[t]), c.session = calls[t].session, c.cogon = calls[t].cogon,
         c.cogon <= c.result, rows' \in Nat,
         storedCogons \subseteq storedCogons', storedCogons' \subseteq 1 .. stamp',
         c.cogon \in storedCogons', c.result \in storedCogons',
         storeKind = "memory" =>
           next.pc = "idle" /\ storedCogons' \subseteq storedCogons \cup {c.cogon, stamp + 1},
         next.pc \in {"idle", "count"},
         next.pc # "idle" => next.op = calls[t].op /\ next.session = calls[t].session,
         next.delta # {} => next.session \in overlapped
  PROVE  VmInv'
<1> DEFINE z == c.session
           old == sessions[z]
           pair == <<c.cogon, c.result>>
           r == old \o pair
           n == Len(old)
<1>1. /\ calls' \in [VmTasks -> VmCall] /\ calls'[t] = next
      /\ \A u \in VmTasks : u # t => calls'[u] = calls[u]
      /\ stamp \in Nat /\ stamp' \in Nat /\ stamp <= stamp'
      /\ storedCogons \in SUBSET (1 .. stamp) /\ storedCogons' \in SUBSET (1 .. stamp')
      /\ z \in 0 .. MaxChats /\ c.cogon \in Nat /\ c.result \in Nat
      /\ sessions \in [0 .. MaxChats -> Seq(Nat)] /\ old \in Seq(Nat)
  BY DEF VmInv, VmTypes, VmCall
<1>2. ~Away(next) /\ calls[t].pc # "idle" /\ calls[t].op \in {"chat", "run"}
  BY DEF Away, VmInv, Staged
<1>3. /\ ToSet(old) \subseteq storedCogons
      /\ \A i \in DOMAIN old : i % 2 = 1 => i < n /\ old[i] <= old[i + 1]
  BY <1>1 DEF VmInv, ExchangesWhole
<1>4. /\ r \in Seq(Nat) /\ Len(r) = n + 2
      /\ \A i \in DOMAIN r : r[i] = IF i <= n THEN old[i] ELSE IF i = n + 1 THEN c.cogon ELSE c.result
      /\ \A i \in DOMAIN r : i % 2 = 1 => i < Len(r) /\ r[i] <= r[i + 1]
  <2> HIDE DEF z, old, pair, n
  <2>1. PICK s \in Seq(Nat) : s = old
    BY <1>1
  <2>2. PICK x \in Nat : x = c.cogon
    BY <1>1
  <2>3. PICK y \in Nat : y = c.result
    BY <1>1
  <2>4. x <= y
    BY <2>2, <2>3
  <2>5. \A i \in DOMAIN s : i % 2 = 1 => i < Len(s) /\ s[i] <= s[i + 1]
    BY <1>3, <2>1 DEF n
  <2>6. LongerBy(s \o <<x, y>>, s, x, y)
    BY ONLY s \in Seq(Nat), x \in Nat, y \in Nat, <2>4, <2>5, PairsStay
  <2>7. r = s \o <<x, y>> /\ n = Len(s)
    BY <2>1, <2>2, <2>3 DEF pair, n
  <2>8. PICK g : g = s \o <<x, y>>
    OBVIOUS
  <2> HIDE DEF r
  <2>9. r = g /\ n = Len(s) /\ old = s /\ c.cogon = x /\ c.result = y
    BY ONLY <2>1, <2>2, <2>3, <2>7, <2>8
  <2>10. /\ g \in Seq(Nat) /\ Len(g) = Len(s) + 2
         /\ \A i \in DOMAIN g : g[i] = IF i <= Len(s) THEN s[i] ELSE IF i = Len(s) + 1 THEN x ELSE y
         /\ \A i \in DOMAIN g : i % 2 = 1 => i < Len(g) /\ g[i] <= g[i + 1]
    BY ONLY <2>6, <2>8 DEF LongerBy
  <2> QED BY ONLY <2>9, <2>10, Zenon
<1>5. /\ sessions' \in [0 .. MaxChats -> Seq(Nat)] /\ sessions'[z] = r
      /\ \A s \in 0 .. MaxChats : s # z => sessions'[s] = sessions[s]
  <2>1. sessions' = [sessions EXCEPT ![z] = r]
    BY <1>1 DEF Exchanged
  <2> HIDE DEF r, old, z
  <2> QED BY <1>1, <1>4, <2>1
<1>6. n \in Nat /\ DOMAIN old = 1 .. n /\ DOMAIN r = 1 .. (n + 2)
  BY <1>1, <1>4
<1> HIDE DEF r, old, pair, n, z
<1>7. VmTypes'
  BY <1>1, <1>5 DEF VmInv, VmTypes
<1>8. ASSUME NEW u \in VmTasks PROVE Staged(calls[u], stamp, storedCogons)'
  <2>1. CASE u = t
    <3>1. Staged(next, stamp', storedCogons')
      <4>1. /\ next.pc \notin {"recall", "agent", "reply", "query", "answer", "write"}
            /\ storeKind = "memory" => next.pc = "idle"
        OBVIOUS
      <4> QED BY <4>1 DEF Staged, Away
    <3> QED BY <1>1, <2>1, <3>1 DEF Staged
  <2>2. CASE u # t
    <3>1. Staged(calls[u], stamp, storedCogons) /\ calls'[u] = calls[u] /\ storeKind' = storeKind
      BY <1>1, <2>2 DEF VmInv
    <3>2. /\ stamp \in Nat /\ stamp' \in Nat /\ stamp <= stamp'
          /\ storedCogons \subseteq storedCogons'
      BY <1>1
    <3> QED BY ONLY <3>1, <3>2 DEF Staged
  <2> QED BY <2>1, <2>2
<1>9. ASSUME NEW s \in 0 .. MaxChats PROVE Calm(s)'
  <2>1. InSession(s)' \subseteq InSession(s)
    BY <1>1, <1>2 DEF InSession, At
  <2>2. \A a \in InSession(s)' : Away(calls'[a]) => a # t /\ calls'[a] = calls[a]
    BY <1>1, <1>2 DEF InSession
  <2>3. CASE s # z
    <3>1. sessions'[s] = sessions[s] /\ Calm(s)
      BY <1>5, <2>3 DEF VmInv
    <3> QED BY <2>1, <2>2, <3>1 DEF Calm
  <2>4. CASE s = z /\ s \notin overlapped
    <3>1. t \in InSession(s)
      BY <1>2, <2>4 DEF InSession, At, z
    <3>2. \A a \in InSession(s) : a = t
      BY <2>4, <3>1 DEF VmInv, Calm
    <3>3. \A i \in DOMAIN old : old[i] < c.cogon
      BY <2>4, <3>1 DEF VmInv, Calm, old
    <3>4. LastStamp(r) = c.result
      <4>1. r # <<>> /\ r[Len(r)] = c.result
        BY <1>4, <1>6
      <4> QED BY <4>1 DEF LastStamp, Last
    <3>5. ASSUME NEW i \in DOMAIN r PROVE r[i] <= c.result
      <4>1. CASE i <= n
        <5>1. i \in DOMAIN old /\ r[i] = old[i]
          BY <1>4, <1>6, <4>1
        <5>2. old[i] \in Nat
          BY <1>1, <5>1
        <5> QED BY <1>1, <3>3, <5>1, <5>2
      <4>2. CASE ~(i <= n)
        <5>1. r[i] = c.cogon \/ r[i] = c.result
          BY <1>4, <4>2
        <5> QED BY <1>1, <5>1
      <4> QED BY <4>1, <4>2
    <3>6. \A a \in InSession(s)' : ~Away(calls'[a])
      BY <2>1, <2>2, <3>2
    <3>7. \A a, b \in InSession(s)' : a = b
      BY <2>1, <3>2
    <3>8. sessions'[s] = r
      BY <1>5, <2>4
    <3> QED BY <3>4, <3>5, <3>6, <3>7, <3>8 DEF Calm
  <2>5. CASE s \in overlapped
    BY <2>5 DEF Calm
  <2> QED BY <2>3, <2>4, <2>5
<1>10. Unstored'
  <2> SUFFICES ASSUME storeKind = "memory" PROVE Unstored'
    BY DEF Unstored
  <2>1. \A u \in VmTasks : Away(calls'[u]) =>
          /\ u # t /\ Away(calls[u]) /\ calls'[u] = calls[u] /\ calls[u].cogon \in 1 .. stamp
    BY <1>1, <1>2 DEF VmInv, Staged
  <2>2. stamp + 1 \notin 1 .. stamp
    BY <1>1
  <2>3. \A u \in VmTasks : Away(calls[u]) =>
          /\ calls[u].cogon \notin storedCogons
          /\ \A w \in VmTasks : Away(calls[w]) /\ calls[w].cogon = calls[u].cogon => w = u
    BY DEF VmInv, Unstored
  <2>4. \A u \in VmTasks : Away(calls'[u]) => calls[u].cogon # c.cogon
    BY <2>1, <2>3
  <2>5. \A u \in VmTasks : Away(calls'[u]) => calls'[u].cogon \notin storedCogons'
    BY <2>1, <2>2, <2>3, <2>4
  <2>6. \A u, w \in VmTasks :
          Away(calls'[u]) /\ Away(calls'[w]) /\ calls'[w].cogon = calls'[u].cogon => w = u
    BY <2>1, <2>3
  <2> QED BY <2>5, <2>6 DEF Unstored
<1>11. DeltaOnlyIfOverlapped'
  BY <1>1 DEF VmInv, DeltaOnlyIfOverlapped
<1>12. ExchangesWhole'
  <2>1. DOMAIN sessions' = 0 .. MaxChats /\ DOMAIN sessions = 0 .. MaxChats
    BY <1>1, <1>5
  <2>2. ASSUME NEW s \in 0 .. MaxChats
        PROVE  /\ ToSet(sessions'[s]) \subseteq storedCogons'
               /\ \A i \in DOMAIN sessions'[s] : i % 2 = 1 =>
                    i < Len(sessions'[s]) /\ sessions'[s][i] <= sessions'[s][i + 1]
    <3>1. CASE s # z
      BY <1>5, <2>1, <3>1 DEF VmInv, ExchangesWhole
    <3>2. CASE s = z
      <4>1. \A i \in DOMAIN r : r[i] \in storedCogons'
        <5>1. \A i \in DOMAIN old : old[i] \in storedCogons
          <6>1. \A i \in DOMAIN old : old[i] \in ToSet(old)
            BY DEF ToSet
          <6> QED BY <1>3, <6>1
        <5> QED BY <1>4, <1>6, <5>1
      <4>2. ToSet(r) \subseteq storedCogons'
        BY <4>1 DEF ToSet
      <4> QED BY <1>4, <1>5, <3>2, <4>2
    <3> QED BY <3>1, <3>2
  <2> QED BY <2>1, <2>2 DEF ExchangesWhole
<1> QED BY <1>7, <1>8, <1>9, <1>10, <1>11, <1>12 DEF VmInv

LEMMA VmBegins ==
  ASSUME VmInv, NEW t \in VmTasks, NEW op \in {"chat", "run", "stream", "remember"},
         NEW s \in 0 .. MaxChats, NEW odd \in BOOLEAN, BeginRequest(t, op, s, odd)
  PROVE  VmInv'
<1> DEFINE next == [NoRequest EXCEPT !.pc = AfterProjector(projector), !.op = op,
                                     !.session = s, !.odd = odd]
<1>1. /\ calls' = [calls EXCEPT ![t] = next] /\ calls[t].pc = "idle"
      /\ UNCHANGED <<storedCogons, rows, sessions, chatNo, stamp, cogonsStored, storeKind>>
      /\ overlapped' = IF op \in {"chat", "run"} /\ InSession(s) # {}
                       THEN overlapped \cup {s} ELSE overlapped
  BY DEF BeginRequest, SetCall, StatsUnchanged, SetUp, At
<1>2. /\ next \in VmCall /\ next.pc \in {"probe", "project"} /\ next.delta = {}
      /\ next.op = op /\ next.session = s
  <2>1. NoRequest \in VmCall /\ AfterProjector(projector) \in {"probe", "project"}
    BY VmAssumption DEF NoRequest, VmCall, Network, AfterProjector
  <2> QED BY <2>1 DEF NoRequest, VmCall
<1> HIDE DEF next
<1>3. /\ calls' \in [VmTasks -> VmCall] /\ calls'[t] = next
      /\ \A u \in VmTasks : u # t => calls'[u] = calls[u]
  BY <1>1, <1>2 DEF VmInv, VmTypes
<1>4. ~Away(next) /\ ~Away(calls[t])
  BY <1>1, <1>2 DEF Away
<1>5. VmTypes'
  BY <1>1, <1>3 DEF VmInv, VmTypes
<1>6. ASSUME NEW u \in VmTasks PROVE Staged(calls[u], stamp, storedCogons)'
  <2>1. CASE u = t
    <3>1. Staged(next, stamp, storedCogons)
      BY <1>2, <1>4 DEF Staged
    <3> QED BY <1>1, <1>3, <2>1, <3>1 DEF Staged
  <2>2. CASE u # t
    BY <1>1, <1>3, <2>2 DEF VmInv, Staged
  <2> QED BY <2>1, <2>2
<1>7. ASSUME NEW x \in 0 .. MaxChats PROVE Calm(x)'
  <2> SUFFICES ASSUME x \notin overlapped' PROVE Calm(x)'
    BY DEF Calm
  <2>1. x \notin overlapped /\ Calm(x)
    BY <1>1 DEF VmInv
  <2>2. \A a \in InSession(x)' :
          \/ a # t /\ a \in InSession(x) /\ calls'[a] = calls[a]
          \/ a = t /\ op \in {"chat", "run"} /\ s = x
    BY <1>2, <1>3 DEF InSession, At
  <2>3. op \in {"chat", "run"} /\ s = x => InSession(x) = {}
    BY <1>1
  <2>4. /\ \A a, b \in InSession(x)' : a = b
        /\ \A a \in InSession(x)' : Away(calls'[a]) => a \in InSession(x) /\ calls'[a] = calls[a]
    BY <1>3, <1>4, <2>1, <2>2, <2>3 DEF Calm
  <2>5. sessions'[x] = sessions[x]
    BY <1>1
  <2> QED BY <2>1, <2>4, <2>5 DEF Calm
<1>8. Unstored'
  <2>1. \A u \in VmTasks : Away(calls'[u]) => Away(calls[u]) /\ calls'[u] = calls[u]
    BY <1>3, <1>4
  <2> QED BY <1>1, <2>1 DEF VmInv, Unstored
<1>9. DeltaOnlyIfOverlapped'
  <2>1. overlapped \subseteq overlapped'
    BY <1>1
  <2> QED BY <1>2, <1>3, <2>1 DEF VmInv, DeltaOnlyIfOverlapped
<1>10. ExchangesWhole'
  BY <1>1 DEF VmInv, ExchangesWhole
<1>11. CountNeverAhead'
  BY <1>1 DEF VmInv, CountNeverAhead
<1> QED BY <1>5, <1>6, <1>7, <1>8, <1>9, <1>10, <1>11 DEF VmInv

\* The agent is called, with a delta, or the request ends.
LEMMA VmRoutes ==
  ASSUME VmInv, NEW t \in VmTasks, NEW c \in VmCall, Routed(t, c),
         UNCHANGED <<storedCogons, rows, sessions, overlapped, storeKind, chatNo, cogonsStored>>,
         stamp' \in {stamp, stamp + 1}, c.op \in {"chat", "run"},
         calls[t].pc # "idle", c.op = calls[t].op, c.session = calls[t].session,
         c.cogon \in 1 .. stamp',
         \/ c.cogon = stamp + 1 /\ stamp' = stamp + 1
         \/ Away(calls[t]) /\ c.cogon = calls[t].cogon
  PROVE  VmInv'
<1> DEFINE delta == DeltaSince(sessions[c.session], LastStamp(sessions[c.session]))
           next == [c EXCEPT !.pc = "agent", !.delta = delta]
<1>1. calls' = [calls EXCEPT ![t] = next] \/ calls' = [calls EXCEPT ![t] = NoRequest]
  BY DEF Routed, SetCall
<1>2. /\ c.session \in 0 .. MaxChats /\ sessions[c.session] \in Seq(Nat)
      /\ stamp \in Nat /\ cogonsStored \in Nat
  BY DEF VmInv, VmTypes, VmCall
<1>3. delta \subseteq Nat
  BY <1>2 DEF DeltaSince
<1>4. c.session \notin overlapped => delta = {}
  <2>1. c.session \notin overlapped =>
          \A i \in DOMAIN sessions[c.session] :
            sessions[c.session][i] <= LastStamp(sessions[c.session])
    BY <1>2 DEF VmInv, Calm
  <2>2. \A i \in DOMAIN sessions[c.session] : sessions[c.session][i] \in Nat
    BY <1>2
  <2>3. LastStamp(sessions[c.session]) \in Nat
    <3>1. CASE sessions[c.session] = <<>>
      BY <3>1 DEF LastStamp
    <3>2. CASE sessions[c.session] # <<>>
      <4>1. Len(sessions[c.session]) \in DOMAIN sessions[c.session]
        BY <1>2, <3>2
      <4> QED BY <2>2, <3>2, <4>1 DEF LastStamp, Last
    <3> QED BY <3>1, <3>2
  <2> QED BY <2>1, <2>2, <2>3 DEF DeltaSince
<1> HIDE DEF delta
<1>5. CASE calls' = [calls EXCEPT ![t] = next]
  <2>1. /\ next \in VmCall /\ next.pc = "agent" /\ next.op = c.op /\ next.session = c.session
        /\ next.cogon = c.cogon /\ next.delta = delta
    BY <1>3 DEF VmCall
  <2> HIDE DEF next
  <2>2. Staged(next, stamp', storedCogons)
    BY <2>1 DEF Staged, Away
  <2>3. CountNeverAhead'
    BY DEF VmInv, CountNeverAhead
  <2> QED BY <1>2, <1>4, <1>5, <2>1, <2>2, <2>3, VmCallMoves
<1>6. CASE calls' = [calls EXCEPT ![t] = NoRequest]
  <2>1. NoRequest \in VmCall /\ NoRequest.pc = "idle" /\ NoRequest.delta = {}
    BY VmAssumption DEF NoRequest, VmCall, Network
  <2>2. Staged(NoRequest, stamp', storedCogons) /\ ~Away(NoRequest)
    BY <2>1 DEF Staged, Away
  <2>3. CountNeverAhead'
    BY DEF VmInv, CountNeverAhead
  <2> QED BY <1>2, <1>6, <2>1, <2>2, <2>3, VmCallMoves
<1> QED BY <1>1, <1>5, <1>6

\* A request is given up.
LEMMA VmRaises ==
  ASSUME VmInv, NEW t \in VmTasks, RequestRaises(t)
  PROVE  VmInv'
<1>1. /\ calls' = [calls EXCEPT ![t] = NoRequest]
      /\ UNCHANGED <<storedCogons, rows, sessions, overlapped, storeKind, chatNo, stamp, cogonsStored>>
  BY DEF RequestRaises, SetCall, StatsUnchanged, GoesOn, SetUp
<1>2. NoRequest \in VmCall /\ NoRequest.pc = "idle" /\ NoRequest.delta = {}
  BY VmAssumption DEF NoRequest, VmCall, Network
<1>3. Staged(NoRequest, stamp', storedCogons) /\ ~Away(NoRequest)
  BY <1>2 DEF Staged, Away
<1>4. CountNeverAhead' /\ cogonsStored' \in Nat
  BY <1>1 DEF VmInv, VmTypes, CountNeverAhead
<1> QED BY <1>1, <1>2, <1>3, <1>4, VmCallMoves

\* A call with another stamp or result, elsewhere.
LEMMA VmCallQueried ==
  ASSUME NEW c \in VmCall, NEW n \in Nat
  PROVE  LET d == [c EXCEPT !.cogon = n, !.pc = "recall"]
         IN  /\ d \in VmCall /\ d.pc = "recall" /\ d.cogon = n /\ d.op = c.op
             /\ d.session = c.session /\ d.delta = c.delta
BY DEF VmCall

LEMMA VmCallWrites ==
  ASSUME NEW c \in VmCall, NEW n \in Nat
  PROVE  LET d == [c EXCEPT !.pc = "write", !.cogon = n]
         IN  /\ d \in VmCall /\ d.pc = "write" /\ d.cogon = n /\ d.op = c.op
             /\ d.session = c.session /\ d.delta = c.delta
BY DEF VmCall

LEMMA VmCallAnswered ==
  ASSUME NEW c \in VmCall, NEW n \in Nat
  PROVE  LET d == [c EXCEPT !.result = n, !.pc = "query"]
         IN  /\ d \in VmCall /\ d.pc = "query" /\ d.result = n /\ d.cogon = c.cogon /\ d.op = c.op
             /\ d.session = c.session /\ d.delta = c.delta /\ d.odd = c.odd
BY DEF VmCall

\* NoRequest, as the end of a call.
LEMMA VmNone ==
  /\ NoRequest \in VmCall /\ NoRequest.pc = "idle" /\ NoRequest.delta = {}
  /\ ~Away(NoRequest)
  /\ \A n, there : Staged(NoRequest, n, there)
BY VmAssumption DEF NoRequest, VmCall, Network, Staged, Away

LEMMA VmAnswered ==
  ASSUME VmInv, NEW t \in VmTasks, NEW c \in VmCall, Answered(t, c),
         UNCHANGED <<overlapped, storeKind, chatNo>>, stamp' \in {stamp, stamp + 1},
         Away(calls[t]), c.pc = "query", c.cogon = calls[t].cogon, c.op = calls[t].op,
         c.session = calls[t].session, c.delta = calls[t].delta,
         c.result \in {c.cogon, stamp + 1}, c.result \in 1 .. stamp'
  PROVE  VmInv'
<1>1. /\ stamp \in Nat /\ cogonsStored \in Nat /\ rows \in Nat /\ storedCogons \in SUBSET (1 .. stamp)
      /\ calls[t] \in VmCall
  BY DEF VmInv, VmTypes
<1>2. /\ calls[t].cogon \in 1 .. stamp /\ calls[t].op \in {"chat", "run"} /\ calls[t].pc # "idle"
      /\ calls[t].delta # {} => calls[t].session \in overlapped
  BY <1>1 DEF VmInv, Staged, Away, DeltaOnlyIfOverlapped
<1>3. c.cogon <= c.result /\ c.cogon \in 1 .. stamp' /\ stamp' \in Nat /\ stamp <= stamp'
  BY <1>1, <1>2
<1>4. \/ /\ calls' = [calls EXCEPT ![t] = NoRequest]
         /\ UNCHANGED <<cogonsStored, storedCogons, rows, sessions>>
      \/ /\ storeKind = "memory" /\ storedCogons' = storedCogons \cup {c.cogon, c.result}
         /\ rows' = rows + 2
         /\ sessions' = [sessions EXCEPT ![c.session] = Exchanged(@, c)]
         /\ cogonsStored' = rows + 2 \/ UNCHANGED cogonsStored
         /\ calls' = [calls EXCEPT ![t] = NoRequest]
      \/ /\ storeKind # "memory" /\ calls' = [calls EXCEPT ![t] = c]
         /\ UNCHANGED <<cogonsStored, storedCogons, rows, sessions>>
  BY DEF Answered, SetCall, StatsUnchanged, NothingPushed, Done
<1>5. CASE /\ calls' = [calls EXCEPT ![t] = NoRequest]
           /\ UNCHANGED <<cogonsStored, storedCogons, rows, sessions>>
  <2>1. CountNeverAhead' /\ cogonsStored' \in Nat
    BY <1>1, <1>5 DEF VmInv, CountNeverAhead
  <2> QED BY <1>1, <1>5, <2>1, VmNone, VmCallMoves
<1>6. CASE /\ storeKind = "memory" /\ storedCogons' = storedCogons \cup {c.cogon, c.result}
           /\ rows' = rows + 2
           /\ sessions' = [sessions EXCEPT ![c.session] = Exchanged(@, c)]
           /\ cogonsStored' = rows + 2 \/ UNCHANGED cogonsStored
           /\ calls' = [calls EXCEPT ![t] = NoRequest]
  <2>1. CountNeverAhead' /\ cogonsStored' \in Nat /\ rows' \in Nat
    <3>1. cogonsStored <= rows
      BY <1>6 DEF VmInv, CountNeverAhead
    <3>2. cogonsStored' \in Nat /\ rows' \in Nat /\ cogonsStored' <= rows'
      BY <1>1, <1>6, <3>1
    <3> QED BY <3>2 DEF CountNeverAhead
  <2>2. storedCogons' \subseteq 1 .. stamp'
    <3>1. storedCogons \subseteq 1 .. stamp'
      BY ONLY <1>1, <1>3
    <3>2. c.cogon \in 1 .. stamp' /\ c.result \in 1 .. stamp'
      BY <1>3
    <3> QED BY ONLY <1>6, <3>1, <3>2
  <2>3. /\ storedCogons \subseteq storedCogons' /\ c.cogon \in storedCogons' /\ c.result \in storedCogons'
        /\ storedCogons' \subseteq storedCogons \cup {c.cogon, stamp + 1}
    BY <1>6
  <2> QED BY <1>1, <1>2, <1>3, <1>6, <2>1, <2>2, <2>3, VmNone, VmExchanges
<1>7. CASE /\ storeKind # "memory" /\ calls' = [calls EXCEPT ![t] = c]
           /\ UNCHANGED <<cogonsStored, storedCogons, rows, sessions>>
  <2>1. CountNeverAhead' /\ cogonsStored' \in Nat
    BY <1>1, <1>7 DEF VmInv, CountNeverAhead
  <2>2. Staged(c, stamp', storedCogons)
    BY <1>1, <1>2, <1>3, <1>7 DEF Staged, Away
  <2>3. c.delta # {} => c.session \in overlapped
    BY <1>2
  <2> QED BY <1>1, <1>2, <1>3, <1>7, <2>1, <2>2, <2>3, VmCallMoves
<1> QED BY <1>4, <1>5, <1>6, <1>7

\* The agent's answer: projected, or the query itself.
LEMMA VmAnswers ==
  ASSUME VmInv, NEW t \in VmTasks, ReplyProjected(t) \/ AgentEchoes(t)
  PROVE  VmInv'
<1>1. PICK n \in Nat :
        /\ Answered(t, [calls[t] EXCEPT !.result = n, !.pc = "query"])
        /\ \/ calls[t].pc = "reply" /\ stamp' = stamp + 1 /\ n = stamp + 1
           \/ calls[t].pc = "agent" /\ stamp' = stamp /\ n = calls[t].cogon
  <2>1. stamp + 1 \in Nat /\ calls[t].cogon \in Nat
    BY DEF VmInv, VmTypes, VmCall
  <2>2. CASE ReplyProjected(t)
    BY <2>1, <2>2 DEF ReplyProjected, At
  <2>3. CASE AgentEchoes(t)
    BY <2>1, <2>3 DEF AgentEchoes, At
  <2> QED BY <2>2, <2>3
<1>2. /\ UNCHANGED <<overlapped, storeKind, chatNo>> /\ calls[t] \in VmCall /\ stamp \in Nat
      /\ Staged(calls[t], stamp, storedCogons)
  BY DEF ReplyProjected, AgentEchoes, GoesOn, SetUp, VmInv, VmTypes
<1>3. PICK c : c = [calls[t] EXCEPT !.result = n, !.pc = "query"]
  OBVIOUS
<1>4. /\ c \in VmCall /\ c.pc = "query" /\ c.result = n /\ c.op = calls[t].op
      /\ c.session = calls[t].session /\ c.cogon = calls[t].cogon /\ c.delta = calls[t].delta
  BY ONLY <1>2, <1>3, n \in Nat, VmCallAnswered, Zenon
<1>5. Answered(t, c)
  BY <1>1, <1>3
<1>6. Away(calls[t]) /\ calls[t].cogon \in 1 .. stamp
  BY <1>1, <1>2 DEF Staged, Away
<1>7. stamp' \in {stamp, stamp + 1} /\ n \in 1 .. stamp' /\ n \in {calls[t].cogon, stamp + 1}
  BY <1>1, <1>2, <1>6
<1> QED BY <1>2, <1>4, <1>5, <1>6, <1>7, VmAnswered

LEMMA VmProjects ==
  ASSUME VmInv, NEW t \in VmTasks, QueryProjected(t)
  PROVE  VmInv'
<1> DEFINE c == [calls[t] EXCEPT !.cogon = stamp + 1, !.pc = "recall"]
<1>1. /\ calls[t].pc = "project" /\ stamp' = stamp + 1 /\ calls[t].op \in {"chat", "run"}
      /\ UNCHANGED <<overlapped, storeKind, chatNo, storedCogons, rows, sessions, cogonsStored>>
      /\ stamp \in Nat /\ cogonsStored \in Nat /\ calls[t] \in VmCall
  BY DEF QueryProjected, At, GoesOn, SetUp, StatsUnchanged, VmInv, VmTypes
<1>2. /\ c \in VmCall /\ c.pc = "recall" /\ c.cogon = stamp + 1 /\ c.op = calls[t].op
      /\ c.session = calls[t].session /\ c.delta = calls[t].delta
  <2>1. stamp + 1 \in Nat /\ calls[t] \in VmCall
    BY <1>1
  <2> QED BY ONLY <2>1, VmCallQueried, Zenon
<1>3. \/ Routed(t, c)
      \/ storeKind = "redis" /\ calls' = [calls EXCEPT ![t] = c]
  BY DEF QueryProjected, SetCall
<1> HIDE DEF c
<1>4. CASE Routed(t, c)
  BY <1>1, <1>2, <1>4, VmRoutes
<1>5. CASE storeKind = "redis" /\ calls' = [calls EXCEPT ![t] = c]
  <2>1. Staged(c, stamp', storedCogons)
    BY <1>1, <1>2, <1>5 DEF Staged, Away
  <2>2. CountNeverAhead' /\ (c.delta # {} => c.session \in overlapped)
    BY <1>1, <1>2 DEF VmInv, CountNeverAhead, DeltaOnlyIfOverlapped
  <2> QED BY <1>1, <1>2, <1>5, <2>1, <2>2, VmCallMoves
<1> QED BY <1>3, <1>4, <1>5

LEMMA VmResults ==
  ASSUME VmInv, NEW t \in VmTasks, AddResult(t)
  PROVE  VmInv'
<1> DEFINE next == IF calls[t].op = "chat" THEN [calls[t] EXCEPT !.pc = "count"] ELSE NoRequest
<1>1. /\ calls[t].pc = "answer" /\ calls' = [calls EXCEPT ![t] = next]
      /\ sessions' = [sessions EXCEPT ![calls[t].session] = Exchanged(@, calls[t])]
      /\ storedCogons' = storedCogons \cup {calls[t].result} /\ rows' = rows + 1 /\ rows \in Nat
      /\ UNCHANGED <<overlapped, storeKind, chatNo, stamp, cogonsStored>>
      /\ stamp \in Nat /\ cogonsStored \in Nat /\ storedCogons \in SUBSET (1 .. stamp)
      /\ calls[t] \in VmCall
  BY DEF AddResult, Rpush, At, GoesOn, SetUp, StatsUnchanged, SetCall, VmInv, VmTypes
<1>2. /\ next \in VmCall /\ next.pc \in {"idle", "count"}
      /\ next.pc # "idle" => next.op = calls[t].op /\ next.session = calls[t].session
      /\ next.delta # {} => next.session \in overlapped
  <2>1. CASE calls[t].op = "chat"
    BY <1>1, <2>1 DEF VmCall, VmInv, DeltaOnlyIfOverlapped
  <2>2. CASE calls[t].op # "chat"
    BY <2>2, VmNone
  <2> QED BY <2>1, <2>2
<1> HIDE DEF next
<1>3. /\ Away(calls[t]) /\ storeKind # "memory" /\ calls[t].cogon <= calls[t].result /\ rows' \in Nat
      /\ calls[t].cogon \in storedCogons /\ calls[t].result \in 1 .. stamp
  BY <1>1 DEF VmInv, Staged, Away
<1>4. CountNeverAhead'
  BY <1>1, <1>3 DEF CountNeverAhead
<1>5. /\ storedCogons \subseteq storedCogons' /\ storedCogons' \subseteq 1 .. stamp'
      /\ calls[t].cogon \in storedCogons' /\ calls[t].result \in storedCogons'
  BY <1>1, <1>3
<1> QED BY <1>1, <1>2, <1>3, <1>4, <1>5, VmExchanges

\* A cogon is stored by itself: of remember, of chat_stream, or a query.
LEMMA VmWrites ==
  ASSUME VmInv, NEW t \in VmTasks,
         AddQuery(t) \/ Written(t) \/ RememberProjected(t) \/ StreamProjected(t)
  PROVE  VmInv'
<1>1. stamp \in Nat /\ cogonsStored \in Nat /\ calls[t] \in VmCall
  BY DEF VmInv, VmTypes
<1>2. calls[t].delta # {} => calls[t].session \in overlapped
  BY DEF VmInv, DeltaOnlyIfOverlapped
<1>3. Staged(calls[t], stamp, storedCogons)
  BY DEF VmInv
<1>4. CASE AddQuery(t)
  <2> DEFINE next == [calls[t] EXCEPT !.pc = "answer"]
  <2>1. /\ calls[t].pc = "query" /\ calls' = [calls EXCEPT ![t] = next]
        /\ storedCogons' = storedCogons \cup {calls[t].cogon} /\ rows' = rows + 1
        /\ UNCHANGED <<sessions, overlapped, storeKind, chatNo, stamp, cogonsStored>>
    BY <1>4 DEF AddQuery, Rpush, At, SetCall, StatsUnchanged, GoesOn, SetUp
  <2>2. /\ next \in VmCall /\ next.pc = "answer" /\ next.cogon = calls[t].cogon
        /\ next.result = calls[t].result /\ next.op = calls[t].op
        /\ next.session = calls[t].session /\ next.delta = calls[t].delta
    BY <1>1 DEF VmCall
  <2> HIDE DEF next
  <2>3. /\ storeKind # "memory" /\ Away(calls[t]) /\ calls[t].cogon \in 1 .. stamp
    BY <1>3, <2>1 DEF Staged, Away
  <2>4. Staged(next, stamp', storedCogons')
    BY <1>3, <2>1, <2>2, <2>3 DEF Staged, Away
  <2>5. /\ stamp' \in {stamp, stamp + 1} /\ calls[t].cogon \in 1 .. stamp' /\ cogonsStored' \in Nat
        /\ cogonsStored' <= cogonsStored + 1 /\ calls[t].pc # "idle" /\ Away(calls[t])
        /\ next.delta # {} => next.session \in overlapped
    BY <1>1, <1>2, <2>1, <2>2, <2>3
  <2> QED BY <2>1, <2>2, <2>3, <2>4, <2>5, VmStores
<1>5. CASE Written(t)
  <2> DEFINE next == IF calls[t].op = "stream" THEN NoRequest ELSE [calls[t] EXCEPT !.pc = "written"]
  <2>1. /\ calls[t].pc = "write" /\ calls' = [calls EXCEPT ![t] = next]
        /\ storedCogons' = storedCogons \cup {calls[t].cogon} /\ rows' = rows + 1
        /\ UNCHANGED <<sessions, overlapped, storeKind, chatNo, stamp, cogonsStored>>
    BY <1>5 DEF Written, Rpush, At, SetCall, StatsUnchanged, GoesOn, SetUp
  <2>2. storeKind # "memory" /\ calls[t].cogon \in 1 .. stamp
    BY <1>3, <2>1 DEF Staged
  <2>3. /\ next \in VmCall /\ next.pc \in {"idle", "written"}
        /\ next.pc # "idle" => next.op = calls[t].op /\ next.session = calls[t].session
        /\ next.delta # {} => next.session \in overlapped
    <3>1. CASE calls[t].op = "stream"
      BY <3>1, VmNone
    <3>2. CASE calls[t].op # "stream"
      BY <1>1, <1>2, <3>2 DEF VmCall
    <3> QED BY <3>1, <3>2
  <2> HIDE DEF next
  <2>4. Staged(next, stamp', storedCogons') /\ ~Away(next)
    BY <2>2, <2>3 DEF Staged, Away
  <2>5. /\ stamp' \in {stamp, stamp + 1} /\ calls[t].cogon \in 1 .. stamp' /\ cogonsStored' \in Nat
        /\ cogonsStored' <= cogonsStored + 1 /\ calls[t].pc # "idle"
    BY <1>1, <2>1, <2>2
  <2> QED BY <2>1, <2>2, <2>3, <2>4, <2>5, VmStores
<1>6. CASE RememberProjected(t) \/ StreamProjected(t)
  <2> DEFINE next == [calls[t] EXCEPT !.pc = "write", !.cogon = stamp + 1]
  <2>1. /\ calls[t].pc = "project" /\ stamp' = stamp + 1
        /\ UNCHANGED <<sessions, overlapped, storeKind, chatNo>>
        /\ \/ /\ storeKind = "memory" /\ storedCogons' = storedCogons \cup {stamp + 1} /\ rows' = rows + 1
              /\ cogonsStored' \in {cogonsStored, cogonsStored + 1}
              /\ calls' = [calls EXCEPT ![t] = NoRequest]
           \/ /\ storeKind # "memory" /\ UNCHANGED <<storedCogons, rows, cogonsStored>>
              /\ calls' = [calls EXCEPT ![t] = next]
    BY <1>6 DEF RememberProjected, StreamProjected, Remembered, Rpush, NothingPushed, At, SetCall, StatsUnchanged, GoesOn, SetUp
  <2>2. /\ next \in VmCall /\ next.pc = "write" /\ next.cogon = stamp + 1 /\ next.op = calls[t].op
        /\ next.session = calls[t].session /\ next.delta = calls[t].delta
    <3>1. stamp + 1 \in Nat
      BY <1>1
    <3>2. calls[t] \in VmCall
      BY <1>1
    <3> QED BY ONLY <3>1, <3>2, VmCallWrites, Zenon
  <2> HIDE DEF next
  <2>3. CASE /\ storeKind = "memory" /\ storedCogons' = storedCogons \cup {stamp + 1} /\ rows' = rows + 1
             /\ cogonsStored' \in {cogonsStored, cogonsStored + 1}
             /\ calls' = [calls EXCEPT ![t] = NoRequest]
    <3>1. stamp + 1 \in 1 .. stamp' /\ cogonsStored' \in Nat /\ cogonsStored' <= cogonsStored + 1
      BY <1>1, <2>1, <2>3
    <3> QED BY <1>1, <2>1, <2>3, <3>1, VmNone, VmStores
  <2>4. CASE /\ storeKind # "memory" /\ UNCHANGED <<storedCogons, rows, cogonsStored>>
             /\ calls' = [calls EXCEPT ![t] = next]
    <3>1. Staged(next, stamp', storedCogons) /\ ~Away(next)
      BY <1>1, <2>1, <2>2, <2>4 DEF Staged, Away
    <3>2. CountNeverAhead'
      BY <2>1, <2>4 DEF CountNeverAhead
    <3> QED BY <1>1, <1>2, <2>1, <2>2, <2>4, <3>1, <3>2, VmCallMoves
  <2> QED BY <2>1, <2>3, <2>4
<1> QED BY <1>4, <1>5, <1>6

\* A call goes on, or returns, and nothing else happens.
LEMMA VmWaits ==
  ASSUME VmInv, NEW t \in VmTasks,
         Probed(t) \/ AgentAnswers(t) \/ ChatReturns(t) \/ RememberReturns(t)
  PROVE  VmInv'
<1>1. stamp \in Nat /\ cogonsStored \in Nat /\ calls[t] \in VmCall /\ storedCogons \in SUBSET (1 .. stamp)
  BY DEF VmInv, VmTypes
<1>2. calls[t].delta # {} => calls[t].session \in overlapped
  BY DEF VmInv, DeltaOnlyIfOverlapped
<1>3. Staged(calls[t], stamp, storedCogons)
  BY DEF VmInv
<1>4. /\ UNCHANGED <<storedCogons, rows, sessions, overlapped, storeKind, chatNo, stamp>>
      /\ \/ calls[t].pc = "probe" /\ calls' = [calls EXCEPT ![t] = [calls[t] EXCEPT !.pc = "project"]]
            /\ UNCHANGED cogonsStored
         \/ calls[t].pc = "agent" /\ calls' = [calls EXCEPT ![t] = [calls[t] EXCEPT !.pc = "reply"]]
            /\ UNCHANGED cogonsStored
         \/ calls[t].pc \in {"count", "written"} /\ calls' = [calls EXCEPT ![t] = NoRequest]
            /\ cogonsStored' \in {cogonsStored, cogonsStored + 1, rows}
  BY DEF Probed, AgentAnswers, ChatReturns, RememberReturns, Done, At, SetCall, StatsUnchanged, GoesOn, SetUp
<1>5. CASE calls[t].pc \in {"probe", "agent"} /\ UNCHANGED cogonsStored
  <2>1. PICK pc \in {"project", "reply"} :
           /\ calls' = [calls EXCEPT ![t] = [calls[t] EXCEPT !.pc = pc]]
           /\ pc = "reply" <=> calls[t].pc = "agent"
    BY <1>4, <1>5
  <2> DEFINE next == [calls[t] EXCEPT !.pc = pc]
  <2>2. /\ next \in VmCall /\ next.pc = pc /\ next.cogon = calls[t].cogon /\ next.op = calls[t].op
        /\ next.session = calls[t].session /\ next.delta = calls[t].delta
    BY <1>1 DEF VmCall
  <2>3. calls' = [calls EXCEPT ![t] = next]
    BY <2>1
  <2> HIDE DEF next
  <2>4. Staged(next, stamp, storedCogons) /\ (Away(next) => Away(calls[t]))
    BY <1>3, <1>5, <2>1, <2>2 DEF Staged, Away
  <2>5. CountNeverAhead'
    BY <1>4, <1>5 DEF VmInv, CountNeverAhead
  <2> QED BY <1>1, <1>2, <1>4, <1>5, <2>2, <2>3, <2>4, <2>5, VmCallMoves
<1>6. CASE /\ calls[t].pc \in {"count", "written"} /\ calls' = [calls EXCEPT ![t] = NoRequest]
           /\ cogonsStored' \in {cogonsStored, cogonsStored + 1, rows}
  <2>1. storeKind # "memory"
    BY <1>3, <1>6 DEF Staged
  <2>2. CountNeverAhead'
    BY <1>4, <2>1 DEF CountNeverAhead
  <2>3. cogonsStored' \in Nat
    BY <1>1, <1>6 DEF VmInv, VmTypes
  <2> QED BY <1>1, <1>4, <1>6, <2>2, <2>3, VmNone, VmCallMoves
<1> QED BY <1>4, <1>5, <1>6

LEMMA VmStutters ==
  ASSUME VmInv, UNCHANGED vmVars
  PROVE  VmInv'
BY DEF VmInv, VmTypes, Staged, Calm, InSession, At, Unstored, ExchangesWhole, DeltaOnlyIfOverlapped,
       CountNeverAhead, vmVars

LEMMA VmInductive ==
  ASSUME VmInv, VmNext
  PROVE  VmInv'
<1>1. CASE NewSession
  <2>1. /\ chatNo' = chatNo + 1 /\ chatNo < MaxChats
        /\ UNCHANGED <<projector, storedCogons, rows, sessions, calls, stamp, overlapped, cogonsStored, storeKind>>
    BY <1>1 DEF NewSession, StatsUnchanged, GoesOn, SetUp
  <2>2. VmTypes'
    BY <2>1, VmAssumption DEF VmInv, VmTypes
  <2>3. (\A s \in 0 .. MaxChats : Calm(s)')
    BY <2>1 DEF VmInv, Calm, InSession, At
  <2>4. \A t \in VmTasks : Staged(calls[t], stamp, storedCogons)'
    BY <2>1 DEF VmInv, Staged
  <2>5. Unstored' /\ ExchangesWhole' /\ DeltaOnlyIfOverlapped' /\ CountNeverAhead'
    BY <2>1 DEF VmInv, Unstored, ExchangesWhole, DeltaOnlyIfOverlapped, CountNeverAhead
  <2> QED BY <2>2, <2>3, <2>4, <2>5 DEF VmInv
<1>2. ASSUME NEW t \in VmTasks, Chat(t) \/ Run(t) \/ ChatStream(t) \/ Remember(t)
      PROVE  VmInv'
  <2>1. chatNo \in 0 .. MaxChats /\ Network \in 0 .. MaxChats /\ FALSE \in BOOLEAN
    BY VmAssumption DEF VmInv, VmTypes, Network
  <2>2. PICK op \in {"chat", "run", "stream", "remember"}, s \in 0 .. MaxChats, odd \in BOOLEAN :
           BeginRequest(t, op, s, odd)
    <3>1. CASE Chat(t)
      BY <2>1, <3>1 DEF Chat
    <3>2. CASE ChatStream(t)
      BY <2>1, <3>2 DEF ChatStream
    <3>3. CASE Remember(t)
      BY <2>1, <3>3 DEF Remember
    <3>4. CASE Run(t)
      <4>1. \A m : HintRaises(Decoded(m)) \in BOOLEAN
        BY DEF HintRaises
      <4> QED BY <2>1, <3>4, <4>1 DEF Run
    <3> QED BY <1>2, <3>1, <3>2, <3>3, <3>4
  <2> QED BY <2>2, VmBegins
<1>3. ASSUME NEW t \in VmTasks, ProjectFails(t) \/ AgentFails(t) \/ RedisFails(t)
      PROVE  VmInv'
  BY <1>3, VmRaises DEF ProjectFails, AgentFails, RedisFails
<1>4. ASSUME NEW t \in VmTasks, Recalled(t)
      PROVE  VmInv'
  <2>1. /\ calls[t].pc = "recall" /\ calls[t] \in VmCall /\ Routed(t, calls[t])
        /\ UNCHANGED <<storedCogons, rows, sessions, overlapped, storeKind, chatNo, cogonsStored, stamp>>
        /\ calls[t].op \in {"chat", "run"}
    BY <1>4 DEF Recalled, At, GoesOn, SetUp, StatsUnchanged, VmInv, VmTypes
  <2>2. Away(calls[t]) /\ calls[t].cogon \in 1 .. stamp
    BY <2>1 DEF VmInv, Staged, Away
  <2> QED BY <2>1, <2>2, VmRoutes
<1> QED BY <1>1, <1>2, <1>3, <1>4, VmWaits, VmProjects, VmAnswers, VmResults, VmWrites DEF VmNext

LEMMA VmInvSafe ==
  ASSUME VmInv
  PROVE  LeetVmSound
BY DEF VmInv, LeetVmSound

(***************************************************************************)
(* Agent1337.                                                              *)
(***************************************************************************)
Packet == [number : Nat, session : Nat, kind : Kinds, to : {Broadcast, Named, Peer}]

AgentTypes ==
  /\ wire \in Seq(Packet) /\ session \in Nat /\ sentCount \in Nat
  /\ agentState \in {"init", "connecting", "handshake", "active", "error", "disconnected"}
  /\ query \in [Queries -> {"none", "waiting", "ended"}]
  /\ iterator \in [Readers -> {"none", "waiting"}]
  /\ verified \in BOOLEAN /\ c5 \in BOOLEAN

\* The last message on the wire of an agent that is active is of this session:
\* COGON_ZERO went out when it became active.
Announced ==
  agentState = "active" =>
    socket = "open" /\ wire # <<>> /\ wire[Len(wire)].session = session

AgentInv ==
  /\ AgentTypes /\ Announced
  /\ phase \in {"echo", "verify"} => socket = "open" /\ c5
  /\ verified => confirmed # {}
  /\ ZeroFirst /\ Vouched /\ HandlersExact

LEMMA AgentStarts ==
  ASSUME AgentInit
  PROVE  AgentInv
<1>1. AgentTypes
  <2>1. wire \in Seq(Packet)
    BY EmptySeq DEF AgentInit
  <2>2. query \in [Queries -> {"none", "waiting", "ended"}] /\ iterator \in [Readers -> {"none", "waiting"}]
    BY DEF AgentInit
  <2> QED BY <2>1, <2>2 DEF AgentInit, AgentTypes
<1>2. ZeroFirst
  BY DEF AgentInit, ZeroFirst
<1>3. HandlersExact
  BY DEF AgentInit, HandlersExact
<1> QED BY <1>1, <1>2, <1>3 DEF AgentInit, AgentInv, Announced, Vouched

\* A message goes over the wire: COGON_ZERO, or of the session of the last one.
LEMMA WireGrows ==
  ASSUME wire \in Seq(Packet), ZeroFirst, NEW m \in Packet, wire' = Append(wire, m),
         ~early' => ~early,
         m.kind # "COGON_ZERO" /\ ~early' => wire # <<>> /\ m.session = wire[Len(wire)].session
  PROVE  /\ ZeroFirst' /\ wire' \in Seq(Packet) /\ wire' # <<>>
         /\ wire'[Len(wire')].session = m.session
<1> DEFINE n == Len(wire)
<1>1. /\ n \in Nat /\ wire' \in Seq(Packet) /\ DOMAIN wire = 1 .. n /\ DOMAIN wire' = 1 .. (n + 1)
      /\ Len(wire') = n + 1 /\ wire'[n + 1] = m
      /\ \A i \in 1 .. n : wire'[i] = wire[i]
  BY AppendProperties, LenProperties
<1>2. wire # <<>> => n # 0
  BY EmptySeq
<1> HIDE DEF n
<1>3. ASSUME ~early', NEW i \in DOMAIN wire', i = 1 \/ wire'[i - 1].session # wire'[i].session
      PROVE  wire'[i].kind = "COGON_ZERO"
  <2>1. CASE i # n + 1
    <3>1. i \in 1 .. n /\ (i # 1 => i - 1 \in 1 .. n)
      BY <1>1, <2>1
    <3> QED BY <1>1, <1>3, <3>1 DEF ZeroFirst
  <2>2. CASE i = n + 1 /\ m.kind = "COGON_ZERO"
    BY <1>1, <2>2
  <2>3. CASE i = n + 1 /\ wire # <<>> /\ m.session = wire[Len(wire)].session
    <3>1. n \in 1 .. n /\ i - 1 = n /\ i # 1
      BY <1>1, <1>2, <2>3
    <3>2. wire'[i - 1] = wire[n] /\ wire'[i] = m
      BY <1>1, <2>3, <3>1
    <3> QED BY <1>3, <2>3, <3>1, <3>2 DEF n
  <2> QED BY <1>3, <2>1, <2>2, <2>3
<1> QED BY <1>1, <1>3, EmptySeq DEF ZeroFirst

\* A task sends, and at most its handler is registered.
LEMMA AgentSends ==
  ASSUME AgentInv, NEW kind \in Kinds, NEW to \in {Broadcast, Named, Peer}, Send(kind, to)
  PROVE  /\ ZeroFirst' /\ wire' \in Seq(Packet) /\ sentCount' \in Nat /\ Announced'
         /\ UNCHANGED <<agentState, socket, phase, verified, iterator, session, confirmed, c5>>
<1>1. /\ UNCHANGED <<agentState, socket, phase, verified, iterator, session, confirmed, c5>>
      /\ early' = (early \/ (socket = "open" /\ agentState # "active"))
      /\ sentCount' = sentCount + 1
      /\ wire' = IF socket' = "open"
                 THEN Append(wire, [number |-> sentCount + 1, session |-> session, kind |-> kind, to |-> to])
                 ELSE wire
  BY DEF Send, Transmit
<1>2. /\ wire \in Seq(Packet) /\ session \in Nat /\ sentCount \in Nat /\ ZeroFirst /\ Announced
  BY DEF AgentInv, AgentTypes
<1>3. ~early' => ~early
  BY <1>1
<1>4. CASE socket = "open"
  <2> DEFINE m == [number |-> sentCount + 1, session |-> session, kind |-> kind, to |-> to]
  <2>1. m \in Packet /\ m.session = session
    BY <1>2 DEF Packet
  <2>2. wire' = Append(wire, m)
    BY <1>1, <1>4
  <2> HIDE DEF m
  <2>3. ~early' => wire # <<>> /\ m.session = wire[Len(wire)].session
    <3> SUFFICES ASSUME ~early' PROVE wire # <<>> /\ m.session = wire[Len(wire)].session
      OBVIOUS
    <3>1. agentState = "active"
      BY <1>1, <1>4
    <3> QED BY <1>2, <2>1, <3>1 DEF Announced
  <2>4. ZeroFirst' /\ wire' \in Seq(Packet) /\ wire' # <<>> /\ wire'[Len(wire')].session = m.session
    BY <1>2, <1>3, <2>1, <2>2, <2>3, WireGrows
  <2>5. Announced'
    BY <1>1, <1>4, <2>1, <2>4 DEF Announced
  <2> QED BY <1>1, <1>2, <2>4, <2>5
<1>5. CASE socket # "open"
  <2>1. wire' = wire
    BY <1>1, <1>5
  <2>2. ZeroFirst'
    BY <1>2, <1>3, <2>1 DEF ZeroFirst
  <2>3. Announced'
    BY <1>1, <1>2, <2>1 DEF Announced
  <2> QED BY <1>1, <1>2, <2>1, <2>2, <2>3
<1> QED BY <1>4, <1>5

\* start() ends: COGON_ZERO goes out.
LEMMA AgentAnnounces ==
  ASSUME AgentInv, NEW n \in Nat, Announce(n), socket' = "open", session' = n
  PROVE  /\ ZeroFirst' /\ wire' \in Seq(Packet) /\ sentCount' \in Nat /\ Announced'
         /\ agentState' = "active" /\ phase' = "idle"
<1> DEFINE m == [number |-> sentCount + 1, session |-> n, kind |-> "COGON_ZERO", to |-> Named]
<1>1. /\ wire \in Seq(Packet) /\ sentCount \in Nat /\ ZeroFirst
  BY DEF AgentInv, AgentTypes
<1>2. m \in Packet /\ m.session = n /\ m.kind = "COGON_ZERO"
  BY <1>1 DEF Packet, Kinds
<1>3. /\ agentState' = "active" /\ phase' = "idle" /\ early' = early
      /\ wire' = Append(wire, m) /\ sentCount' = sentCount + 1
  BY DEF Announce, Transmit
<1> HIDE DEF m
<1>4. ZeroFirst' /\ wire' \in Seq(Packet) /\ wire' # <<>> /\ wire'[Len(wire')].session = m.session
  BY <1>1, <1>2, <1>3, WireGrows
<1> QED BY <1>1, <1>2, <1>3, <1>4 DEF Announced

\* The handlers, when nothing of them changes.
LEMMA HandlersStay ==
  ASSUME HandlersExact, UNCHANGED <<handlers, query, iterator>>
  PROVE  HandlersExact'
BY DEF HandlersExact

LEMMA AgentConnects ==
  ASSUME AgentInv, StartDirect \/ StartHandshake \/ StartFails
  PROVE  AgentInv'
<1>1. /\ AgentTypes /\ session' = session + 1 /\ session \in Nat
      /\ UNCHANGED <<handlers, query, iterator, verified, confirmed, c5>> /\ phase = "idle"
      /\ ZeroFirst /\ HandlersExact
  BY DEF StartDirect, StartHandshake, StartFails, Begins, AgentInv, AgentTypes
<1>2. HandlersExact'
  BY <1>1, HandlersStay
<1>3. CASE StartDirect
  <2>1. Announce(session + 1) /\ socket' = "open" /\ ~c5 /\ session + 1 \in Nat
    BY <1>1, <1>3 DEF StartDirect
  <2>2. /\ ZeroFirst' /\ wire' \in Seq(Packet) /\ sentCount' \in Nat /\ Announced'
        /\ agentState' = "active" /\ phase' = "idle"
    BY <1>1, <2>1, AgentAnnounces
  <2>3. AgentTypes'
    BY <1>1, <2>1, <2>2 DEF AgentTypes
  <2> QED BY <1>1, <1>2, <2>1, <2>2, <2>3 DEF AgentInv, Vouched
<1>4. CASE StartHandshake \/ StartFails
  <2>1. /\ UNCHANGED <<wire, sentCount, early>> /\ agentState' \in {"handshake", "error"}
        /\ \/ phase' = "echo" /\ socket' = "open" /\ c5
           \/ phase' = "idle"
    BY <1>1, <1>4 DEF StartHandshake, StartFails
  <2>2. AgentTypes'
    BY <1>1, <2>1 DEF AgentTypes
  <2>3. ZeroFirst'
    BY <1>1, <2>1 DEF ZeroFirst
  <2> QED BY <1>1, <1>2, <2>1, <2>2, <2>3 DEF AgentInv, Vouched, Announced
<1> QED BY <1>3, <1>4

LEMMA AgentVerifies ==
  ASSUME AgentInv, Verify
  PROVE  AgentInv'
<1>1. /\ AgentTypes /\ session \in Nat /\ phase = "verify" /\ socket = "open" /\ c5
      /\ UNCHANGED <<socket, handlers, query, iterator, session, c5>>
      /\ ZeroFirst /\ HandlersExact /\ Announced /\ Vouched
  BY DEF Verify, AgentInv, AgentTypes
<1>2. HandlersExact'
  BY <1>1, HandlersStay
<1>3. /\ verified' = VerifiedBy(Head(inbox)) /\ verified' \in BOOLEAN
      /\ verified' => confirmed' # {}
      /\ confirmed # {} => confirmed' # {}
  BY <1>1 DEF Verify, VerifiedBy, AgentInv, AgentTypes
<1>4. CASE verified'
  <2>1. Announce(session)
    BY <1>3, <1>4 DEF Verify
  <2>2. /\ ZeroFirst' /\ wire' \in Seq(Packet) /\ sentCount' \in Nat /\ Announced'
        /\ agentState' = "active" /\ phase' = "idle"
    BY <1>1, <2>1, AgentAnnounces
  <2>3. AgentTypes'
    BY <1>1, <1>3, <2>2 DEF AgentTypes
  <2> QED BY <1>1, <1>2, <1>3, <1>4, <2>2, <2>3 DEF AgentInv, Vouched
<1>5. CASE ~verified'
  <2>1. phase' = "idle" /\ UNCHANGED <<agentState, listening, history, wire, sentCount, early>>
    BY <1>3, <1>5 DEF Verify
  <2>2. AgentTypes'
    BY <1>1, <1>3, <2>1 DEF AgentTypes
  <2>3. ZeroFirst'
    BY <1>1, <2>1 DEF ZeroFirst
  <2>4. Announced' /\ Vouched'
    BY <1>1, <1>3, <2>1 DEF Announced, Vouched
  <2> QED BY <1>2, <1>3, <1>5, <2>1, <2>2, <2>3, <2>4 DEF AgentInv
<1> QED BY <1>4, <1>5

\* What leaves the wire, the verdict and the handlers alone.
LEMMA AgentRests ==
  ASSUME AgentInv, UNCHANGED <<handlers, query, iterator, verified, confirmed, c5, wire, session, sentCount>>,
         early' = early,
         UNCHANGED <<agentState, socket>> \/ agentState' = "disconnected",
         phase' \in {phase, "verify", "idle", "stopping"},
         phase' \in {"echo", "verify"} => phase \in {"echo", "verify"} /\ socket' = socket
  PROVE  AgentInv'
<1>1. AgentTypes'
  BY DEF AgentInv, AgentTypes
<1>2. HandlersExact'
  BY HandlersStay DEF AgentInv
<1>3. ZeroFirst'
  BY DEF AgentInv, ZeroFirst
<1>4. Announced' /\ Vouched'
  BY DEF AgentInv, Announced, Vouched
<1>5. phase' \in {"echo", "verify"} => socket' = "open" /\ c5'
  BY DEF AgentInv
<1> QED BY <1>1, <1>2, <1>3, <1>4, <1>5 DEF AgentInv

\* A handler is registered, or goes.
LEMMA AgentHandles ==
  ASSUME AgentInv, NEW q \in Queries \cup Readers,
         \/ /\ q \in Queries /\ UNCHANGED iterator
            /\ \/ /\ query' = [query EXCEPT ![q] = "waiting"] /\ handlers' = handlers \cup {q}
               \/ /\ query' = [query EXCEPT ![q] = "ended"] /\ handlers' = handlers \ {q}
         \/ /\ q \in Readers /\ UNCHANGED query
            /\ \/ /\ iterator' = [iterator EXCEPT ![q] = "waiting"] /\ handlers' = handlers \cup {q}
               \/ /\ iterator' = [iterator EXCEPT ![q] = "none"] /\ handlers' = handlers \ {q}
  PROVE  /\ HandlersExact'
         /\ query' \in [Queries -> {"none", "waiting", "ended"}]
         /\ iterator' \in [Readers -> {"none", "waiting"}]
<1>1. /\ query \in [Queries -> {"none", "waiting", "ended"}] /\ iterator \in [Readers -> {"none", "waiting"}]
      /\ \A x : x \in handlers <=> \/ x \in Queries /\ query[x] = "waiting"
                                   \/ x \in Readers /\ iterator[x] = "waiting"
  BY DEF AgentInv, AgentTypes, HandlersExact
<1>2. /\ query' \in [Queries -> {"none", "waiting", "ended"}]
      /\ iterator' \in [Readers -> {"none", "waiting"}]
  BY <1>1
<1>3. \A x : ~(x \in Queries /\ x \in Readers)
  BY AgentAssumption
<1>4. \A x : x \in handlers' <=> \/ x \in Queries /\ query'[x] = "waiting"
                                 \/ x \in Readers /\ iterator'[x] = "waiting"
  <2>1. CASE q \in Queries
    BY <1>1, <1>3, <2>1
  <2>2. CASE q \in Readers
    BY <1>1, <1>3, <2>2
  <2> QED BY <2>1, <2>2
<1> QED BY <1>2, <1>4 DEF HandlersExact

LEMMA AgentInductive ==
  ASSUME AgentInv, [AgentNext]_agentVars
  PROVE  AgentInv'
<1>1. CASE UNCHANGED agentVars
  BY <1>1, AgentRests DEF agentVars
<1>2. CASE StartDirect \/ StartHandshake \/ StartFails \/ Verify
  BY <1>2, AgentConnects, AgentVerifies
<1>3. CASE Echo \/ HandshakeTimesOut \/ Stop \/ Stopped
  BY <1>3, AgentRests DEF Echo, HandshakeTimesOut, Stop, Stopped
<1>4. ASSUME NEW m \in Arrivals, Arrives(m) PROVE AgentInv'
  BY <1>4, AgentRests DEF Arrives
<1>5. ASSUME NEW kind \in Kinds, NEW to \in {Broadcast, Named, Peer}, Send(kind, to),
             UNCHANGED <<handlers, query>>
      PROVE  AgentInv'
  <2>1. /\ ZeroFirst' /\ wire' \in Seq(Packet) /\ sentCount' \in Nat /\ Announced'
        /\ UNCHANGED <<agentState, socket, phase, verified, iterator, session, confirmed, c5>>
    BY <1>5, AgentSends
  <2>2. HandlersExact'
    BY <1>5, <2>1, HandlersStay DEF AgentInv
  <2> QED BY <1>5, <2>1, <2>2 DEF AgentInv, AgentTypes, Vouched
<1>6. CASE SendAnomaly \/ SendAck \/ \E to \in {Broadcast, Peer} : SendAssert(to) \/ SendDelta(to)
  <2>1. {"ANOMALY", "ACK", "ASSERT", "DELTA"} \subseteq Kinds
    BY DEF Kinds
  <2>2. \E kind \in Kinds, to \in {Broadcast, Named, Peer} : Send(kind, to) /\ UNCHANGED <<handlers, query>>
    BY <1>6, <2>1 DEF SendAnomaly, SendAck, SendAssert, SendDelta
  <2> QED BY <1>5, <2>2
<1>7. ASSUME NEW q \in Queries, SendQuery(q) PROVE AgentInv'
  <2>1. "QUERY" \in Kinds /\ Send("QUERY", Peer)
    BY <1>7 DEF Kinds, SendQuery
  <2>2. /\ ZeroFirst' /\ wire' \in Seq(Packet) /\ sentCount' \in Nat /\ Announced'
        /\ UNCHANGED <<agentState, socket, phase, verified, iterator, session, confirmed, c5>>
    BY <2>1, AgentSends
  <2>3. query' = [query EXCEPT ![q] = "waiting"] /\ handlers' = handlers \cup {q}
    BY <1>7 DEF SendQuery
  <2>4. HandlersExact' /\ query' \in [Queries -> {"none", "waiting", "ended"}]
    BY <2>2, <2>3, AgentHandles
  <2> QED BY <2>2, <2>4 DEF AgentInv, AgentTypes, Vouched
<1>8. ASSUME NEW q \in Queries \cup Readers,
             \/ q \in Queries /\ QueryEnds(q)
             \/ q \in Readers /\ (Iterate(q) \/ IterateEnds(q))
      PROVE  AgentInv'
  <2>1. UNCHANGED <<agentState, socket, phase, verified, wire, session, sentCount, early, confirmed, c5>>
    BY <1>8 DEF QueryEnds, Iterate, IterateEnds
  <2>2. /\ HandlersExact' /\ query' \in [Queries -> {"none", "waiting", "ended"}]
        /\ iterator' \in [Readers -> {"none", "waiting"}]
    BY <1>8, AgentHandles DEF QueryEnds, Iterate, IterateEnds, HandlersAfter
  <2>3. ZeroFirst' /\ Announced' /\ Vouched'
    BY <2>1 DEF AgentInv, ZeroFirst, Announced, Vouched
  <2> QED BY <2>1, <2>2, <2>3 DEF AgentInv, AgentTypes
<1>9. CASE \E q \in Queries : SendQuery(q) \/ QueryEnds(q)
  BY <1>7, <1>8, <1>9
<1>10. CASE \E q \in Readers : Iterate(q) \/ IterateEnds(q)
  BY <1>8, <1>10
<1> QED BY <1>1, <1>2, <1>3, <1>4, <1>6, <1>9, <1>10 DEF AgentNext

LEMMA AgentInvSafe ==
  ASSUME AgentInv
  PROVE  AgentSound
BY DEF AgentInv, AgentSound

(***************************************************************************)
(* The adapters of coding assistants, and leet-ide.                        *)
(***************************************************************************)
Ats == {"idle", "probe", "spawn", "run", "project", "api", "apiProject"}

IdeTypes ==
  /\ ide.tool \in Tools
  /\ asks \in [IdeTasks -> [at : Ats, msg : 0 .. MaxAsked]]
  /\ asked \in 0 .. MaxAsked
  /\ servedBy \in [Asked -> SUBSET {"cli", "api"}]
  /\ answerOf \in [Asked -> Answers]
  /\ ideHistory \in Seq(Asked \X BOOLEAN) /\ toolRuns \subseteq Asked
  /\ command \in [at : {"none", "create", "check", "send", "wait", "end"}, stream : BOOLEAN,
                  export : BOOLEAN, wants : Tools \cup {"auto"}]

\* A message in flight is one task's, and was served as far as its task has come.
Flights ==
  \A t \in IdeTasks : asks[t].at # "idle" =>
    /\ asks[t].msg \in 1 .. asked /\ answerOf[asks[t].msg] = "none"
    /\ \A u \in IdeTasks : asks[u].at # "idle" /\ asks[u].msg = asks[t].msg => u = t
    /\ asks[t].at \in {"probe", "spawn"} => servedBy[asks[t].msg] = {}
    /\ asks[t].at \in {"run", "project"} => servedBy[asks[t].msg] = {"cli"}
    /\ asks[t].at = "project" => asks[t].msg \notin toolRuns
    /\ asks[t].at \in {"api", "apiProject"} => ide.tool = "kimi"
    /\ asks[t].at = "apiProject" => "api" \in servedBy[asks[t].msg]

\* What the answer of a message says of who served it.
Served ==
  \A m \in Asked :
    /\ m > asked => answerOf[m] = "none" /\ servedBy[m] = {} /\ m \notin toolRuns
    /\ answerOf[m] = "raised" => servedBy[m] = {}
    /\ "api" \in servedBy[m] => ide.tool = "kimi"
    /\ m \in toolRuns /\ answerOf[m] \in {"done", "failed"} => "api" \in servedBy[m]

\* leet-ide has one message, and its end is the end of everything.
Commands ==
  /\ command.at # "end" => leetIdeExit = "none"
  /\ command.at = "create" => asked = 0
  /\ command.at = "wait" => asked = 1 /\ \A t \in IdeTasks \ {Teller} : asks[t].at = "idle"
  /\ command.at \in {"create", "end"} => \A t \in IdeTasks : asks[t].at = "idle"
  /\ command.at \in {"none", "create", "wait", "end"}
  /\ ExitTells

IdeRest == IdeTypes /\ Flights /\ Served /\ Commands
IdeInv == IdeRest /\ SessionExact

\* Nothing is kept of an empty history.
LEMMA NothingKept ==
  ASSUME NEW h, h = <<>>
  PROVE  /\ Keeping([i \in DOMAIN h |-> h[i][1]], {i \in DOMAIN h : h[i][2]}) = <<>>
         /\ {h[i][1] : i \in DOMAIN h} = {}
         /\ Cardinality({h[i][1] : i \in DOMAIN h}) = 0 /\ Len(h) = 0
<1>1. DOMAIN h = {} /\ Len(h) = 0
  OBVIOUS
<1>2. Keeping(<<>>, DOMAIN <<>>) = <<>>
  <2>1. <<>> \in Seq(Nat)
    BY EmptySeq
  <2> QED BY <2>1, KeepingAll
<1>3. [i \in DOMAIN h |-> h[i][1]] = <<>> /\ {i \in DOMAIN h : h[i][2]} = DOMAIN <<>>
  BY <1>1
<1>4. {h[i][1] : i \in DOMAIN h} = {}
  BY <1>1
<1> QED BY <1>1, <1>2, <1>3, <1>4, FS_EmptySet

LEMMA IdeStarts ==
  ASSUME IdeInit
  PROVE  IdeInv
<1>1. /\ ide \in [tool : Tools, key : BOOLEAN, project : BOOLEAN]
      /\ asks = [t \in IdeTasks |-> [at |-> "idle", msg |-> 0]]
      /\ asked = 0 /\ toolRuns = {} /\ servedBy = [m \in Asked |-> {}]
      /\ answerOf = [m \in Asked |-> "none"]
      /\ ideHistory = <<>> /\ ideCogons = <<>> /\ forgottenAsks = {} /\ leetIdeExit = "none"
  BY DEF IdeInit
<1>2. /\ command \in [at : {"none", "create", "check", "send", "wait", "end"}, stream : BOOLEAN,
                      export : BOOLEAN, wants : Tools \cup {"auto"}]
      /\ command.at \in {"none", "create"}
  <2>1. CASE command = [at |-> "none", stream |-> FALSE, export |-> FALSE, wants |-> ide.tool]
    BY <1>1, <2>1
  <2>2. CASE command \in [at : {"create"}, stream : BOOLEAN, export : BOOLEAN, wants : {ide.tool, "auto"}]
    BY <1>1, <2>2
  <2> QED BY <2>1, <2>2 DEF IdeInit
<1>3. IdeTypes
  <2>1. ideHistory \in Seq(Asked \X BOOLEAN)
    BY <1>1, EmptySeq
  <2>2. asks \in [IdeTasks -> [at : Ats, msg : 0 .. MaxAsked]]
    BY <1>1, IdeAssumption DEF Ats
  <2>3. servedBy \in [Asked -> SUBSET {"cli", "api"}] /\ answerOf \in [Asked -> Answers]
    BY <1>1 DEF Answers
  <2>4. asked \in 0 .. MaxAsked
    BY <1>1, IdeAssumption
  <2> QED BY <1>1, <1>2, <2>1, <2>2, <2>3, <2>4 DEF IdeTypes
<1>4. Flights
  BY <1>1 DEF Flights
<1>5. Served
  BY <1>1 DEF Served
<1>6. Commands
  BY <1>1, <1>2 DEF Commands, ExitTells
<1>7. SessionExact
  <2>1. /\ Keeping([i \in DOMAIN ideHistory |-> ideHistory[i][1]], {i \in DOMAIN ideHistory : ideHistory[i][2]}) = <<>>
        /\ {ideHistory[i][1] : i \in DOMAIN ideHistory} = {}
        /\ Cardinality({ideHistory[i][1] : i \in DOMAIN ideHistory}) = 0 /\ Len(ideHistory) = 0
    <3>1. ideHistory = <<>>
      BY <1>1
    <3> QED BY ONLY <3>1, NothingKept, Zenon
  <2> QED BY <1>1, <2>1 DEF SessionExact
<1> QED BY <1>3, <1>4, <1>5, <1>6, <1>7 DEF IdeInv, IdeRest

\* The call of a task goes on, or ends with answer a; by have served its message.
LEMMA IdeMoves ==
  ASSUME IdeRest, NEW t \in IdeTasks, asks[t].at # "idle", NEW place \in Ats,
         NEW a \in Answers, NEW by \in SUBSET {"cli", "api"},
         asks' = [asks EXCEPT ![t].at = place],
         answerOf' = [answerOf EXCEPT ![asks[t].msg] = a],
         servedBy' = [servedBy EXCEPT ![asks[t].msg] = by],
         UNCHANGED <<ide, asked, command, leetIdeExit>>,
         ideHistory' \in Seq(Asked \X BOOLEAN),
         toolRuns' \subseteq toolRuns \cup {asks[t].msg},
         place # "idle" => a = "none",
         place \in {"probe", "spawn"} => by = {},
         place \in {"run", "project"} => by = {"cli"},
         place = "project" => asks[t].msg \notin toolRuns',
         place \in {"api", "apiProject"} => ide.tool = "kimi",
         place = "apiProject" => "api" \in by,
         "api" \in by => ide.tool = "kimi",
         a = "raised" => by = {},
         asks[t].msg \in toolRuns' /\ a \in {"done", "failed"} => "api" \in by
  PROVE  IdeRest'
<1> DEFINE n == asks[t].msg
<1>1. /\ asks \in [IdeTasks -> [at : Ats, msg : 0 .. MaxAsked]] /\ asked \in 0 .. MaxAsked
      /\ n \in 1 .. asked /\ answerOf[n] = "none" /\ n \in Asked
      /\ servedBy \in [Asked -> SUBSET {"cli", "api"}] /\ answerOf \in [Asked -> Answers]
      /\ command.at \in {"none", "wait"}
  <2>1. n \in 1 .. asked /\ answerOf[n] = "none" /\ asked \in 0 .. MaxAsked
    BY DEF IdeRest, IdeTypes, Flights
  <2>2. n \in Asked
    BY <2>1, IdeAssumption DEF Asked
  <2>3. command.at \in {"none", "wait"}
    BY DEF IdeRest, Commands
  <2> QED BY <2>1, <2>2, <2>3 DEF IdeRest, IdeTypes
<1>2. /\ asks' \in [IdeTasks -> [at : Ats, msg : 0 .. MaxAsked]]
      /\ asks'[t].at = place /\ asks'[t].msg = n
      /\ \A u \in IdeTasks : u # t => asks'[u] = asks[u]
      /\ \A u \in IdeTasks : asks'[u].msg = asks[u].msg
  BY <1>1
<1>3. /\ answerOf' \in [Asked -> Answers] /\ answerOf'[n] = a
      /\ \A m \in Asked : m # n => answerOf'[m] = answerOf[m]
      /\ servedBy' \in [Asked -> SUBSET {"cli", "api"}] /\ servedBy'[n] = by
      /\ \A m \in Asked : m # n => servedBy'[m] = servedBy[m]
  BY <1>1
<1> HIDE DEF n
<1>4. \A m : m # n /\ m \in toolRuns' => m \in toolRuns
  BY DEF n
<1>5. IdeTypes'
  BY <1>2, <1>3 DEF IdeRest, IdeTypes
<1>6. Flights'
  <2> SUFFICES ASSUME NEW u \in IdeTasks, asks'[u].at # "idle"
               PROVE  /\ asks'[u].msg \in 1 .. asked' /\ answerOf'[asks'[u].msg] = "none"
                      /\ \A w \in IdeTasks : asks'[w].at # "idle" /\ asks'[w].msg = asks'[u].msg => w = u
                      /\ asks'[u].at \in {"probe", "spawn"} => servedBy'[asks'[u].msg] = {}
                      /\ asks'[u].at \in {"run", "project"} => servedBy'[asks'[u].msg] = {"cli"}
                      /\ asks'[u].at = "project" => asks'[u].msg \notin toolRuns'
                      /\ asks'[u].at \in {"api", "apiProject"} => ide'.tool = "kimi"
                      /\ asks'[u].at = "apiProject" => "api" \in servedBy'[asks'[u].msg]
    BY DEF Flights
  <2>1. \A w \in IdeTasks : asks'[w].at # "idle" => asks[w].at # "idle"
    BY <1>2
  <2>2. \A w \in IdeTasks : asks'[w].at # "idle" /\ asks'[w].msg = asks'[u].msg => w = u
    BY <1>2, <2>1 DEF IdeRest, Flights
  <2>3. CASE u = t
    BY <1>1, <1>2, <1>3, <2>2, <2>3 DEF n
  <2>4. CASE u # t
    <3>1. asks'[u] = asks[u] /\ asks[u].msg # n /\ asks[u].msg \in Asked /\ asks[u].msg \in 1 .. asked
      <4>1. asks[u].msg \in 1 .. asked /\ asks'[u] = asks[u] /\ asks[u].msg # n
        BY <1>2, <2>1, <2>4 DEF IdeRest, Flights, n
      <4> QED BY <1>1, <4>1, IdeAssumption DEF Asked
    <3> QED BY <1>3, <1>4, <2>2, <3>1 DEF IdeRest, Flights
  <2> QED BY <2>3, <2>4
<1>7. Served'
  <2>1. ASSUME NEW m \in Asked
        PROVE  /\ m > asked' => answerOf'[m] = "none" /\ servedBy'[m] = {} /\ m \notin toolRuns'
               /\ answerOf'[m] = "raised" => servedBy'[m] = {}
               /\ "api" \in servedBy'[m] => ide'.tool = "kimi"
               /\ m \in toolRuns' /\ answerOf'[m] \in {"done", "failed"} => "api" \in servedBy'[m]
    <3>1. CASE m = n
      <4>1. ~(m > asked)
        BY <1>1, <3>1
      <4> QED BY <1>3, <3>1, <4>1 DEF n
    <3>2. CASE m # n
      BY <1>3, <1>4, <3>2 DEF IdeRest, Served
    <3> QED BY <3>1, <3>2
  <2> QED BY <2>1 DEF Served
<1>8. Commands'
  <2>1. leetIdeExit = "none"
    BY <1>1 DEF IdeRest, Commands
  <2>2. command.at = "wait" => asked = 1 /\ \A u \in IdeTasks \ {Teller} : asks'[u].at = "idle"
    BY <1>2 DEF IdeRest, Commands
  <2> QED BY <1>1, <2>1, <2>2 DEF Commands, ExitTells
<1> QED BY <1>5, <1>6, <1>7, <1>8 DEF IdeRest

\* What was recorded or cleared is what a tool answered for itself.
Recorded == {ideHistory[i][1] : i \in DOMAIN ideHistory} \cup forgottenAsks
OwnAnswer(m) == answerOf[m] \in {"done", "failed"} /\ servedBy[m] = {"cli"}

LEMMA SessionParts ==
  SessionExact <=>
    /\ ideCogons = Keeping([i \in DOMAIN ideHistory |-> ideHistory[i][1]],
                           {i \in DOMAIN ideHistory : ideHistory[i][2]})
    /\ Cardinality({ideHistory[i][1] : i \in DOMAIN ideHistory}) = Len(ideHistory)
    /\ {ideHistory[i][1] : i \in DOMAIN ideHistory} \cap forgottenAsks = {}
    /\ \A m \in Recorded : OwnAnswer(m)
    /\ \A m \in Asked : OwnAnswer(m) => m \in Recorded
BY Zenon DEF SessionExact, Recorded, OwnAnswer

\* A message that is answered, and not by its tool, is not recorded.
LEMMA SessionStays ==
  ASSUME SessionExact, NEW n \in Asked, ~OwnAnswer(n), ~OwnAnswer(n)',
         \A m : m # n => answerOf'[m] = answerOf[m] /\ servedBy'[m] = servedBy[m],
         UNCHANGED <<ideHistory, ideCogons, forgottenAsks>>
  PROVE  SessionExact'
<1>1. /\ ideCogons = Keeping([i \in DOMAIN ideHistory |-> ideHistory[i][1]],
                             {i \in DOMAIN ideHistory : ideHistory[i][2]})
      /\ Cardinality({ideHistory[i][1] : i \in DOMAIN ideHistory}) = Len(ideHistory)
      /\ {ideHistory[i][1] : i \in DOMAIN ideHistory} \cap forgottenAsks = {}
      /\ \A m \in Recorded : OwnAnswer(m)
      /\ \A m \in Asked : OwnAnswer(m) => m \in Recorded
  BY SessionParts
<1>2. Recorded' = Recorded /\ n \notin Recorded
  BY <1>1 DEF Recorded
<1>3. \A m : m # n => (OwnAnswer(m)' <=> OwnAnswer(m))
  BY DEF OwnAnswer
<1>4. \A m \in Recorded' : OwnAnswer(m)'
  BY <1>1, <1>2, <1>3
<1>5. \A m \in Asked : OwnAnswer(m)' => m \in Recorded'
  BY <1>1, <1>2, <1>3
<1> QED BY <1>1, <1>4, <1>5 DEF SessionExact, Recorded, OwnAnswer

\* The tool's answer is recorded.
LEMMA SessionGrows ==
  ASSUME SessionExact, ideHistory \in Seq(Asked \X BOOLEAN), NEW n \in Asked, NEW p \in BOOLEAN,
         ~OwnAnswer(n), OwnAnswer(n)', AddToHistory(n, p),
         \A m : m # n => answerOf'[m] = answerOf[m] /\ servedBy'[m] = servedBy[m],
         UNCHANGED forgottenAsks
  PROVE  SessionExact' /\ ideHistory' \in Seq(Asked \X BOOLEAN)
<1> DEFINE kept == {ideHistory[i][1] : i \in DOMAIN ideHistory}
           messages == [i \in DOMAIN ideHistory |-> ideHistory[i][1]]
           withCogon == {i \in DOMAIN ideHistory : ideHistory[i][2]}
           k == Len(ideHistory)
<1>1. /\ ideCogons = Keeping(messages, withCogon) /\ Cardinality(kept) = k
      /\ kept \cap forgottenAsks = {} /\ Recorded = kept \cup forgottenAsks
      /\ \A m \in Recorded : OwnAnswer(m)
      /\ \A m \in Asked : OwnAnswer(m) => m \in Recorded
  BY SessionParts DEF Recorded
<1>2. /\ k \in Nat /\ DOMAIN ideHistory = 1 .. k /\ <<n, p>> \in Asked \X BOOLEAN
      /\ ideHistory' = Append(ideHistory, <<n, p>>) /\ ideHistory' \in Seq(Asked \X BOOLEAN)
      /\ Len(ideHistory') = k + 1 /\ DOMAIN ideHistory' = 1 .. (k + 1)
      /\ ideHistory'[k + 1] = <<n, p>> /\ \A i \in 1 .. k : ideHistory'[i] = ideHistory[i]
  <2>1. ideHistory' = Append(ideHistory, <<n, p>>) /\ <<n, p>> \in Asked \X BOOLEAN
    BY DEF AddToHistory
  <2> QED BY <2>1, AppendProperties, LenProperties
<1>3. /\ messages \in Seq(Asked) /\ Len(messages) = k /\ withCogon \in SUBSET (DOMAIN messages)
      /\ \A i \in 1 .. k : messages[i] = ideHistory[i][1]
  <2>1. \A i \in 1 .. k : ideHistory[i] \in Asked \X BOOLEAN
    BY <1>2, ElementOfSeq
  <2>2. messages = [i \in 1 .. k |-> ideHistory[i][1]] /\ messages \in [1 .. k -> Asked]
    BY <1>2, <2>1
  <2>3. messages \in Seq(Asked) /\ Len(messages) = k
    BY <1>2, <2>2, IsASeq, LenProperties
  <2> QED BY <1>2, <2>2, <2>3
<1>4. [i \in DOMAIN ideHistory' |-> ideHistory'[i][1]] = Append(messages, n)
  <2> DEFINE r == Append(messages, n)
  <2>1. /\ r \in Seq(Asked) /\ Len(r) = k + 1 /\ r[k + 1] = n
        /\ \A i \in 1 .. k : r[i] = messages[i]
    <3> HIDE DEF messages, k
    <3> QED BY <1>2, <1>3, AppendProperties
  <2>2. r = [i \in 1 .. (k + 1) |-> r[i]]
    <3> HIDE DEF r, k
    <3> QED BY <1>2, <2>1, LenProperties
  <2> HIDE DEF r, messages
  <2>3. \A i \in 1 .. (k + 1) : r[i] = ideHistory'[i][1]
    <3> HIDE DEF k
    <3>1. ASSUME NEW i \in 1 .. (k + 1) PROVE r[i] = ideHistory'[i][1]
      <4>1. CASE i = k + 1
        BY <1>2, <2>1, <4>1
      <4>2. CASE i # k + 1
        <5>1. i \in 1 .. k
          BY <1>2, <4>2
        <5> QED BY <1>2, <1>3, <2>1, <5>1
      <4> QED BY <4>1, <4>2
    <3> QED BY <3>1
  <2> QED BY <1>2, <2>2, <2>3 DEF r
<1>5. {i \in DOMAIN ideHistory' : ideHistory'[i][2]} =
        IF p THEN withCogon \cup {Len(messages) + 1} ELSE withCogon
  <2> HIDE DEF k, messages
  <2>1. ASSUME NEW i \in 1 .. (k + 1)
        PROVE  ideHistory'[i][2] <=> IF p THEN i \in withCogon \cup {k + 1} ELSE i \in withCogon
    <3>1. CASE i = k + 1
      <4>1. i \notin withCogon /\ ideHistory'[i] = <<n, p>>
        BY <1>2, <3>1
      <4> QED BY <3>1, <4>1
    <3>2. CASE i # k + 1
      <4>1. i \in 1 .. k
        BY <1>2, <3>2
      <4> QED BY <1>2, <3>2, <4>1
    <3> QED BY <3>1, <3>2
  <2>2. withCogon \subseteq 1 .. (k + 1)
    BY <1>2
  <2>3. k + 1 \in 1 .. (k + 1)
    BY <1>2
  <2> HIDE DEF withCogon
  <2> QED BY <1>2, <1>3, <2>1, <2>2, <2>3
<1>6. ideCogons' = Keeping([i \in DOMAIN ideHistory' |-> ideHistory'[i][1]],
                           {i \in DOMAIN ideHistory' : ideHistory'[i][2]})
  <2>1. ideCogons' = IF p THEN Append(ideCogons, n) ELSE ideCogons
    BY DEF AddToHistory
  <2>2. /\ Keeping(Append(messages, n), withCogon) = Keeping(messages, withCogon)
        /\ Keeping(Append(messages, n), withCogon \cup {Len(messages) + 1}) =
             Append(Keeping(messages, withCogon), n)
    <3> HIDE DEF messages, withCogon
    <3> QED BY <1>3, KeepingAppend
  <2> HIDE DEF messages, withCogon
  <2> QED BY <1>1, <1>4, <1>5, <2>1, <2>2
<1>7. n \notin Recorded
  BY <1>1
<1>8. {ideHistory'[i][1] : i \in DOMAIN ideHistory'} = kept \cup {n}
  <2>1. \A i \in 1 .. (k + 1) : ideHistory'[i][1] \in kept \cup {n}
    <3>1. ASSUME NEW i \in 1 .. (k + 1) PROVE ideHistory'[i][1] \in kept \cup {n}
      <4>1. CASE i = k + 1
        BY <1>2, <4>1
      <4>2. CASE i # k + 1
        <5>1. i \in 1 .. k
          BY <1>2, <4>2
        <5> QED BY <1>2, <5>1
      <4> QED BY <4>1, <4>2
    <3> QED BY <3>1
  <2>2. k + 1 \in 1 .. (k + 1) /\ 1 .. k \subseteq 1 .. (k + 1)
    BY <1>2
  <2>3. \A x \in kept : \E i \in 1 .. (k + 1) : x = ideHistory'[i][1]
    BY <1>2, <2>2
  <2>4. n = ideHistory'[k + 1][1]
    BY <1>2
  <2> HIDE DEF kept, k
  <2> QED BY <1>2, <2>1, <2>2, <2>3, <2>4
<1>9. Cardinality(kept \cup {n}) = k + 1
  <2>1. IsFiniteSet(kept)
    <3> DEFINE f == [i \in 1 .. k |-> ideHistory[i][1]]
    <3>1. f \in Surjection(1 .. k, kept)
      BY <1>2 DEF Surjection
    <3> HIDE DEF f, kept, k
    <3>2. IsFiniteSet(1 .. k)
      BY <1>2, FS_Interval
    <3> QED BY <3>1, <3>2, FS_Surjection
  <2>2. n \notin kept
    BY <1>1, <1>7
  <2> HIDE DEF kept
  <2> QED BY <1>1, <2>1, <2>2, FS_AddElement
<1>10. n \notin forgottenAsks /\ Recorded' = Recorded \cup {n}
  <2> HIDE DEF kept
  <2> QED BY <1>1, <1>7, <1>8 DEF Recorded
<1>11. \A m : m # n => (OwnAnswer(m)' <=> OwnAnswer(m))
  BY DEF OwnAnswer
<1>12. \A m \in Recorded' : OwnAnswer(m)'
  BY <1>1, <1>10, <1>11
<1>13. \A m \in Asked : OwnAnswer(m)' => m \in Recorded'
  BY <1>1, <1>10, <1>11
<1>14. (kept \cup {n}) \cap forgottenAsks' = {}
  BY <1>1, <1>10
<1>15. /\ Cardinality({ideHistory'[i][1] : i \in DOMAIN ideHistory'}) = Len(ideHistory')
       /\ {ideHistory'[i][1] : i \in DOMAIN ideHistory'} \cap forgottenAsks' = {}
  <2> HIDE DEF kept, k
  <2> QED BY <1>2, <1>8, <1>9, <1>14
<1> HIDE DEF kept, k, messages, withCogon
<1>16. SessionExact'
  BY <1>6, <1>12, <1>13, <1>15, Zenon DEF SessionExact, Recorded, OwnAnswer
<1> QED BY <1>2, <1>16

LEMMA SameExcept ==
  ASSUME NEW S, NEW T, NEW f \in [S -> T], NEW x
  PROVE  f = [f EXCEPT ![x] = f[x]]
OBVIOUS

\* Of a message in flight.
LEMMA InFlight ==
  ASSUME IdeInv, NEW t \in IdeTasks, asks[t].at # "idle"
  PROVE  /\ asks[t].msg \in Asked /\ answerOf[asks[t].msg] = "none" /\ ~OwnAnswer(asks[t].msg)
         /\ servedBy[asks[t].msg] \in SUBSET {"cli", "api"}
         /\ answerOf = [answerOf EXCEPT ![asks[t].msg] = "none"]
         /\ servedBy = [servedBy EXCEPT ![asks[t].msg] = servedBy[asks[t].msg]]
         /\ servedBy \in [Asked -> SUBSET {"cli", "api"}] /\ answerOf \in [Asked -> Answers]
         /\ ideHistory \in Seq(Asked \X BOOLEAN)
<1>1. /\ asks[t].msg \in 1 .. asked /\ asked \in 0 .. MaxAsked /\ answerOf[asks[t].msg] = "none"
      /\ servedBy \in [Asked -> SUBSET {"cli", "api"}] /\ answerOf \in [Asked -> Answers]
      /\ ideHistory \in Seq(Asked \X BOOLEAN)
  BY DEF IdeInv, IdeRest, IdeTypes, Flights
<1>2. asks[t].msg \in Asked
  BY <1>1, IdeAssumption DEF Asked
<1>3. ~OwnAnswer(asks[t].msg)
  BY <1>1 DEF OwnAnswer
<1>4. /\ answerOf = [answerOf EXCEPT ![asks[t].msg] = answerOf[asks[t].msg]]
      /\ servedBy = [servedBy EXCEPT ![asks[t].msg] = servedBy[asks[t].msg]]
  BY <1>1, SameExcept
<1> QED BY <1>1, <1>2, <1>3, <1>4

\* A call goes on or ends, and nothing is recorded.
LEMMA IdeGoesOn ==
  ASSUME IdeInv, NEW t \in IdeTasks, asks[t].at # "idle", NEW place \in Ats,
         NEW a \in Answers, NEW by \in SUBSET {"cli", "api"},
         asks' = [asks EXCEPT ![t].at = place],
         answerOf' = [answerOf EXCEPT ![asks[t].msg] = a],
         servedBy' = [servedBy EXCEPT ![asks[t].msg] = by],
         UNCHANGED <<ide, asked, command, leetIdeExit, ideHistory, ideCogons, forgottenAsks>>,
         toolRuns' \subseteq toolRuns \cup {asks[t].msg},
         place # "idle" => a = "none",
         place \in {"probe", "spawn"} => by = {},
         place \in {"run", "project"} => by = {"cli"},
         place = "project" => asks[t].msg \notin toolRuns',
         place \in {"api", "apiProject"} => ide.tool = "kimi",
         place = "apiProject" => "api" \in by,
         "api" \in by => ide.tool = "kimi",
         a = "raised" => by = {},
         a \in {"done", "failed"} => "api" \in by
  PROVE  IdeInv'
<1>0. PICK n : n = asks[t].msg
  OBVIOUS
<1>1. n \in Asked /\ ~OwnAnswer(n) /\ servedBy \in [Asked -> SUBSET {"cli", "api"}]
      /\ answerOf \in [Asked -> Answers] /\ ideHistory \in Seq(Asked \X BOOLEAN)
  BY <1>0, InFlight
<1>2. IdeRest'
  <2>1. IdeRest /\ ideHistory' \in Seq(Asked \X BOOLEAN)
    BY <1>1 DEF IdeInv
  <2> QED BY <2>1, IdeMoves
<1>3. /\ answerOf'[n] = a /\ servedBy'[n] = by
      /\ \A m : m # n => answerOf'[m] = answerOf[m] /\ servedBy'[m] = servedBy[m]
  BY <1>0, <1>1
<1>4. ~OwnAnswer(n)'
  <2>1. ~(answerOf'[n] \in {"done", "failed"} /\ servedBy'[n] = {"cli"})
    BY <1>3
  <2> QED BY <2>1 DEF OwnAnswer
<1>5. SessionExact'
  BY <1>1, <1>3, <1>4, SessionStays DEF IdeInv
<1> QED BY <1>2, <1>5 DEF IdeInv

\* The tool has answered, and its answer is recorded.
LEMMA IdeRecords ==
  ASSUME IdeInv, NEW t \in IdeTasks, asks[t].at # "idle", NEW a \in {"done", "failed"},
         NEW p \in BOOLEAN,
         asks' = [asks EXCEPT ![t].at = "idle"],
         answerOf' = [answerOf EXCEPT ![asks[t].msg] = a],
         servedBy' = servedBy, servedBy[asks[t].msg] = {"cli"},
         UNCHANGED <<ide, asked, command, leetIdeExit, forgottenAsks>>,
         AddToHistory(asks[t].msg, p),
         toolRuns' \subseteq toolRuns, asks[t].msg \notin toolRuns'
  PROVE  IdeInv'
<1> DEFINE by == {"cli"}
<1>0. PICK n : n = asks[t].msg
  OBVIOUS
<1>1. n \in Asked /\ ~OwnAnswer(n) /\ servedBy \in [Asked -> SUBSET {"cli", "api"}]
      /\ answerOf \in [Asked -> Answers] /\ ideHistory \in Seq(Asked \X BOOLEAN)
      /\ servedBy = [servedBy EXCEPT ![asks[t].msg] = servedBy[asks[t].msg]]
  BY <1>0, InFlight
<1>2. /\ answerOf'[n] = a /\ servedBy'[n] = by
      /\ \A m : m # n => answerOf'[m] = answerOf[m] /\ servedBy'[m] = servedBy[m]
  BY <1>0, <1>1
<1>3. OwnAnswer(n)'
  BY <1>2 DEF OwnAnswer
<1>4. SessionExact' /\ ideHistory' \in Seq(Asked \X BOOLEAN)
  <2>1. AddToHistory(n, p)
    BY <1>0
  <2> QED BY <1>1, <1>2, <1>3, <2>1, SessionGrows DEF IdeInv
<1>5. IdeRest'
  <2>1. /\ "idle" \in Ats /\ a \in Answers /\ by \in SUBSET {"cli", "api"} /\ IdeRest
        /\ servedBy' = [servedBy EXCEPT ![asks[t].msg] = by]
        /\ toolRuns' \subseteq toolRuns \cup {asks[t].msg} /\ "api" \notin by
        /\ a # "raised"
    BY <1>0, <1>1 DEF Ats, Answers, IdeInv
  <2> HIDE DEF by
  <2> QED BY <1>4, <2>1, IdeMoves
<1> QED BY <1>4, <1>5 DEF IdeInv

\* The steps of a task that has a message.
LEMMA IdeProbes ==
  ASSUME IdeInv, NEW t \in IdeTasks, Probe(t)
  PROVE  IdeInv'
<1>1. /\ asks[t].at = "probe" /\ servedBy[asks[t].msg] = {}
      /\ UNCHANGED <<ide, asked, toolRuns, servedBy, ideHistory, ideCogons, forgottenAsks,
                     command, leetIdeExit>>
  BY DEF Probe, IdeInv, IdeRest, Flights
<1>2. PICK place \in Ats, a \in Answers :
        /\ asks' = [asks EXCEPT ![t].at = place]
        /\ answerOf' = [answerOf EXCEPT ![asks[t].msg] = a]
        /\ \/ place = "idle" /\ a = "raised"
           \/ place = "spawn" /\ a = "none"
           \/ place = "api" /\ a = "none" /\ ide.tool = "kimi"
  <2>1. answerOf = [answerOf EXCEPT ![asks[t].msg] = "none"]
    BY <1>1, InFlight
  <2>2. {"idle", "spawn", "api"} \subseteq Ats /\ {"raised", "none"} \subseteq Answers
    BY DEF Ats, Answers
  <2>3. \/ asks' = [asks EXCEPT ![t].at = "idle"] /\ answerOf' = [answerOf EXCEPT ![asks[t].msg] = "raised"]
        \/ asks' = [asks EXCEPT ![t].at = "spawn"] /\ answerOf' = answerOf
        \/ asks' = [asks EXCEPT ![t].at = "api"] /\ answerOf' = answerOf /\ ide.tool = "kimi"
    BY DEF Probe, ClaudeProbe, CodexProbe, AiderProbe, KimiProbe, Goes, Ends
  <2> QED BY <2>1, <2>2, <2>3
<1>3. servedBy' = [servedBy EXCEPT ![asks[t].msg] = {}] /\ {} \in SUBSET {"cli", "api"}
  BY <1>1, InFlight
<1>4. toolRuns' \subseteq toolRuns \cup {asks[t].msg} /\ "api" \notin {}
  BY <1>1
<1> QED BY <1>1, <1>2, <1>3, <1>4, IdeGoesOn

\* An exception: the message is Kimi's API's, or answered with -1.
LEMMA IdeBreaks ==
  ASSUME IdeInv, NEW t \in IdeTasks, asks[t].at \in {"spawn", "run", "project"}, Breaks(t),
         UNCHANGED <<ide, asked, toolRuns, servedBy, ideHistory, ideCogons, forgottenAsks,
                     command, leetIdeExit>>
  PROVE  IdeInv'
<1>1. /\ servedBy[asks[t].msg] \in {{}, {"cli"}} /\ asks[t].at # "idle"
  BY DEF IdeInv, IdeRest, Flights
<1>2. PICK place \in Ats, a \in Answers :
        /\ asks' = [asks EXCEPT ![t].at = place]
        /\ answerOf' = [answerOf EXCEPT ![asks[t].msg] = a]
        /\ \/ place = "idle" /\ a = "minus1"
           \/ place = "api" /\ a = "none" /\ ide.tool = "kimi"
  <2>1. answerOf = [answerOf EXCEPT ![asks[t].msg] = "none"]
    BY <1>1, InFlight
  <2>2. {"idle", "api"} \subseteq Ats /\ {"minus1", "none"} \subseteq Answers
    BY DEF Ats, Answers
  <2>3. \/ asks' = [asks EXCEPT ![t].at = "idle"] /\ answerOf' = [answerOf EXCEPT ![asks[t].msg] = "minus1"]
        \/ asks' = [asks EXCEPT ![t].at = "api"] /\ answerOf' = answerOf /\ ide.tool = "kimi"
    BY DEF Breaks, Goes, Ends
  <2> QED BY <2>1, <2>2, <2>3
<1>3. PICK by \in SUBSET {"cli", "api"} :
        servedBy' = [servedBy EXCEPT ![asks[t].msg] = by] /\ "api" \notin by
  BY <1>1, InFlight
<1>4. toolRuns' \subseteq toolRuns \cup {asks[t].msg}
  OBVIOUS
<1> QED BY <1>1, <1>2, <1>3, <1>4, IdeGoesOn

LEMMA IdeSpawns ==
  ASSUME IdeInv, NEW t \in IdeTasks, Spawn(t)
  PROVE  IdeInv'
<1>1. asks[t].at = "spawn" /\ servedBy[asks[t].msg] = {}
  BY DEF Spawn, IdeInv, IdeRest, Flights
<1>2. CASE toolRuns' = toolRuns \cup {asks[t].msg} /\ Serve(t, "cli") /\ Goes(t, "run") /\ UNCHANGED answerOf
  <2>1. /\ asks' = [asks EXCEPT ![t].at = "run"]
        /\ answerOf' = [answerOf EXCEPT ![asks[t].msg] = "none"]
        /\ servedBy' = [servedBy EXCEPT ![asks[t].msg] = {"cli"}]
        /\ UNCHANGED <<ide, asked, ideHistory, ideCogons, forgottenAsks, command, leetIdeExit>>
    <3>1. servedBy' = [servedBy EXCEPT ![asks[t].msg] = servedBy[asks[t].msg] \cup {"cli"}]
      BY <1>2 DEF Serve
    <3>2. servedBy[asks[t].msg] \cup {"cli"} = {"cli"}
      BY <1>1
    <3>3. asks' = [asks EXCEPT ![t].at = "run"] /\ answerOf' = [answerOf EXCEPT ![asks[t].msg] = "none"]
      BY <1>1, <1>2, InFlight DEF Goes
    <3>4. UNCHANGED <<ide, asked, ideHistory, ideCogons, forgottenAsks, command, leetIdeExit>>
      BY DEF Spawn
    <3> QED BY <3>1, <3>2, <3>3, <3>4
  <2>2. /\ "run" \in Ats /\ "none" \in Answers /\ {"cli"} \in SUBSET {"cli", "api"}
        /\ toolRuns' \subseteq toolRuns \cup {asks[t].msg} /\ "api" \notin {"cli"}
    BY <1>2 DEF Ats, Answers
  <2>3. PICK place \in Ats, a \in Answers, by \in SUBSET {"cli", "api"} :
          place = "run" /\ a = "none" /\ by = {"cli"}
    BY <2>2
  <2>4. /\ asks' = [asks EXCEPT ![t].at = place]
        /\ answerOf' = [answerOf EXCEPT ![asks[t].msg] = a]
        /\ servedBy' = [servedBy EXCEPT ![asks[t].msg] = by]
    BY <2>1, <2>3
  <2>5. /\ place \notin {"idle", "probe", "spawn", "project", "api", "apiProject"}
        /\ a \notin {"raised", "done", "failed"} /\ "api" \notin by
    BY <2>3
  <2>6. asks[t].at # "idle" /\ toolRuns' \subseteq toolRuns \cup {asks[t].msg}
    BY <1>1, <2>2
  <2>7. UNCHANGED <<ide, asked, command, leetIdeExit, ideHistory, ideCogons, forgottenAsks>>
    BY <2>1
  <2> QED BY <2>3, <2>4, <2>5, <2>6, <2>7, IdeGoesOn
<1>3. CASE Breaks(t) /\ UNCHANGED <<toolRuns, servedBy>>
  BY <1>1, <1>3, IdeBreaks DEF Spawn
<1> QED BY <1>2, <1>3 DEF Spawn

LEMMA IdeToolEnds ==
  ASSUME IdeInv, NEW t \in IdeTasks, ToolEnds(t)
  PROVE  IdeInv'
<1>1. /\ asks[t].at = "run" /\ servedBy[asks[t].msg] = {"cli"}
      /\ toolRuns' = toolRuns \ {asks[t].msg}
      /\ UNCHANGED <<ide, asked, servedBy, forgottenAsks, command, leetIdeExit>>
  BY DEF ToolEnds, IdeInv, IdeRest, Flights
<1>2. CASE Goes(t, "project") /\ UNCHANGED <<answerOf, ideHistory, ideCogons>>
  <2>1. PICK place \in Ats, a \in Answers, by \in SUBSET {"cli", "api"} :
          place = "project" /\ a = "none" /\ by = {"cli"}
    BY DEF Ats, Answers
  <2>2. /\ asks' = [asks EXCEPT ![t].at = place]
        /\ answerOf' = [answerOf EXCEPT ![asks[t].msg] = a]
        /\ servedBy' = [servedBy EXCEPT ![asks[t].msg] = by]
    BY <1>1, <1>2, <2>1, InFlight DEF Goes
  <2>3. /\ place \notin {"idle", "probe", "spawn", "run", "api", "apiProject"}
        /\ a \notin {"raised", "done", "failed"} /\ "api" \notin by
    BY <2>1
  <2>4. /\ asks[t].at # "idle" /\ toolRuns' \subseteq toolRuns \cup {asks[t].msg}
        /\ asks[t].msg \notin toolRuns'
    BY <1>1
  <2> QED BY <1>1, <1>2, <2>1, <2>2, <2>3, <2>4, IdeGoesOn
<1>3. CASE /\ \E code \in {"done", "failed"} : Ends(t, code)
           /\ AddToHistory(asks[t].msg, FALSE)
  <2>1. PICK a \in {"done", "failed"} : Ends(t, a)
    BY <1>3
  <2>2. /\ asks' = [asks EXCEPT ![t].at = "idle"]
        /\ answerOf' = [answerOf EXCEPT ![asks[t].msg] = a]
    BY <2>1 DEF Ends, Goes
  <2>3. /\ asks[t].at # "idle" /\ toolRuns' \subseteq toolRuns /\ asks[t].msg \notin toolRuns'
        /\ FALSE \in BOOLEAN
    BY <1>1
  <2> QED BY <1>1, <1>3, <2>2, <2>3, IdeRecords
<1> QED BY <1>2, <1>3 DEF ToolEnds

LEMMA IdeProjected ==
  ASSUME IdeInv, NEW t \in IdeTasks, Projected(t)
  PROVE  IdeInv'
<1>1. /\ asks[t].at = "project" /\ servedBy[asks[t].msg] = {"cli"} /\ asks[t].msg \notin toolRuns
      /\ UNCHANGED <<ide, asked, toolRuns, servedBy, forgottenAsks, command, leetIdeExit>>
  BY DEF Projected, IdeInv, IdeRest, Flights
<1>2. CASE Breaks(t) /\ UNCHANGED <<ideHistory, ideCogons>>
  BY <1>1, <1>2, IdeBreaks
<1>3. CASE /\ \E code \in {"done", "failed"} : Ends(t, code)
           /\ AddToHistory(asks[t].msg, TRUE)
  <2>1. PICK a \in {"done", "failed"} : Ends(t, a)
    BY <1>3
  <2>2. /\ asks' = [asks EXCEPT ![t].at = "idle"]
        /\ answerOf' = [answerOf EXCEPT ![asks[t].msg] = a]
    BY <2>1 DEF Ends, Goes
  <2>3. /\ asks[t].at # "idle" /\ toolRuns' \subseteq toolRuns /\ asks[t].msg \notin toolRuns'
        /\ TRUE \in BOOLEAN
    BY <1>1
  <2> QED BY <1>1, <1>3, <2>2, <2>3, IdeRecords
<1> QED BY <1>2, <1>3 DEF Projected

LEMMA IdeApi ==
  ASSUME IdeInv, NEW t \in IdeTasks, SendViaApi(t) \/ ApiProjected(t)
  PROVE  IdeInv'
<1>1. /\ asks[t].at \in {"api", "apiProject"} /\ ide.tool = "kimi"
      /\ UNCHANGED <<ide, asked, toolRuns, ideHistory, ideCogons, forgottenAsks, command, leetIdeExit>>
  BY DEF SendViaApi, ApiProjected, IdeInv, IdeRest, Flights
<1>2. /\ servedBy[asks[t].msg] \in SUBSET {"cli", "api"} /\ asks[t].at # "idle"
      /\ answerOf = [answerOf EXCEPT ![asks[t].msg] = "none"]
      /\ servedBy = [servedBy EXCEPT ![asks[t].msg] = servedBy[asks[t].msg]]
  BY <1>1, InFlight
<1>3. PICK place \in Ats, a \in Answers, by \in SUBSET {"cli", "api"} :
        /\ asks' = [asks EXCEPT ![t].at = place]
        /\ answerOf' = [answerOf EXCEPT ![asks[t].msg] = a]
        /\ servedBy' = [servedBy EXCEPT ![asks[t].msg] = by]
        /\ \/ place = "idle" /\ a = "minus1"
           \/ place = "idle" /\ a = "done" /\ "api" \in by
           \/ place = "apiProject" /\ a = "none" /\ "api" \in by
  <2>1. {"idle", "apiProject"} \subseteq Ats /\ {"minus1", "done", "none"} \subseteq Answers
    BY DEF Ats, Answers
  <2>2. servedBy[asks[t].msg] \cup {"api"} \in SUBSET {"cli", "api"}
    BY <1>2
  <2>3. CASE SendViaApi(t)
    <3>1. \/ /\ asks' = [asks EXCEPT ![t].at = "idle"]
             /\ answerOf' = [answerOf EXCEPT ![asks[t].msg] = "minus1"] /\ UNCHANGED servedBy
          \/ /\ asks' = [asks EXCEPT ![t].at = "idle"]
             /\ answerOf' = [answerOf EXCEPT ![asks[t].msg] = "minus1"]
             /\ servedBy' = [servedBy EXCEPT ![asks[t].msg] = servedBy[asks[t].msg] \cup {"api"}]
          \/ /\ asks' = [asks EXCEPT ![t].at = "idle"]
             /\ answerOf' = [answerOf EXCEPT ![asks[t].msg] = "done"]
             /\ servedBy' = [servedBy EXCEPT ![asks[t].msg] = servedBy[asks[t].msg] \cup {"api"}]
          \/ /\ asks' = [asks EXCEPT ![t].at = "apiProject"] /\ UNCHANGED answerOf
             /\ servedBy' = [servedBy EXCEPT ![asks[t].msg] = servedBy[asks[t].msg] \cup {"api"}]
      BY <2>3 DEF SendViaApi, Ends, Goes, Serve
    <3>2. "api" \in servedBy[asks[t].msg] \cup {"api"}
      OBVIOUS
    <3> DEFINE old == servedBy[asks[t].msg]
               both == old \cup {"api"}
    <3>3. /\ old \in SUBSET {"cli", "api"} /\ both \in SUBSET {"cli", "api"} /\ "api" \in both
          /\ servedBy = [servedBy EXCEPT ![asks[t].msg] = old]
      BY <1>2, <2>2, <3>2
    <3>4. \/ /\ asks' = [asks EXCEPT ![t].at = "idle"]
             /\ answerOf' = [answerOf EXCEPT ![asks[t].msg] = "minus1"]
             /\ servedBy' = [servedBy EXCEPT ![asks[t].msg] = old]
          \/ /\ asks' = [asks EXCEPT ![t].at = "idle"]
             /\ answerOf' = [answerOf EXCEPT ![asks[t].msg] = "minus1"]
             /\ servedBy' = [servedBy EXCEPT ![asks[t].msg] = both]
          \/ /\ asks' = [asks EXCEPT ![t].at = "idle"]
             /\ answerOf' = [answerOf EXCEPT ![asks[t].msg] = "done"]
             /\ servedBy' = [servedBy EXCEPT ![asks[t].msg] = both]
          \/ /\ asks' = [asks EXCEPT ![t].at = "apiProject"]
             /\ answerOf' = [answerOf EXCEPT ![asks[t].msg] = "none"]
             /\ servedBy' = [servedBy EXCEPT ![asks[t].msg] = both]
      BY <1>2, <3>1
    <3> HIDE DEF old, both
    <3> QED BY <2>1, <3>3, <3>4
  <2>4. CASE ApiProjected(t)
    <3>1. /\ "api" \in servedBy[asks[t].msg] /\ UNCHANGED servedBy
          /\ asks' = [asks EXCEPT ![t].at = "idle"]
          /\ \/ answerOf' = [answerOf EXCEPT ![asks[t].msg] = "done"]
             \/ answerOf' = [answerOf EXCEPT ![asks[t].msg] = "minus1"]
      BY <2>4 DEF ApiProjected, Ends, Goes, IdeInv, IdeRest, Flights
    <3> DEFINE old == servedBy[asks[t].msg]
    <3>2. old \in SUBSET {"cli", "api"} /\ "api" \in old /\ servedBy' = [servedBy EXCEPT ![asks[t].msg] = old]
      BY <1>2, <3>1
    <3> HIDE DEF old
    <3> QED BY <2>1, <3>1, <3>2
  <2> QED BY <2>3, <2>4
<1>4. toolRuns' \subseteq toolRuns \cup {asks[t].msg}
  BY <1>1
<1>5. /\ place \notin {"probe", "spawn", "run", "project"} /\ a \notin {"raised", "failed"}
      /\ a = "done" => "api" \in by
      /\ place = "apiProject" => "api" \in by /\ a = "none"
      /\ place \in {"idle", "apiProject"}
  BY <1>3
<1> QED BY <1>1, <1>2, <1>3, <1>4, <1>5, IdeGoesOn

\* A message is sent, by a task of the program or by leet-ide.
LEMMA IdeAsks ==
  ASSUME IdeInv, NEW t \in IdeTasks, asks[t].at = "idle", asked < MaxAsked, asked' = asked + 1,
         asks' = [asks EXCEPT ![t] = [at |-> "probe", msg |-> asked + 1]],
         UNCHANGED <<ide, toolRuns, servedBy, answerOf, ideHistory, ideCogons, forgottenAsks, leetIdeExit>>,
         \/ UNCHANGED command /\ command.at = "none"
         \/ t = Teller /\ command' = [command EXCEPT !.at = "wait"] /\ command.at = "create"
  PROVE  IdeInv'
<1>1. /\ asks \in [IdeTasks -> [at : Ats, msg : 0 .. MaxAsked]] /\ asked \in Nat /\ asked <= MaxAsked
      /\ IdeTypes /\ Flights /\ Served /\ Commands /\ SessionExact /\ MaxAsked \in Nat
  BY IdeAssumption DEF IdeInv, IdeRest, IdeTypes
<1>2. asked + 1 \in Asked /\ asked + 1 \in 0 .. MaxAsked /\ asked + 1 \in 1 .. (asked + 1)
  BY <1>1 DEF Asked
<1>3. /\ asks' \in [IdeTasks -> [at : Ats, msg : 0 .. MaxAsked]]
      /\ asks'[t].at = "probe" /\ asks'[t].msg = asked + 1
      /\ \A u \in IdeTasks : u # t => asks'[u] = asks[u]
  BY <1>1, <1>2 DEF Ats
<1>4. command' \in [at : {"none", "create", "check", "send", "wait", "end"}, stream : BOOLEAN,
                    export : BOOLEAN, wants : Tools \cup {"auto"}]
      /\ command'.export = command.export
      /\ \/ command'.at = "none" /\ command.at = "none"
         \/ command'.at = "wait" /\ command.at = "create" /\ t = Teller
  BY <1>1 DEF IdeTypes
<1>5. IdeTypes'
  BY <1>1, <1>2, <1>3, <1>4 DEF IdeTypes
<1>6. answerOf[asked + 1] = "none" /\ servedBy[asked + 1] = {} /\ asked + 1 \notin toolRuns
  BY <1>1, <1>2 DEF Served
<1>7. Flights'
  <2>1. \A u \in IdeTasks : u # t /\ asks'[u].at # "idle" =>
          asks'[u] = asks[u] /\ asks[u].msg \in 1 .. asked /\ asks[u].msg # asked + 1
    BY <1>1, <1>3 DEF Flights
  <2>2. ASSUME NEW u \in IdeTasks, asks'[u].at # "idle"
        PROVE  /\ asks'[u].msg \in 1 .. asked' /\ answerOf'[asks'[u].msg] = "none"
               /\ \A w \in IdeTasks : asks'[w].at # "idle" /\ asks'[w].msg = asks'[u].msg => w = u
               /\ asks'[u].at \in {"probe", "spawn"} => servedBy'[asks'[u].msg] = {}
               /\ asks'[u].at \in {"run", "project"} => servedBy'[asks'[u].msg] = {"cli"}
               /\ asks'[u].at = "project" => asks'[u].msg \notin toolRuns'
               /\ asks'[u].at \in {"api", "apiProject"} => ide'.tool = "kimi"
               /\ asks'[u].at = "apiProject" => "api" \in servedBy'[asks'[u].msg]
    <3>1. CASE u = t
      BY <1>1, <1>2, <1>3, <1>6, <2>1, <3>1
    <3>2. CASE u # t
      <4>1. asks'[u].msg \in 1 .. asked'
        BY <1>1, <2>1, <2>2, <3>2
      <4>2. \A w \in IdeTasks : asks'[w].at # "idle" /\ asks'[w].msg = asks'[u].msg => w = u
        BY <1>1, <1>3, <2>1, <2>2, <3>2 DEF Flights
      <4> QED BY <1>1, <2>1, <2>2, <3>2, <4>1, <4>2 DEF Flights
    <3> QED BY <3>1, <3>2
  <2> QED BY <2>2 DEF Flights
<1>8. Served'
  BY <1>1 DEF Served, Asked
<1>9. Commands'
  BY <1>1, <1>3, <1>4 DEF Commands, ExitTells
<1>10. SessionExact'
  BY <1>1 DEF SessionExact
<1> QED BY <1>5, <1>7, <1>8, <1>9, <1>10 DEF IdeInv, IdeRest

\* leet-ide goes on, and no message does.
LEMMA IdeCommands ==
  ASSUME IdeInv, AutoDetect \/ RunAdapterEnds \/ (RunAdapter /\ UNCHANGED <<asks, asked, servedBy, answerOf>>)
  PROVE  IdeInv'
<1>1. /\ UNCHANGED <<ide, asks, asked, toolRuns, servedBy, answerOf, ideHistory, ideCogons, forgottenAsks>>
      /\ IdeTypes /\ Flights /\ Served /\ Commands /\ SessionExact
  BY DEF AutoDetect, RunAdapter, RunAdapterEnds, IdeInv, IdeRest
<1>2. \A t \in IdeTasks : asks[t].at = "idle"
  <2>1. CASE AutoDetect
    BY <1>1, <2>1 DEF AutoDetect, Commands
  <2>2. CASE RunAdapter
    BY <1>1, <2>2 DEF RunAdapter, Commands
  <2>3. CASE RunAdapterEnds
    BY <1>1, <2>3 DEF RunAdapterEnds, Commands
  <2> QED BY <2>1, <2>2, <2>3
<1>3. /\ command' \in [at : {"none", "create", "check", "send", "wait", "end"}, stream : BOOLEAN,
                       export : BOOLEAN, wants : Tools \cup {"auto"}]
      /\ command'.export = command.export
      /\ \/ command'.at = "create" /\ command.at = "create" /\ UNCHANGED leetIdeExit
         \/ command'.at = "end" /\ command.at = "create" /\ leetIdeExit' = "1"
         \/ command'.at = "end" /\ command.at = "wait" /\ leetIdeExit' = ExitCode(answerOf[1])
         \/ command'.at = "end" /\ command.at = "wait" /\ command.export
  <2>1. command \in [at : {"none", "create", "check", "send", "wait", "end"}, stream : BOOLEAN,
                     export : BOOLEAN, wants : Tools \cup {"auto"}] /\ ide.tool \in Tools
    BY <1>1 DEF IdeTypes
  <2>2. CASE AutoDetect
    BY <2>1, <2>2 DEF AutoDetect
  <2>3. CASE RunAdapter /\ UNCHANGED <<asks, asked, servedBy, answerOf>>
    <3>1. asked = 0 /\ command.at = "create"
      BY <1>1, <2>3 DEF RunAdapter, Commands
    <3>2. Leave("1")
      BY <2>3, <3>1 DEF RunAdapter
    <3> QED BY <2>1, <3>1, <3>2 DEF Leave
  <2>4. CASE RunAdapterEnds
    BY <2>1, <2>4 DEF RunAdapterEnds, Leave
  <2> QED BY <2>2, <2>3, <2>4
<1>4. ExitTells'
  <2>1. CASE command.at = "create"
    <3>1. \A m \in Asked : servedBy[m] = {}
      BY <1>1, <2>1, IdeAssumption DEF Commands, Served, Asked
    <3> QED BY <1>1, <3>1 DEF ExitTells
  <2>2. CASE command.at = "wait" /\ leetIdeExit' = ExitCode(answerOf[1])
    <3>1. asked = 1 /\ \A m \in Asked : m # 1 => servedBy[m] = {}
      BY <1>1, <2>2, IdeAssumption DEF Commands, Served, Asked
    <3>2. leetIdeExit' = "1" => answerOf[1] = "raised"
      BY <2>2 DEF ExitCode
    <3>3. leetIdeExit' = "1" => \A m \in Asked : servedBy[m] = {}
      BY <1>1, <3>1, <3>2 DEF Served
    <3> QED BY <1>1, <3>3 DEF ExitTells
  <2>3. CASE command.export
    BY <1>3, <2>3 DEF ExitTells
  <2> QED BY <1>3, <2>1, <2>2, <2>3
<1>5. Commands'
  BY <1>1, <1>2, <1>3, <1>4 DEF Commands
<1>6. IdeTypes'
  BY <1>1, <1>3 DEF IdeTypes
<1>7. Flights' /\ Served'
  BY <1>1 DEF Flights, Served
<1>8. SessionExact'
  BY <1>1 DEF SessionExact
<1> QED BY <1>5, <1>6, <1>7, <1>8 DEF IdeInv, IdeRest

\* The tool is gone when leet-ide streams, and Kimi's API answers.
LEMMA IdeStreams ==
  ASSUME IdeInv, command.at = "create", ide.tool = "kimi", command' = [command EXCEPT !.at = "wait"],
         asked' = 1, MaxAsked > 0, NEW by \in SUBSET {"api"},
         servedBy' = [servedBy EXCEPT ![1] = by], answerOf' = [answerOf EXCEPT ![1] = "done"],
         UNCHANGED <<ide, asks, toolRuns, ideHistory, ideCogons, forgottenAsks, leetIdeExit>>
  PROVE  IdeInv'
<1>1. /\ IdeTypes /\ Flights /\ Served /\ Commands /\ SessionExact /\ asked = 0 /\ 1 \in Asked
      /\ MaxAsked \in Nat
  BY IdeAssumption DEF IdeInv, IdeRest, Commands, Asked
<1>2. /\ servedBy' \in [Asked -> SUBSET {"cli", "api"}] /\ answerOf' \in [Asked -> Answers]
      /\ answerOf'[1] = "done" /\ servedBy'[1] = by /\ by # {"cli"}
      /\ \A m : m # 1 => answerOf'[m] = answerOf[m] /\ servedBy'[m] = servedBy[m]
      /\ answerOf[1] = "none" /\ 1 \notin toolRuns
  <2>1. answerOf[1] = "none" /\ 1 \notin toolRuns
    BY <1>1 DEF Served
  <2>2. by # {"cli"} /\ by \in SUBSET {"cli", "api"} /\ "done" \in Answers
    BY DEF Answers
  <2> QED BY <1>1, <2>1, <2>2 DEF IdeTypes
<1>3. /\ command' \in [at : {"none", "create", "check", "send", "wait", "end"}, stream : BOOLEAN,
                       export : BOOLEAN, wants : Tools \cup {"auto"}]
      /\ command'.at = "wait"
  BY <1>1 DEF IdeTypes
<1>4. IdeTypes'
  BY <1>1, <1>2, <1>3 DEF IdeTypes
<1>5. \A t \in IdeTasks : asks'[t].at = "idle"
  BY <1>1 DEF Commands
<1>6. Flights'
  BY <1>5 DEF Flights
<1>7. Served'
  <2>1. ASSUME NEW m \in Asked
        PROVE  /\ m > asked' => answerOf'[m] = "none" /\ servedBy'[m] = {} /\ m \notin toolRuns'
               /\ answerOf'[m] = "raised" => servedBy'[m] = {}
               /\ "api" \in servedBy'[m] => ide'.tool = "kimi"
               /\ m \in toolRuns' /\ answerOf'[m] \in {"done", "failed"} => "api" \in servedBy'[m]
    <3>1. CASE m = 1
      BY <1>2, <3>1
    <3>2. CASE m # 1
      <4>1. m > asked
        BY <1>1 DEF Asked
      <4> QED BY <1>1, <1>2, <3>2, <4>1 DEF Served
    <3> QED BY <3>1, <3>2
  <2> QED BY <2>1 DEF Served
<1>8. Commands'
  BY <1>1, <1>3, <1>5 DEF Commands, ExitTells
<1>9. SessionExact'
  <2>1. ~OwnAnswer(1) /\ ~OwnAnswer(1)'
    BY <1>2 DEF OwnAnswer
  <2> QED BY <1>1, <1>2, <2>1, SessionStays
<1> QED BY <1>4, <1>6, <1>7, <1>8, <1>9 DEF IdeInv, IdeRest

LEMMA IdeClears ==
  ASSUME IdeInv, ClearHistory
  PROVE  IdeInv'
<1> DEFINE kept == {ideHistory[i][1] : i \in DOMAIN ideHistory}
<1>1. /\ UNCHANGED <<ide, asks, asked, toolRuns, servedBy, answerOf, command, leetIdeExit>>
      /\ forgottenAsks' = forgottenAsks \cup kept /\ ideHistory' = <<>> /\ ideCogons' = <<>>
      /\ IdeTypes /\ Flights /\ Served /\ Commands /\ SessionExact
  BY DEF ClearHistory, IdeInv, IdeRest
<1>2. IdeTypes' /\ Flights' /\ Served' /\ Commands'
  <2>1. ideHistory' \in Seq(Asked \X BOOLEAN)
    BY <1>1, EmptySeq
  <2>2. IdeTypes'
    BY <1>1, <2>1 DEF IdeTypes
  <2>3. Flights' /\ Served'
    BY <1>1 DEF Flights, Served
  <2>4. Commands'
    BY <1>1 DEF Commands, ExitTells
  <2> QED BY <2>2, <2>3, <2>4
<1>3. /\ Keeping([i \in DOMAIN ideHistory' |-> ideHistory'[i][1]],
                 {i \in DOMAIN ideHistory' : ideHistory'[i][2]}) = <<>>
      /\ {ideHistory'[i][1] : i \in DOMAIN ideHistory'} = {}
      /\ Cardinality({ideHistory'[i][1] : i \in DOMAIN ideHistory'}) = 0 /\ Len(ideHistory') = 0
  BY <1>1, NothingKept
<1>4. Recorded = forgottenAsks \cup kept /\ Recorded' = forgottenAsks'
  BY <1>3 DEF Recorded
<1> HIDE DEF kept
<1>5. /\ \A m \in Recorded : OwnAnswer(m)
      /\ \A m \in Asked : OwnAnswer(m) => m \in Recorded
  BY <1>1, SessionParts
<1>6. \A m : OwnAnswer(m)' <=> OwnAnswer(m)
  BY <1>1 DEF OwnAnswer
<1>7. /\ \A m \in Recorded' : OwnAnswer(m)'
      /\ \A m \in Asked : OwnAnswer(m)' => m \in Recorded'
  BY <1>1, <1>4, <1>5, <1>6
<1>8. /\ ideCogons' = Keeping([i \in DOMAIN ideHistory' |-> ideHistory'[i][1]],
                              {i \in DOMAIN ideHistory' : ideHistory'[i][2]})
      /\ Cardinality({ideHistory'[i][1] : i \in DOMAIN ideHistory'}) = Len(ideHistory')
      /\ {ideHistory'[i][1] : i \in DOMAIN ideHistory'} \cap forgottenAsks' = {}
  BY <1>1, <1>3
<1>9. SessionExact'
  BY <1>7, <1>8, Zenon DEF SessionExact, Recorded, OwnAnswer
<1> QED BY <1>2, <1>9 DEF IdeInv, IdeRest

LEMMA IdeOrphan ==
  ASSUME IdeInv, toolRuns' \subseteq toolRuns,
         UNCHANGED <<ide, asks, asked, servedBy, answerOf, ideHistory, ideCogons, forgottenAsks,
                     command, leetIdeExit>>
  PROVE  IdeInv'
<1>1. IdeTypes' /\ Flights' /\ Served'
  BY DEF IdeInv, IdeRest, IdeTypes, Flights, Served
<1>2. Commands'
  BY DEF IdeInv, IdeRest, Commands, ExitTells
<1>3. SessionExact'
  BY DEF IdeInv, SessionExact
<1> QED BY <1>1, <1>2, <1>3 DEF IdeInv, IdeRest

LEMMA IdeInductive ==
  ASSUME IdeInv, [IdeNext]_ideVars
  PROVE  IdeInv'
<1>1. CASE UNCHANGED ideVars
  BY <1>1, IdeOrphan DEF ideVars
<1>2. ASSUME NEW m \in Asked, OrphanEnds(m) PROVE IdeInv'
  BY <1>2, IdeOrphan DEF OrphanEnds
<1>3. ASSUME NEW t \in IdeTasks, Ask(t) PROVE IdeInv'
  BY <1>3, IdeAsks DEF Ask
<1>4. ASSUME NEW t \in IdeTasks, ToolTimesOut(t) PROVE IdeInv'
  BY <1>4, IdeBreaks DEF ToolTimesOut
<1>5. CASE RunAdapter
  <2>1. /\ command.at = "create" /\ asked = 0 /\ MaxAsked > 0
        /\ UNCHANGED <<ide, toolRuns, ideHistory, ideCogons, forgottenAsks>>
    BY <1>5 DEF RunAdapter, IdeInv, IdeRest, Commands
  <2>2. CASE UNCHANGED <<asks, asked, servedBy, answerOf>>
    BY <1>5, <2>2, IdeCommands
  <2>3. CASE /\ command' = [command EXCEPT !.at = "wait"] /\ asked' = 1
             /\ UNCHANGED <<leetIdeExit, servedBy, answerOf>>
             /\ asks' = [asks EXCEPT ![Teller] = [at |-> "probe", msg |-> 1]]
    <3>1. Teller \in IdeTasks
      BY IdeAssumption DEF Teller
    <3>2. asks[Teller].at = "idle" /\ asked + 1 = 1 /\ asked < MaxAsked
      BY <2>1, <3>1, IdeAssumption DEF IdeInv, IdeRest, Commands
    <3> QED BY <2>1, <2>3, <3>1, <3>2, IdeAsks
  <2>4. CASE /\ ide.tool = "kimi" /\ command' = [command EXCEPT !.at = "wait"]
             /\ asked' = 1 /\ UNCHANGED <<asks, leetIdeExit>>
             /\ \E by \in SUBSET {"api"} : servedBy' = [servedBy EXCEPT ![1] = by]
             /\ answerOf' = [answerOf EXCEPT ![1] = "done"]
    BY <2>1, <2>4, IdeStreams
  <2> QED BY <1>5, <2>2, <2>3, <2>4 DEF RunAdapter
<1> QED BY <1>1, <1>2, <1>3, <1>4, <1>5, IdeProbes, IdeSpawns, IdeToolEnds, IdeProjected, IdeApi,
           IdeClears, IdeCommands DEF IdeNext

LEMMA IdeInvSafe ==
  ASSUME IdeInv
  PROVE  IdeSound
<1>1. /\ IdeTypes /\ Served /\ Commands /\ SessionExact /\ toolRuns \subseteq Asked
  BY DEF IdeInv, IdeRest, IdeTypes
<1>2. ToolsEnd
  BY <1>1 DEF Served, ToolsEnd
<1>3. TwiceOnlyByKimi
  BY <1>1 DEF Served, TwiceOnlyByKimi
<1> QED BY <1>1, <1>2, <1>3 DEF Commands, IdeSound

-----------------------------------------------------------------------------
(***************************************************************************)
(* One program is used in a behaviour: each keeps its own invariant.       *)
(***************************************************************************)
LEMMA OneTalk ==
  ASSUME [OtherProgramsNext]_programVars
  PROVE  /\ program' = program
         /\ program = "agent" => [AgentNext]_agentVars
         /\ program = "ide" => [IdeNext]_ideVars
         /\ program = "vm" => [VmNext]_vmVars
<1>1. CASE UNCHANGED programVars
  BY <1>1 DEF programVars
<1>2. CASE OtherProgramsNext
  BY <1>2 DEF OtherProgramsNext, Only
<1> QED BY <1>1, <1>2

TalksUsed ==
  /\ program = "agent" => AgentInv
  /\ program = "ide" => IdeInv
  /\ program = "vm" => VmInv

\* An agent announces itself before it says anything else, unless it is made to
\* send early, and is active only once a peer has vouched for it; the history and
\* the cogons of an adapter are those of what it sent and was answered; and in a
\* session of leet-vm the two cogons of an exchange stay together, in a store that
\* has all of them, whatever requests overlap.
THEOREM TalksAreSound == OtherProgramsSpec => []TalksSound
<1>1. OtherProgramsInit => TalksUsed
  BY AgentStarts, IdeStarts, VmStarts DEF OtherProgramsInit, TalksUsed
<1>2. TalksUsed /\ [OtherProgramsNext]_programVars => TalksUsed'
  <2> SUFFICES ASSUME TalksUsed, [OtherProgramsNext]_programVars PROVE TalksUsed'
    OBVIOUS
  <2>1. program' = program
    BY OneTalk
  <2>2. CASE program = "agent"
    BY <2>1, <2>2, OneTalk, AgentInductive DEF TalksUsed
  <2>3. CASE program = "ide"
    BY <2>1, <2>3, OneTalk, IdeInductive DEF TalksUsed
  <2>4. CASE program = "vm"
    <3>1. [VmNext]_vmVars /\ VmInv
      BY <2>4, OneTalk DEF TalksUsed
    <3>2. VmInv'
      BY <3>1, VmInductive, VmStutters
    <3> QED BY <2>1, <2>4, <3>2 DEF TalksUsed
  <2> QED BY <2>1, <2>2, <2>3, <2>4 DEF TalksUsed
<1>3. TalksUsed => TalksSound
  BY AgentInvSafe, IdeInvSafe, VmInvSafe DEF TalksUsed, TalksSound
<1> QED BY <1>1, <1>2, <1>3, PTL DEF OtherProgramsSpec

-----------------------------------------------------------------------------
(***************************************************************************)
(* Programs that keep the settings of a user, or files on disk: config.py, *)
(* context.py, setup.py, the calibration pipeline and its sources.         *)
(***************************************************************************)

-----------------------------------------------------------------------------
(***************************************************************************)
(* config.py.                                                              *)
(***************************************************************************)
CfgWords ==
  {"unset", "bad", "given", "localhost", "h", "10000", "9", "none", "k", "empty", "l", "false",
   "true", "INFO", "DEBUG"}

CfgTypes ==
  /\ environ \in [Fields -> CfgWords]
  /\ configFile \in [state : {"missing", "unsupported", "broken", "good"}, sets : [Fields -> CfgWords]]
  /\ globalConfig \in [Fields -> CfgWords]
  /\ origin \in [by : {"nobody", "load", "caller"}, env : [Fields -> CfgWords],
                 file : [Fields -> CfgWords], given : SUBSET Fields]
  /\ CfgTypeOK

CfgInv == CfgTypes /\ ConfigSound

\* What one field has when the environment gives set and the file gives file.
FieldOf(f, set, file) ==
  IF set # "unset" /\ ~(f = "debug" /\ set = "false") THEN set
  ELSE IF f \in {"key", "hosts", "debug"} THEN (IF file = "unset" THEN Defaults[f] ELSE file)
  ELSE Defaults[f]

\* The merge of one field, by what it is merged from.
LEMMA FieldMerged ==
  ASSUME NEW f \in Fields, NEW base, NEW over, NEW set, NEW file, NEW merged,
         f = "size" => set = "unset",
         set \in Settable[f] \cup {"unset"}, file \in Settable[f] \cup {"unset"},
         base = (IF file = "unset" THEN Defaults[f] ELSE file),
         over = (IF set = "unset" THEN Defaults[f] ELSE set),
         merged = (IF f \in Nested THEN MergedNested(base, over)
                   ELSE IF IsDefault(over) THEN base ELSE over)
  PROVE  merged = FieldOf(f, set, file) /\ merged \in ValuesOf(f)
<1>1. CASE f = "host"
  BY <1>1 DEF FieldOf, ValuesOf, Defaults, Settable, Nested, MergedNested
<1>2. CASE f = "size"
  BY <1>2 DEF FieldOf, ValuesOf, Defaults, Settable, Nested, MergedNested
<1>3. CASE f = "key"
  BY <1>3 DEF FieldOf, ValuesOf, Defaults, Settable, Nested, MergedNested
<1>4. CASE f = "hosts"
  BY <1>4 DEF FieldOf, ValuesOf, Defaults, Settable, Nested, MergedNested
<1>5. CASE f = "debug"
  BY <1>5 DEF FieldOf, ValuesOf, Defaults, Settable, Nested, IsDefault
<1>6. CASE f = "level"
  BY <1>6 DEF FieldOf, ValuesOf, Defaults, Settable, Nested, IsDefault
<1> QED BY <1>1, <1>2, <1>3, <1>4, <1>5, <1>6 DEF Fields

LEMMA LoadedIs ==
  ASSUME CfgTypes, NEW withFile \in BOOLEAN, ~LoadRaises(configFile, withFile, environ),
         NEW f \in Fields
  PROVE  /\ Loaded(configFile, withFile, environ)[f] =
              FieldOf(f, IF f \in FieldsOfEnv THEN environ[f] ELSE "unset",
                      IF withFile THEN configFile.sets[f] ELSE "unset")
         /\ Loaded(configFile, withFile, environ)[f] \in ValuesOf(f)
<1>1. PICK base : base = IF withFile THEN FromFile(configFile) ELSE Defaults
  OBVIOUS
<1>2. PICK over : over = FromEnv(environ)
  OBVIOUS
<1>3. PICK file : file = IF withFile THEN configFile.sets[f] ELSE "unset"
  OBVIOUS
<1>4. PICK set : set = IF f \in FieldsOfEnv THEN environ[f] ELSE "unset"
  OBVIOUS
<1>5. base[f] = IF file = "unset" THEN Defaults[f] ELSE file
  BY <1>1, <1>3 DEF FromFile
<1>6. over[f] = IF set = "unset" THEN Defaults[f] ELSE set
  BY <1>2, <1>4 DEF FromEnv
<1>7. Loaded(configFile, withFile, environ)[f] =
           IF f \in Nested THEN MergedNested(base[f], over[f])
           ELSE IF IsDefault(over[f]) THEN base[f] ELSE over[f]
  BY <1>1, <1>2 DEF Loaded, MergedConfig
<1>8. file \in Settable[f] \cup {"unset"}
  BY <1>3 DEF CfgTypes, CfgTypeOK
<1>9. f = "size" => set = "unset"
  BY <1>4 DEF FieldsOfEnv
<1>10. set \in Settable[f] \cup {"unset"}
  <2>1. environ[f] \in Settable[f] \cup {"unset", "bad"}
    BY DEF CfgTypes, CfgTypeOK
  <2>2. f \in FieldsOfEnv => environ[f] # "bad"
    BY DEF LoadRaises, EnvRaises
  <2> QED BY <1>4, <2>1, <2>2
<1>11. /\ Loaded(configFile, withFile, environ)[f] = FieldOf(f, set, file)
       /\ Loaded(configFile, withFile, environ)[f] \in ValuesOf(f)
  BY <1>5, <1>6, <1>7, <1>8, <1>9, <1>10, FieldMerged
<1> QED BY <1>3, <1>4, <1>11

LEMMA LoadedStrings ==
  ASSUME CfgTypes, NEW withFile \in BOOLEAN, ~LoadRaises(configFile, withFile, environ)
  PROVE  Loaded(configFile, withFile, environ) \in [Fields -> CfgWords]
<1>1. ASSUME NEW f \in Fields PROVE ValuesOf(f) \subseteq CfgWords
  BY DEF ValuesOf, Fields, Defaults, Settable, CfgWords
<1>2. ASSUME NEW f \in Fields PROVE Loaded(configFile, withFile, environ)[f] \in CfgWords
  BY <1>1, LoadedIs
<1> QED BY <1>2 DEF Loaded, MergedConfig

LEMMA CfgStarts ==
  ASSUME CfgInit
  PROVE  CfgInv
<1>1. Unset \in [Fields -> CfgWords] /\ \A f \in Fields : Unset[f] = "unset"
  BY DEF Unset, CfgWords
<1>2. CfgTypeOK
  BY <1>1, CfgAssumption DEF CfgInit, CfgTypeOK
<1> QED BY <1>1, <1>2 DEF CfgInit, CfgInv, CfgTypes, ConfigSound

\* A configuration that is loaded now, some of its fields overridden.
LEMMA CfgLoads ==
  ASSUME CfgInv, NEW withFile \in BOOLEAN, NEW given \in SUBSET {"debug"},
         ~LoadRaises(configFile, withFile, environ), loads < MaxLoads, loads' = loads + 1,
         globalConfig' = [f \in Fields |->
             IF f \in given THEN "given" ELSE Loaded(configFile, withFile, environ)[f]],
         origin' = [by |-> "load", env |-> environ, given |-> given,
                    file |-> IF withFile THEN configFile.sets ELSE Unset],
         UNCHANGED <<environ, configFile, edits>>
  PROVE  CfgInv'
<1>1. CfgTypes
  BY DEF CfgInv
<1>2. /\ given \subseteq Fields
      /\ environ \in [Fields -> CfgWords] /\ configFile.sets \in [Fields -> CfgWords]
      /\ Unset \in [Fields -> CfgWords]
  BY <1>1 DEF CfgTypes, Fields, Unset, CfgWords
<1>3. origin' \in [by : {"nobody", "load", "caller"}, env : [Fields -> CfgWords],
                   file : [Fields -> CfgWords], given : SUBSET Fields]
  BY <1>2
<1>4. globalConfig' \in [Fields -> CfgWords]
  <2>1. Loaded(configFile, withFile, environ) \in [Fields -> CfgWords]
    BY <1>1, LoadedStrings
  <2>2. "given" \in CfgWords
    BY DEF CfgWords
  <2> QED BY <2>1, <2>2
<1>5. \A f \in Fields : globalConfig'[f] \in ValuesOf(f)
  BY <1>1, LoadedIs DEF ValuesOf
<1>6. loads' \in 0 .. MaxLoads
  BY <1>1, CfgAssumption DEF CfgTypes, CfgTypeOK
<1>7. CfgTypes'
  BY <1>1, <1>3, <1>4, <1>5, <1>6 DEF CfgTypes, CfgTypeOK
<1>8. ASSUME NEW f \in Fields \ origin'.given
      PROVE  globalConfig'[f] = FieldOf(f, IF f \in FieldsOfEnv THEN origin'.env[f] ELSE "unset",
                                        origin'.file[f])
  <2>1. f \notin given /\ globalConfig'[f] = Loaded(configFile, withFile, environ)[f]
    BY <1>8
  <2>2. origin'.env = environ /\ origin'.file[f] = IF withFile THEN configFile.sets[f] ELSE "unset"
    BY DEF Unset, CfgWords
  <2> QED BY <1>1, <2>1, <2>2, LoadedIs
<1>9. ConfigSound'
  BY <1>8 DEF ConfigSound, FieldOf
<1> QED BY <1>7, <1>9 DEF CfgInv

LEMMA CfgInductive ==
  ASSUME CfgInv, [CfgNext]_cfgVars
  PROVE  CfgInv'
<1>1. CfgTypes /\ ConfigSound
  BY DEF CfgInv
<1>2. CASE UNCHANGED cfgVars
  BY <1>1, <1>2 DEF cfgVars, CfgInv, CfgTypes, CfgTypeOK, ConfigSound
<1>3. ASSUME NEW f \in Fields, NEW v \in Settable[f] \cup {"unset", "bad"}, SetVariable(f, v)
      PROVE  CfgInv'
  <2>1. v \in CfgWords
    BY DEF Settable, Fields, CfgWords
  <2>2. environ' \in [Fields -> CfgWords] /\ edits' \in 0 .. MaxEdits
    BY <1>1, <1>3, <2>1, CfgAssumption DEF SetVariable, CfgTypes, CfgTypeOK
  <2>3. \A g \in Fields : environ'[g] \in Settable[g] \cup {"unset", "bad"}
    BY <1>1, <1>3, CfgAssumption DEF SetVariable, CfgTypes, CfgTypeOK
  <2> QED BY <1>1, <1>3, <2>2, <2>3 DEF SetVariable, CfgInv, CfgTypes, CfgTypeOK, ConfigSound
<1>4. ASSUME NEW f \in Fields, NEW v \in Settable[f] \cup {"unset"},
             NEW state \in {"missing", "unsupported", "broken", "good"}, WriteFile(f, v, state)
      PROVE  CfgInv'
  <2>1. v \in CfgWords
    BY DEF Settable, Fields, CfgWords
  <2>2. configFile' \in [state : {"missing", "unsupported", "broken", "good"}, sets : [Fields -> CfgWords]] /\ edits' \in 0 .. MaxEdits
    BY <1>1, <1>4, <2>1, CfgAssumption DEF WriteFile, CfgTypes, CfgTypeOK
  <2>3. /\ \A g \in Fields : configFile'.sets[g] \in Settable[g] \cup {"unset"}
        /\ configFile'.state = state
    BY <1>1, <1>4, CfgAssumption DEF WriteFile, CfgTypes, CfgTypeOK
  <2> QED BY <1>1, <1>4, <2>2, <2>3 DEF WriteFile, CfgInv, CfgTypes, CfgTypeOK, ConfigSound
<1>5. CASE GetConfig
  <2>1. loads' \in 0 .. MaxLoads
    BY <1>1, <1>5, CfgAssumption DEF GetConfig, CfgTypes, CfgTypeOK
  <2>2. CASE UNCHANGED <<globalConfig, origin>>
    BY <1>1, <1>5, <2>1, <2>2 DEF GetConfig, CfgInv, CfgTypes, CfgTypeOK, ConfigSound
  <2>3. CASE /\ ~LoadRaises(configFile, FALSE, environ)
             /\ globalConfig' = Loaded(configFile, FALSE, environ)
             /\ origin' = [by |-> "load", env |-> environ, file |-> Unset, given |-> {}]
    <3>1. PICK withFile \in BOOLEAN, given \in SUBSET {"debug"} : ~withFile /\ given = {}
      OBVIOUS
    <3>2. globalConfig' = [f \in Fields |->
             IF f \in given THEN "given" ELSE Loaded(configFile, withFile, environ)[f]]
      BY <2>3, <3>1 DEF Loaded, MergedConfig
    <3>3. origin' = [by |-> "load", env |-> environ, given |-> given,
                    file |-> IF withFile THEN configFile.sets ELSE Unset]
      BY <2>3, <3>1
    <3>4. ~LoadRaises(configFile, withFile, environ)
      BY <2>3, <3>1
    <3> QED BY <3>2, <3>3, <3>4, <1>5, CfgLoads DEF GetConfig
  <2> QED BY <1>5, <2>2, <2>3 DEF GetConfig
<1>6. CASE SetConfig
  <2>1. loads' \in 0 .. MaxLoads
    BY <1>1, <1>6, CfgAssumption DEF SetConfig, CfgTypes, CfgTypeOK
  <2>2. globalConfig' \in [Fields -> CfgWords] /\ \A f \in Fields : globalConfig'[f] \in ValuesOf(f)
    BY <1>6 DEF SetConfig, ValuesOf, CfgWords
  <2>3. /\ origin'.by = "caller"
        /\ origin' \in [by : {"nobody", "load", "caller"}, env : [Fields -> CfgWords],
                        file : [Fields -> CfgWords], given : SUBSET Fields]
    BY <1>1, <1>6 DEF SetConfig, CfgTypes
  <2> QED BY <1>1, <1>6, <2>1, <2>2, <2>3 DEF SetConfig, CfgInv, CfgTypes, CfgTypeOK, ConfigSound
<1>7. ASSUME NEW withFile \in BOOLEAN, NEW given \in SUBSET {"debug"}, InitConfig(withFile, given)
      PROVE  CfgInv'
  <2>1. loads' \in 0 .. MaxLoads
    BY <1>1, <1>7, CfgAssumption DEF InitConfig, CfgTypes, CfgTypeOK
  <2>2. CASE UNCHANGED <<globalConfig, origin>>
    BY <1>1, <1>7, <2>1, <2>2 DEF InitConfig, CfgInv, CfgTypes, CfgTypeOK, ConfigSound
  <2> QED BY <1>7, <2>2, CfgLoads DEF InitConfig
<1>8. ASSUME NEW f \in Fields PROVE configFile.sets[f] \in Settable[f] \cup {"unset"}
  BY <1>1 DEF CfgTypes, CfgTypeOK
<1>9. CASE CfgNext
  <2>1. FieldsOfEnv \subseteq Fields /\ "host" \in Fields
    BY DEF FieldsOfEnv, Fields
  <2> QED BY <1>9, <1>3, <1>4, <1>5, <1>6, <1>7, <1>8, <2>1 DEF CfgNext
<1> QED BY <1>2, <1>9

-----------------------------------------------------------------------------
(***************************************************************************)
(* context.py.  What a projection and a mean of samples are is left open:  *)
(* a context that is kept depends on them only through the profile and     *)
(* the history it was made of.                                             *)
(***************************************************************************)
IsProfile(p) ==
  /\ DOMAIN p = {"name", "weight", "temperature", "usage"} /\ p = [x \in DOMAIN p |-> p[x]]
  /\ p.name \in ProfileNames /\ p.usage \in Nat

ContextTypes ==
  /\ \E S : profiles \in Seq(S)
  /\ Len(profiles) \in 1 .. MaxProfiles
  /\ \A i \in 1 .. Len(profiles) : IsProfile(profiles[i])
  /\ recent \in [Managers -> Seq(CogonValues)]
  /\ currentProfile \in [Managers -> 0 .. Len(profiles)]
  /\ customProfiles \in [Managers -> [ProfileNames -> 0 .. Len(profiles)]]
  /\ contextCogon = [m \in Managers |-> contextCogon[m]]
  /\ uses \in [1 .. MaxProfiles -> 0 .. MaxUses]

\* A profile that is not there yet has not been chosen.
NotChosen == \A p \in 1 .. MaxProfiles : p > Len(profiles) => uses[p] = 0

ContextInv == ContextTypes /\ NotChosen /\ ContextSound

\* The contexts that are kept have their profile and their history.
LEMMA FreshStays ==
  ASSUME ContextInv,
         \A p \in 1 .. Len(profiles) : /\ profiles'[p].weight = profiles[p].weight
                                       /\ profiles'[p].temperature = profiles[p].temperature,
         \A m \in Managers : \/ contextCogon'[m] = NoContext
                             \/ /\ contextCogon'[m] = contextCogon[m]
                                /\ recent'[m] = recent[m] /\ currentProfile'[m] = currentProfile[m]
  PROVE  ContextFresh'
<1> SUFFICES ASSUME NEW m \in Managers, contextCogon'[m] # NoContext
             PROVE  contextCogon'[m] = ContextOf(currentProfile[m], recent[m])'
  BY DEF ContextFresh
<1>1. /\ contextCogon'[m] = contextCogon[m]
      /\ recent'[m] = recent[m] /\ currentProfile'[m] = currentProfile[m]
  OBVIOUS
<1>2. PICK p, h : p = currentProfile[m] /\ p \in 0 .. Len(profiles) /\ h = recent[m]
  BY DEF ContextInv, ContextTypes
<1>3. contextCogon[m] = ContextOf(p, h)
  BY <1>1, <1>2 DEF ContextInv, ContextSound, ContextFresh
<1>4. Len(profiles) \in Nat
  BY ContextAssumption DEF ContextInv, ContextTypes
<1>5. ContextOf(p, h)' = ContextOf(p, h)
  <2>1. p # 0 => p \in 1 .. Len(profiles)
    BY <1>2, <1>4
  <2>2. p # 0 => /\ profiles'[p].weight = profiles[p].weight
                 /\ profiles'[p].temperature = profiles[p].temperature
    BY <2>1
  <2>3. CASE p = 0
    BY <2>3 DEF ContextOf
  <2>4. CASE p # 0
    BY <2>2, <2>4 DEF ContextOf, ToCogon
  <2> QED BY <2>3, <2>4
<1>6. ContextOf(currentProfile[m], recent[m])' = ContextOf(p, h)'
  <2>1. currentProfile'[m] = p /\ recent'[m] = h
    BY <1>1, <1>2
  <2> QED BY <2>1 DEF ContextOf
<1> QED BY <1>1, <1>3, <1>5, <1>6

LEMMA ContextStarts ==
  ASSUME ContextInit
  PROVE  ContextInv
<1>1. /\ profiles \in Seq([name : ProfileNames, weight : Int, temperature : Int, usage : Nat])
      /\ Len(profiles) = 1 /\ profiles[1] = [name |-> "emergency", weight |-> 1000, temperature |-> 13, usage |-> 0]
  BY DEF ContextInit, Builtins, ProfileNames
<1>2. IsProfile(profiles[1]) /\ profiles[1].usage = 0
  BY <1>1 DEF IsProfile, ProfileNames
<1>3. \A i \in DOMAIN profiles : i = 1
  BY <1>1
<1>4. MaxProfiles \in Nat \ {0} /\ MaxUses \in Nat
  BY ContextAssumption
<1>5. uses = [i \in 1 .. MaxProfiles |-> 0] /\ uses \in [1 .. MaxProfiles -> 0 .. MaxUses]
  BY <1>4 DEF ContextInit
<1>6. /\ recent \in [Managers -> Seq(CogonValues)]
      /\ currentProfile \in [Managers -> 0 .. Len(profiles)]
      /\ customProfiles \in [Managers -> [ProfileNames -> 0 .. Len(profiles)]]
      /\ contextCogon = [m \in Managers |-> contextCogon[m]]
  BY <1>1 DEF ContextInit
<1>7. ContextTypes
  <2>1. \E S : profiles \in Seq(S)
    BY <1>1
  <2>2. \A i \in 1 .. Len(profiles) : IsProfile(profiles[i])
    BY <1>1, <1>2
  <2> QED BY <1>1, <1>4, <1>5, <1>6, <2>1, <2>2 DEF ContextTypes
<1>8. ContextFresh
  BY DEF ContextInit, ContextFresh
<1>9. UsageExact
  BY <1>1, <1>2, <1>3, <1>4, <1>5 DEF ContextInit, UsageExact
<1>10. NotChosen
  BY <1>5 DEF NotChosen
<1> QED BY <1>7, <1>8, <1>9, <1>10 DEF ContextInv, ContextSound

LEMMA ContextStutters ==
  ASSUME ContextInv, UNCHANGED ctxVars
  PROVE  ContextInv'
<1>1. ContextTypes' /\ NotChosen' /\ UsageExact'
  BY DEF ctxVars, ContextInv, ContextTypes, IsProfile, NotChosen, ContextSound, UsageExact
<1>2. ContextFresh'
  BY FreshStays DEF ctxVars
<1> QED BY <1>1, <1>2 DEF ContextInv, ContextSound

LEMMA ContextChooses ==
  ASSUME ContextInv, NEW m \in Managers, NEW name \in ProfileNames, SetProfile(m, name)
  PROVE  ContextInv'
<1>1. PICK p : /\ p = IF Builtin(name) # 0 THEN Builtin(name) ELSE customProfiles[m][name]
               /\ p # 0 /\ uses[p] < MaxUses
               /\ currentProfile' = [currentProfile EXCEPT ![m] = p]
               /\ profiles' = [profiles EXCEPT ![p].usage = @ + 1]
               /\ uses' = [uses EXCEPT ![p] = @ + 1]
               /\ contextCogon' = Invalidated(m)
               /\ UNCHANGED <<recent, customProfiles>>
  BY DEF SetProfile
<1>2. /\ ContextTypes /\ NotChosen /\ UsageExact
      /\ MaxProfiles \in Nat \ {0} /\ MaxUses \in Nat
  BY ContextAssumption DEF ContextInv, ContextSound
<1>3. p \in 1 .. Len(profiles) /\ Len(profiles) \in 1 .. MaxProfiles /\ p \in 1 .. MaxProfiles
  <2>1. customProfiles[m][name] \in 0 .. Len(profiles) /\ Len(profiles) \in 1 .. MaxProfiles
    BY <1>2 DEF ContextTypes
  <2>2. Builtin(name) \in {0, 1}
    BY DEF Builtin
  <2> QED BY <1>1, <1>2, <2>1, <2>2
<1>4. PICK S : profiles \in Seq(S)
  BY <1>2 DEF ContextTypes
<1>5. DOMAIN profiles = 1 .. Len(profiles) /\ profiles \in [1 .. Len(profiles) -> S]
  BY <1>4, LenProperties
<1>6. PICK chosen : chosen = [profiles[p] EXCEPT !.usage = @ + 1]
  OBVIOUS
<1>7. profiles' = [profiles EXCEPT ![p] = chosen]
  BY <1>1, <1>3, <1>5, <1>6
<1>8. /\ profiles' \in Seq(S \cup {chosen}) /\ Len(profiles') = Len(profiles)
      /\ \A i \in 1 .. Len(profiles) : profiles'[i] = IF i = p THEN chosen ELSE profiles[i]
  <2>1. profiles \in Seq(S \cup {chosen})
    BY <1>4, <1>5, SeqDef
  <2> QED BY <2>1, <1>3, <1>5, <1>7, ExceptSeq
<1>9. IsProfile(profiles[p])
  BY <1>2, <1>3 DEF ContextTypes
<1>10. /\ IsProfile(chosen) /\ chosen.usage = profiles[p].usage + 1
       /\ chosen.weight = profiles[p].weight /\ chosen.temperature = profiles[p].temperature
  BY <1>6, <1>9 DEF IsProfile
<1>11. /\ uses[p] \in 0 .. MaxUses /\ uses' \in [1 .. MaxProfiles -> 0 .. MaxUses]
       /\ uses'[p] = uses[p] + 1
       /\ \A q \in 1 .. MaxProfiles : q # p => uses'[q] = uses[q]
  BY <1>1, <1>2, <1>3 DEF ContextTypes
<1>12. ContextTypes'
  <2>1. \A i \in 1 .. Len(profiles) : IsProfile(profiles'[i])
    BY <1>2, <1>8, <1>10 DEF ContextTypes
  <2>2. currentProfile' \in [Managers -> 0 .. Len(profiles)]
    <3>1. currentProfile \in [Managers -> 0 .. Len(profiles)] /\ p \in 0 .. Len(profiles)
      BY <1>2, <1>3 DEF ContextTypes
    <3> QED BY <3>1, <1>1
  <2>5. contextCogon' = [n \in Managers |-> contextCogon'[n]]
    BY <1>1, <1>2 DEF ContextTypes, Invalidated
  <2>3. \E T : profiles' \in Seq(T)
    BY <1>8
  <2>4. /\ (\A i \in 1 .. Len(profiles) : IsProfile(profiles[i]))'
        /\ Len(profiles') \in 1 .. MaxProfiles
    BY <1>8, <1>3, <2>1 DEF IsProfile
  <2> QED BY <1>1, <1>2, <1>8, <1>11, <2>2, <2>3, <2>4, <2>5 DEF ContextTypes
<1>13. NotChosen'
  BY <1>2, <1>3, <1>8, <1>11 DEF NotChosen
<1>14. UsageExact'
  <2>1. \A q \in 1 .. Len(profiles) : profiles'[q].usage >= uses'[q]
    <3> TAKE q \in 1 .. Len(profiles)
    <3>1. q \in 1 .. MaxProfiles /\ profiles[q].usage >= uses[q] /\ uses[q] \in Nat
          /\ profiles[q].usage \in Nat
      BY <1>2, <1>3, <1>5 DEF UsageExact, ContextTypes, IsProfile
    <3> QED BY <3>1, <1>8, <1>10, <1>11
  <2>2. profiles'[1].usage = uses'[1]
    <3>1. 1 \in 1 .. Len(profiles) /\ 1 \in 1 .. MaxProfiles /\ profiles[1].usage = uses[1]
      BY <1>2, <1>3 DEF UsageExact
    <3> QED BY <3>1, <1>8, <1>10, <1>11
  <2>3. \A n \in Managers : currentProfile'[n] # 0 => uses'[currentProfile'[n]] > 0
    <3> TAKE n \in Managers
    <3>1. currentProfile[n] # 0 => uses[currentProfile[n]] > 0
      BY <1>2 DEF UsageExact
    <3>2. currentProfile[n] \in 0 .. MaxProfiles
      BY <1>2, <1>3 DEF ContextTypes
    <3>3. currentProfile'[n] = IF n = m THEN p ELSE currentProfile[n]
      BY <1>1, <1>2 DEF ContextTypes
    <3> QED BY <3>1, <3>2, <3>3, <1>3, <1>11
  <2>4. DOMAIN profiles' = 1 .. Len(profiles)
    BY <1>8, LenProperties
  <2> QED BY <2>1, <2>2, <2>3, <2>4 DEF UsageExact
<1>15. ContextFresh'
  <2>1. \A q \in 1 .. Len(profiles) : /\ profiles'[q].weight = profiles[q].weight
                                      /\ profiles'[q].temperature = profiles[q].temperature
    BY <1>8, <1>10
  <2>2. \A n \in Managers : \/ contextCogon'[n] = NoContext
                            \/ /\ contextCogon'[n] = contextCogon[n]
                               /\ recent'[n] = recent[n] /\ currentProfile'[n] = currentProfile[n]
    BY <1>1, <1>2 DEF ContextTypes, Invalidated
  <2> QED BY <2>1, <2>2, FreshStays
<1> QED BY <1>12, <1>13, <1>14, <1>15 DEF ContextInv, ContextSound

LEMMA ContextGrows ==
  ASSUME ContextInv, NEW m \in Managers, NEW c \in CogonValues, AddToContext(m, c)
  PROVE  ContextInv'
<1>1. /\ ContextTypes /\ NotChosen /\ UsageExact
      /\ UNCHANGED <<profiles, currentProfile, customProfiles, uses>>
  BY DEF ContextInv, ContextSound, AddToContext
<1>2. recent[m] \in Seq(CogonValues)
  BY <1>1 DEF ContextTypes
<1>3. (IF Len(recent[m]) < WindowSize THEN Append(recent[m], c) ELSE Append(Tail(recent[m]), c))
        \in Seq(CogonValues)
  <2>1. CASE recent[m] = <<>>
    <3>1. Len(recent[m]) < WindowSize
      BY <2>1, ContextAssumption
    <3> QED BY <3>1, <1>2, AppendProperties
  <2>2. CASE recent[m] # <<>>
    BY <2>2, <1>2, AppendProperties, HeadTailProperties
  <2> QED BY <2>1, <2>2
<1>4. /\ recent' \in [Managers -> Seq(CogonValues)]
      /\ \A n \in Managers : n # m => recent'[n] = recent[n]
      /\ contextCogon' = [n \in Managers |-> contextCogon'[n]]
      /\ \A n \in Managers : contextCogon'[n] = IF n = m THEN NoContext ELSE contextCogon[n]
  BY <1>1, <1>3 DEF AddToContext, Invalidated, ContextTypes
<1>5. ContextTypes'
  BY <1>1, <1>4 DEF ContextTypes, IsProfile
<1>6. NotChosen' /\ UsageExact'
  BY <1>1 DEF NotChosen, UsageExact
<1>7. ContextFresh'
  BY <1>1, <1>4, FreshStays
<1> QED BY <1>5, <1>6, <1>7 DEF ContextInv, ContextSound

LEMMA ContextMade ==
  ASSUME ContextInv, NEW m \in Managers, GetContext(m)
  PROVE  ContextInv'
<1>1. /\ ContextTypes /\ NotChosen /\ UsageExact /\ ContextFresh
      /\ UNCHANGED <<profiles, recent, currentProfile, customProfiles, uses>>
  BY DEF ContextInv, ContextSound, GetContext
<1>2. CASE contextCogon' = contextCogon
  BY <1>1, <1>2, ContextStutters DEF ctxVars
<1>3. CASE contextCogon' = [contextCogon EXCEPT ![m] = ContextOf(currentProfile[m], recent[m])]
  <2>1. /\ contextCogon' = [n \in Managers |-> contextCogon'[n]]
        /\ \A n \in Managers : contextCogon'[n] =
             IF n = m THEN ContextOf(currentProfile[m], recent[m]) ELSE contextCogon[n]
    BY <1>1, <1>3 DEF ContextTypes
  <2>2. ContextTypes' /\ NotChosen' /\ UsageExact'
    BY <1>1, <2>1 DEF ContextTypes, IsProfile, NotChosen, UsageExact
  <2>3. \A n \in Managers : ContextOf(currentProfile[n], recent[n])' = ContextOf(currentProfile[n], recent[n])
    BY <1>1 DEF ContextOf
  <2>4. ContextFresh'
    BY <1>1, <2>1, <2>3 DEF ContextFresh
  <2> QED BY <2>2, <2>4 DEF ContextInv, ContextSound
<1> QED BY <1>2, <1>3 DEF GetContext

LEMMA ContextDefines ==
  ASSUME ContextInv, NEW m \in Managers, NEW p, IsProfile(p), Define(m, p)
  PROVE  ContextInv'
<1>1. /\ ContextTypes /\ NotChosen /\ UsageExact
      /\ MaxProfiles \in Nat \ {0} /\ MaxUses \in Nat
      /\ Len(profiles) \in 1 .. MaxProfiles /\ Len(profiles) < MaxProfiles
      /\ UNCHANGED <<recent, currentProfile, contextCogon, uses>>
  BY ContextAssumption DEF ContextInv, ContextTypes, ContextSound, Define
<1>2. PICK S : profiles \in Seq(S)
  BY <1>1 DEF ContextTypes
<1>3. PICK n \in Nat : n = Len(profiles) /\ n \in 1 .. MaxProfiles /\ n + 1 \in 1 .. MaxProfiles
  BY <1>1
<1>4. /\ profiles' \in Seq(S \cup {p}) /\ Len(profiles') = n + 1
      /\ \A i \in 1 .. n : profiles'[i] = profiles[i]
      /\ profiles'[n + 1] = p
      /\ DOMAIN profiles' = 1 .. (n + 1) /\ DOMAIN profiles = 1 .. n
  <2>1. profiles \in Seq(S \cup {p})
    <3>1. profiles \in [1 .. Len(profiles) -> S]
      BY <1>2, LenProperties
    <3> QED BY <3>1, <1>1, <1>3, SeqDef
  <2>2. profiles' = Append(profiles, p)
    BY DEF Define
  <2> QED BY <2>1, <2>2, <1>3, AppendProperties, LenProperties
<1>5. \A i \in 1 .. n : IsProfile(profiles[i])
  BY <1>1, <1>3 DEF ContextTypes
<1>6. \A i \in 1 .. (n + 1) : \E q : q = profiles'[i] /\ IsProfile(q)
  <2> TAKE i \in 1 .. (n + 1)
  <2>1. CASE i \in 1 .. n
    <3>1. PICK q : q = profiles[i] /\ IsProfile(q)
      BY <1>5, <2>1
    <3> QED BY <3>1, <2>1, <1>4
  <2>2. CASE i = n + 1
    BY <2>2, <1>4
  <2> QED BY <1>3, <2>1, <2>2
<1>7. /\ currentProfile' \in [Managers -> 0 .. (n + 1)]
      /\ customProfiles' \in [Managers -> [ProfileNames -> 0 .. (n + 1)]]
  <2>1. p.name \in ProfileNames
    BY DEF IsProfile
  <2>2. customProfiles' = [customProfiles EXCEPT ![m][p.name] = n + 1]
    BY <1>3 DEF Define
  <2>3. /\ currentProfile \in [Managers -> 0 .. n]
        /\ customProfiles \in [Managers -> [ProfileNames -> 0 .. n]]
    BY <1>1, <1>3 DEF ContextTypes
  <2>4. customProfiles \in [Managers -> [ProfileNames -> 0 .. (n + 1)]]
    BY <2>3, <1>3
  <2>5. n + 1 \in 0 .. (n + 1)
    BY <1>3
  <2> QED BY <1>1, <1>3, <2>1, <2>2, <2>3, <2>4, <2>5
<1>8. ContextTypes'
  <2>1. \E T : profiles' \in Seq(T)
    BY <1>4
  <2>2. (\A i \in 1 .. Len(profiles) : IsProfile(profiles[i]))'
    <3> SUFFICES ASSUME NEW i \in 1 .. (n + 1) PROVE IsProfile(profiles[i])'
      BY <1>4
    <3>1. PICK q : q = profiles'[i] /\ IsProfile(q)
      BY <1>6
    <3> QED BY <3>1 DEF IsProfile
  <2>3. Len(profiles') \in 1 .. MaxProfiles
    BY <1>3, <1>4
  <2> QED BY <1>1, <1>4, <1>7, <2>1, <2>2, <2>3 DEF ContextTypes
<1>9. NotChosen'
  BY <1>1, <1>3, <1>4 DEF NotChosen
<1>10. UsageExact'
  <2>1. p.usage \in Nat
    BY DEF IsProfile
  <2>2. uses[n + 1] = 0
    BY <1>1, <1>3 DEF NotChosen
  <2>3. \A q \in 1 .. (n + 1) : profiles'[q].usage >= uses[q]
    <3> TAKE q \in 1 .. (n + 1)
    <3>1. q \in 1 .. n \/ q = n + 1
      BY <1>3
    <3>2. q \in 1 .. n => profiles[q].usage >= uses[q]
      BY <1>1, <1>4 DEF UsageExact
    <3> QED BY <3>1, <3>2, <1>4, <2>1, <2>2
  <2>4. profiles'[1].usage = uses[1]
    BY <1>1, <1>3, <1>4 DEF UsageExact
  <2> QED BY <1>1, <1>4, <2>3, <2>4 DEF UsageExact
<1>11. ContextFresh'
  BY <1>1, <1>3, <1>4, FreshStays
<1> QED BY <1>8, <1>9, <1>10, <1>11 DEF ContextInv, ContextSound

LEMMA ContextInductive ==
  ASSUME ContextInv, [ContextNext]_ctxVars
  PROVE  ContextInv'
<1>1. CASE UNCHANGED ctxVars
  BY <1>1, ContextStutters
<1>2. ASSUME NEW m \in Managers, NEW name \in ProfileNames, NEW made,
             CreateProfile(m, name, made)
      PROVE  ContextInv'
  <2>1. PICK t : Define(m, [name |-> name, weight |-> SumSet(made) \div Cardinality(made),
                            temperature |-> Temperature(t), usage |-> 0])
    BY <1>2 DEF CreateProfile
  <2>2. PICK p, w, u : /\ p = [name |-> name, weight |-> w, temperature |-> u, usage |-> 0]
                       /\ Define(m, p)
    BY <2>1
  <2>3. IsProfile(p)
    BY <2>2 DEF IsProfile
  <2> QED BY <2>2, <2>3, ContextDefines
<1>3. ASSUME NEW m \in Managers, NEW p \in DOMAIN profiles, ImportProfile(m, p)
      PROVE  ContextInv'
  <2>1. PICK q : q = profiles[p] /\ Define(m, q)
    BY <1>3 DEF ImportProfile
  <2>2. IsProfile(q)
    BY <2>1, LenProperties DEF ContextInv, ContextTypes
  <2> QED BY <2>1, <2>2, ContextDefines
<1>4. CASE ContextNext
  BY <1>4, <1>2, <1>3, ContextChooses, ContextGrows, ContextMade
     DEF ContextNext, AdjustProjection, DetectDrift
<1> QED BY <1>1, <1>4

-----------------------------------------------------------------------------
(***************************************************************************)
(* setup.py.                                                               *)
(***************************************************************************)
OneKeyEach(d) == \A i, j \in DOMAIN d : d[i].key = d[j].key => i = j
Dicts == {d \in Seq(Assignments) : OneKeyEach(d)}

\* Settings are the lines that have a key of the program's.
LEMMA LinesAre ==
  /\ Comment.key \notin EnvKeys /\ Junk.key \notin EnvKeys
  /\ \A l \in Lines : l.key \in EnvKeys => l \in Assignments /\ l.val \in EnvValues
  /\ \A l \in Assignments : l \in Lines /\ l.key \in EnvKeys /\ l.val \in EnvValues
  /\ \A l \in Assignments : l # Comment /\ l # Junk
  /\ \A k \in EnvKeys, v \in EnvValues : [key |-> k, val |-> v] \in Assignments
<1>1. Comment.key \notin EnvKeys /\ Junk.key \notin EnvKeys
  BY DEF Comment, Junk, EnvKeys
<1>2. \A l \in Assignments : l.key \in EnvKeys /\ l.val \in EnvValues
  BY DEF Assignments
<1>3. \A l \in Assignments : l # Comment /\ l # Junk
  BY <1>1, <1>2
<1>4. \A k \in EnvKeys, v \in EnvValues : [key |-> k, val |-> v] \in Assignments
  BY DEF Assignments
<1>5. \A l \in Lines : l \in Assignments \/ l = Comment \/ l = Junk
  BY DEF Lines
<1>6. \A l \in Assignments : l \in Lines
  BY DEF Lines
<1> QED BY <1>1, <1>2, <1>3, <1>4, <1>5, <1>6

LEMMA ValueIs ==
  ASSUME NEW d \in Dicts, NEW i \in DOMAIN d
  PROVE  d[i].key \in KeysIn(d) /\ ValueIn(d, d[i].key) = d[i].val
<1>1. PICK j : j = CHOOSE m \in DOMAIN d : d[m].key = d[i].key
  OBVIOUS
<1>2. j \in DOMAIN d /\ d[j].key = d[i].key
  BY <1>1
<1>3. j = i
  BY <1>2 DEF Dicts, OneKeyEach
<1> QED BY <1>1, <1>3 DEF KeysIn, ValueIn

LEMMA SettingsAre ==
  ASSUME NEW d \in Dicts
  PROVE  /\ DOMAIN d = 1 .. Len(d) /\ Len(d) \in Nat
         /\ \A i \in DOMAIN d : d[i] \in Assignments /\ d[i].key \in EnvKeys /\ d[i].val \in EnvValues
         /\ KeysIn(d) \subseteq EnvKeys
         /\ \A k \in KeysIn(d) : ValueIn(d, k) \in EnvValues
<1>1. /\ DOMAIN d = 1 .. Len(d) /\ Len(d) \in Nat
      /\ \A i \in DOMAIN d : d[i] \in Assignments
  BY LenProperties DEF Dicts
<1>2. \A i \in DOMAIN d : d[i].key \in EnvKeys /\ d[i].val \in EnvValues
  BY <1>1, LinesAre
<1>3. \A k \in KeysIn(d) : ValueIn(d, k) \in EnvValues
  <2> TAKE k \in KeysIn(d)
  <2>1. PICK i \in DOMAIN d : d[i].key = k
    BY DEF KeysIn
  <2> QED BY <2>1, <1>2, ValueIs
<1> QED BY <1>1, <1>2, <1>3 DEF KeysIn

\* The last of some positions.
LEMMA LastPosition ==
  ASSUME NEW n \in Nat, NEW I \in SUBSET (1 .. n), I # {}
  PROVE  \E i \in I : \A j \in I : j <= i
<1> DEFINE T == {n - i : i \in I}
<1>1. T \in SUBSET Nat /\ T # {}
  <2>1. \A i \in I : n - i \in Nat
    OBVIOUS
  <2> QED BY <2>1
<1>2. PICK t \in T : \A x \in T : t <= x
  BY <1>1, NatLeast
<1>3. PICK i \in I : t = n - i
  BY <1>2
<1>4. ASSUME NEW j \in I PROVE j <= i
  <2>1. n - j \in T
    OBVIOUS
  <2>2. n - i <= n - j
    BY <2>1, <1>2, <1>3
  <2> QED BY <2>2
<1> QED BY <1>4

LEMMA FirstPosition ==
  ASSUME NEW n \in Nat, NEW I \in SUBSET (1 .. n), I # {}
  PROVE  \E i \in I : \A j \in I : i <= j
<1>1. I \in SUBSET Nat
  OBVIOUS
<1> QED BY <1>1, NatLeast

\* What load_env returns: every key of the file, once, with the value of one of its lines.
LEMMA LoadIs ==
  ASSUME NEW file \in Seq(Lines)
  PROVE  /\ LoadEnv(file) \in Dicts
         /\ \A i \in DOMAIN file : file[i] \in Assignments => file[i].key \in KeysIn(LoadEnv(file))
         /\ \A k \in KeysIn(LoadEnv(file)) :
              \E i \in DOMAIN file : file[i].key = k /\ ValueIn(LoadEnv(file), k) = file[i].val
<1>1. PICK I : I = FirstLines(file)
  OBVIOUS
<1>2. PICK n \in Nat : n = Len(file) /\ DOMAIN file = 1 .. n /\ \A i \in 1 .. n : file[i] \in Lines
  BY LenProperties
<1>3. I \in SUBSET (1 .. n) /\ I \in SUBSET (DOMAIN file)
  BY <1>1, <1>2 DEF FirstLines
<1>4. PICK lines : lines = Keeping(file, I)
  OBVIOUS
<1>5. /\ \A i \in I : file[i] \in Lines
      /\ Cardinality(I) \in Nat
  <2>1. \A i \in I : file[i] \in Lines
    BY <1>2, <1>3
  <2> QED BY <2>1, <1>3, KeepingIs
<1> DEFINE c == Cardinality(I)
<1>6. /\ DOMAIN lines = 1 .. c
      /\ \A k \in 1 .. c : Nth(I, k) \in I /\ lines[k] = file[Nth(I, k)]
      /\ \A k, l \in 1 .. c : k < l => Nth(I, k) < Nth(I, l)
  <2>1. /\ DOMAIN Keeping(file, I) = 1 .. c
        /\ \A k \in 1 .. c : Nth(I, k) \in I /\ Keeping(file, I)[k] = file[Nth(I, k)]
        /\ \A k, l \in 1 .. c : k < l => Nth(I, k) < Nth(I, l)
    BY <1>3, <1>5, KeepingIs, Zenon
  <2> QED BY <1>4, <2>1
<1>16. c \in Nat /\ c = Cardinality(I)
  BY <1>5
<1> HIDE DEF c
<1>7. \A i \in I : /\ file[i] \in Assignments /\ file[i] \in Lines /\ file[i].key \in EnvKeys
                   /\ \A j \in 1 .. (i - 1) : file[j].key # file[i].key
  <2>1. \A i \in I : file[i] \in Assignments /\ \A j \in 1 .. (i - 1) : file[j].key # file[i].key
    BY <1>1 DEF FirstLines
  <2>2. \A i \in I : file[i] \in Lines
    BY <1>2, <1>3
  <2> QED BY <2>1, <2>2, LinesAre
<1>8. ASSUME NEW i \in DOMAIN file
      PROVE  \E j \in DOMAIN file : file[j].key = file[i].key /\ LastValue(file, file[i].key) = file[j].val
  <2> DEFINE K == {j \in 1 .. n : file[j].key = file[i].key}
  <2>1. K \in SUBSET (1 .. n) /\ i \in K
    BY <1>2
  <2>2. \E m \in K : \A j \in K : j <= m
    BY <2>1, LastPosition
  <2>3. \E m \in DOMAIN file : /\ file[m].key = file[i].key
                               /\ \A j \in DOMAIN file : file[j].key = file[i].key => j <= m
    BY <2>2, <1>2
  <2> QED BY <2>3 DEF LastValue
<1>9. PICK d : d = LoadEnv(file)
  OBVIOUS
<1>10. d = [k \in 1 .. c |-> [key |-> lines[k].key, val |-> LastValue(file, lines[k].key)]]
  BY <1>1, <1>4, <1>6, <1>9 DEF LoadEnv
<1>11. ASSUME NEW k \in 1 .. c
       PROVE  /\ d[k].key = file[Nth(I, k)].key /\ d[k].val = LastValue(file, d[k].key)
              /\ d[k] \in Assignments
  <2>1. PICK i \in I : i = Nth(I, k) /\ lines[k] = file[i]
    BY <1>6
  <2>2. /\ d[k] = [key |-> file[i].key, val |-> LastValue(file, file[i].key)]
        /\ file[i].key \in EnvKeys
    BY <2>1, <1>7, <1>10
  <2>3. PICK j \in DOMAIN file : file[j].key = file[i].key /\ LastValue(file, file[i].key) = file[j].val
    BY <1>3, <1>8
  <2>4. file[j].val \in EnvValues
    BY <2>2, <2>3, <1>2, LinesAre
  <2>5. d[k] \in Assignments
    BY <2>2, <2>3, <2>4, LinesAre
  <2> QED BY <2>1, <2>2, <2>5
<1>12. DOMAIN d = 1 .. c /\ d \in Seq(Assignments)
  <2>1. d \in [1 .. c -> Assignments]
    BY <1>10, <1>11
  <2> QED BY <2>1, <1>16, SeqDef
<1>13. d \in Dicts
  <2>1. ASSUME NEW k \in 1 .. c, NEW l \in 1 .. c, d[k].key = d[l].key, k < l PROVE FALSE
    <3>1. PICK i \in I, j \in I : i = Nth(I, k) /\ j = Nth(I, l) /\ i < j
      BY <2>1, <1>6
    <3>2. file[i].key = file[j].key
      BY <2>1, <3>1, <1>11
    <3>3. i \in 1 .. (j - 1)
      BY <3>1, <1>3
    <3> QED BY <3>2, <3>3, <1>7
  <2>2. OneKeyEach(d)
    BY <2>1, <1>12 DEF OneKeyEach
  <2> QED BY <2>2, <1>12 DEF Dicts
<1>14. ASSUME NEW i \in DOMAIN file, file[i] \in Assignments
       PROVE  file[i].key \in KeysIn(d)
  <2> DEFINE K == {j \in 1 .. n : file[j].key = file[i].key}
  <2>1. K \in SUBSET (1 .. n) /\ i \in K
    BY <1>2
  <2>2. PICK m \in K : \A j \in K : m <= j
    BY <2>1, FirstPosition
  <2>3. file[m] \in Assignments
    BY <1>14, <1>2, <2>2, LinesAre
  <2>4. m \in I
    BY <2>2, <2>3, <1>1, <1>2 DEF FirstLines
  <2>5. PICK k \in 1 .. c : Nth(I, k) = m
    BY <2>4, <1>2, <1>3, <1>16, NthOrder
  <2>6. d[k].key = file[i].key
    BY <2>2, <2>5, <1>11
  <2> QED BY <2>5, <2>6, <1>12 DEF KeysIn
<1>15. ASSUME NEW k \in KeysIn(d)
       PROVE  \E i \in DOMAIN file : file[i].key = k /\ ValueIn(d, k) = file[i].val
  <2>1. PICK l \in 1 .. c : d[l].key = k
    BY <1>12 DEF KeysIn
  <2>2. ValueIn(d, k) = d[l].val
    BY <2>1, <1>12, <1>13, ValueIs
  <2>3. PICK i \in DOMAIN file : file[i].key = k
    BY <2>1, <1>3, <1>6, <1>11
  <2> QED BY <2>1, <2>2, <2>3, <1>8, <1>11
<1> QED BY <1>9, <1>13, <1>14, <1>15

\* The dict stays one.
LEMMA AssignKeeps ==
  ASSUME NEW d \in Dicts, NEW k \in EnvKeys, NEW v \in EnvValues
  PROVE  Assign(d, k, v) \in Dicts
<1>1. PICK n \in Nat : n = Len(d) /\ DOMAIN d = 1 .. n /\ \A i \in 1 .. n : d[i] \in Assignments
  BY SettingsAre
<1>2. PICK e : e = [key |-> k, val |-> v] /\ e \in Assignments /\ e.key = k
  <2>1. [key |-> k, val |-> v] \in Assignments /\ [key |-> k, val |-> v].key = k
    BY LinesAre
  <2> QED BY <2>1
<1>3. PICK a : a = Assign(d, k, v)
  OBVIOUS
<1>4. CASE k \in KeysIn(d)
  <2>1. a = [i \in 1 .. n |-> IF d[i].key = k THEN e ELSE d[i]]
    BY <1>1, <1>2, <1>3, <1>4 DEF Assign
  <2>2. a \in Seq(Assignments) /\ DOMAIN a = 1 .. n
    BY <2>1, <1>1, <1>2, SeqDef
  <2>3. \A i \in 1 .. n : a[i].key = d[i].key
    BY <2>1, <1>2
  <2> QED BY <1>1, <1>3, <2>2, <2>3 DEF Dicts, OneKeyEach
<1>5. CASE k \notin KeysIn(d)
  <2>1. a = Append(d, e) /\ d \in Seq(Assignments)
    BY <1>2, <1>3, <1>5 DEF Assign, Dicts
  <2>2. /\ a \in Seq(Assignments) /\ DOMAIN a = 1 .. (n + 1)
        /\ \A i \in 1 .. n : a[i] = d[i]
        /\ a[n + 1] = e
    BY <2>1, <1>1, <1>2, AppendProperties, LenProperties
  <2>3. \A i \in 1 .. n : d[i].key # k
    BY <1>1, <1>5 DEF KeysIn
  <2>4. ASSUME NEW i \in 1 .. (n + 1), NEW j \in 1 .. (n + 1), a[i].key = a[j].key
        PROVE  i = j
    <3>1. CASE i \in 1 .. n /\ j \in 1 .. n
      BY <3>1, <2>2, <2>4, <1>1 DEF Dicts, OneKeyEach
    <3>2. CASE i = n + 1 /\ j \in 1 .. n
      BY <3>2, <2>2, <2>3, <2>4, <1>2
    <3>3. CASE j = n + 1 /\ i \in 1 .. n
      BY <3>3, <2>2, <2>3, <2>4, <1>2
    <3> QED BY <3>1, <3>2, <3>3
  <2> QED BY <1>3, <2>2, <2>4 DEF Dicts, OneKeyEach
<1> QED BY <1>4, <1>5

LEMMA DelKeeps ==
  ASSUME NEW d \in Dicts, NEW k
  PROVE  Del(d, k) \in Dicts
<1>1. PICK I : I = {i \in DOMAIN d : d[i].key # k}
  OBVIOUS
<1>2. /\ I \in SUBSET (DOMAIN d) /\ d \in Seq(Assignments)
      /\ \A i \in I : d[i] \in Assignments
  BY <1>1, SettingsAre DEF Dicts
<1>3. PICK a : a = Keeping(d, I)
  OBVIOUS
<1>4. PICK c : c = Cardinality(I) /\ c \in Nat
  BY <1>2, KeepingIs
<1>5. /\ a \in Seq(Assignments) /\ DOMAIN a = 1 .. c
      /\ \A l \in 1 .. c : Nth(I, l) \in I /\ a[l] = d[Nth(I, l)]
      /\ \A l, m \in 1 .. c : l < m => Nth(I, l) < Nth(I, m)
  BY <1>2, <1>3, <1>4, KeepingIs
<1>6. ASSUME NEW l \in 1 .. c, NEW m \in 1 .. c, a[l].key = a[m].key, l < m PROVE FALSE
  <2>1. PICK i \in I, j \in I : i = Nth(I, l) /\ j = Nth(I, m) /\ i < j /\ d[i].key = d[j].key
    BY <1>5, <1>6
  <2>2. i \in DOMAIN d /\ j \in DOMAIN d /\ i \in Int /\ j \in Int
    BY <1>2, SettingsAre
  <2>3. i = j
    BY <2>1, <2>2 DEF Dicts, OneKeyEach
  <2> QED BY <2>1, <2>2, <2>3
<1>7. OneKeyEach(a)
  BY <1>4, <1>5, <1>6 DEF OneKeyEach
<1> QED BY <1>1, <1>3, <1>5, <1>7 DEF Dicts, Del

LEMMA GetIs ==
  ASSUME NEW d \in Dicts, NEW k, NEW default \in EnvValues
  PROVE  Get(d, k, default) \in EnvValues
BY SettingsAre DEF Get, EnvValues

LEMMA KeptAre ==
  ASSUME NEW file \in Seq(Lines)
  PROVE  KeptLines(file) \in Seq(Lines)
<1>1. PICK I : I = {i \in DOMAIN file : file[i] # Junk}
  OBVIOUS
<1>2. I \in SUBSET (DOMAIN file) /\ \A i \in I : file[i] \in Lines
  BY <1>1, LenProperties
<1> QED BY <1>1, <1>2, KeepingIs DEF KeptLines

\* What save_env writes: the lines it goes by, with values of the dict, and then
\* its other keys.
LEMMA SavedIs ==
  ASSUME envFile \in Seq(Lines), env \in Dicts
  PROVE  /\ SavedEnv \in Seq(Lines) /\ Len(SavedEnv) >= Len(KeptLines(envFile))
         /\ \A i \in DOMAIN KeptLines(envFile) : SavedEnv[i].key = KeptLines(envFile)[i].key
         /\ \A k \in KeysIn(env) : \E i \in DOMAIN SavedEnv : SavedEnv[i].key = k
         /\ \A i \in DOMAIN SavedEnv :
              SavedEnv[i].key \in KeysIn(env) => SavedEnv[i].val = ValueIn(env, SavedEnv[i].key)
<1>0. PICK kept : kept = KeptLines(envFile) /\ kept \in Seq(Lines)
  BY KeptAre
<1>1. PICK n \in Nat : n = Len(kept) /\ DOMAIN kept = 1 .. n /\ \A i \in 1 .. n : kept[i] \in Lines
  BY <1>0, LenProperties
<1>2. PICK head : head = [i \in DOMAIN kept |-> SavedLine(kept, i)]
  OBVIOUS
<1>3. ASSUME NEW i \in 1 .. n
      PROVE  /\ SavedLine(kept, i) \in Lines /\ SavedLine(kept, i).key = kept[i].key
             /\ kept[i].key \in KeysIn(env) => SavedLine(kept, i).val = ValueIn(env, kept[i].key)
  <2>1. CASE kept[i].key \in KeysIn(env)
    <3>1. kept[i].key \in EnvKeys /\ ValueIn(env, kept[i].key) \in EnvValues
      BY <2>1, SettingsAre
    <3>2. kept[i] \in Assignments
      BY <3>1, <1>1, LinesAre
    <3>3. SavedLine(kept, i) = [kept[i] EXCEPT !.val = ValueIn(env, kept[i].key)]
      BY <2>1 DEF SavedLine
    <3>4. /\ SavedLine(kept, i) \in Assignments
          /\ SavedLine(kept, i).key = kept[i].key /\ SavedLine(kept, i).val = ValueIn(env, kept[i].key)
      BY <3>1, <3>2, <3>3 DEF Assignments
    <3> QED BY <3>4, LinesAre
  <2>2. CASE kept[i].key \notin KeysIn(env)
    BY <2>2, <1>1 DEF SavedLine
  <2> QED BY <2>1, <2>2
<1>4. head \in Seq(Lines) /\ Len(head) = n /\ DOMAIN head = 1 .. n /\ \A i \in 1 .. n : head[i] = SavedLine(kept, i)
  <2>1. head \in [1 .. n -> Lines]
    BY <1>1, <1>2, <1>3
  <2>2. head \in Seq(Lines)
    BY <2>1, SeqDef
  <2> QED BY <1>1, <1>2, <2>1, <2>2, LenProperties
<1>5. PICK I : I = {i \in DOMAIN env : env[i].key \notin KeysIn(kept)}
  OBVIOUS
<1>6. /\ I \in SUBSET (DOMAIN env) /\ env \in Seq(Assignments)
      /\ \A i \in I : env[i] \in Lines
  BY <1>5, SettingsAre, LinesAre DEF Dicts
<1>7. PICK tail : tail = Keeping(env, I)
  OBVIOUS
<1>8. PICK c : c = Cardinality(I) /\ c \in Nat
  BY <1>6, KeepingIs
<1>9. /\ tail \in Seq(Lines) /\ DOMAIN tail = 1 .. c /\ Len(tail) = c
      /\ \A l \in 1 .. c : Nth(I, l) \in I /\ tail[l] = env[Nth(I, l)]
  BY <1>6, <1>7, <1>8, KeepingIs
<1>10. PICK all : all = SavedEnv /\ all = head \o tail
  BY <1>0, <1>2, <1>5, <1>7 DEF SavedEnv
<1>11. /\ all \in Seq(Lines) /\ Len(all) = n + c /\ DOMAIN all = 1 .. (n + c)
       /\ \A i \in 1 .. (n + c) : all[i] = IF i <= n THEN head[i] ELSE tail[i - n]
  <2>1. /\ all \in Seq(Lines) /\ Len(all) = Len(head) + Len(tail)
        /\ \A i \in 1 .. Len(head) + Len(tail) :
             all[i] = IF i <= Len(head) THEN head[i] ELSE tail[i - Len(head)]
    <3>1. head \in Seq(Lines) /\ tail \in Seq(Lines) /\ all = head \o tail
      BY <1>4, <1>9, <1>10
    <3> QED BY ONLY <3>1, ConcatProperties, Zenon
  <2>2. DOMAIN all = 1 .. Len(all)
    BY <2>1, LenProperties
  <2> QED BY <2>1, <2>2, <1>4, <1>9
<1>12. ASSUME NEW k \in KeysIn(env)
       PROVE  \E i \in 1 .. (n + c) : all[i].key = k
  <2>1. PICK j \in DOMAIN env : env[j].key = k
    BY DEF KeysIn
  <2>2. CASE k \in KeysIn(kept)
    <3>1. PICK i \in 1 .. n : kept[i].key = k
      BY <2>2, <1>1 DEF KeysIn
    <3>2. i \in 1 .. (n + c) /\ all[i] = SavedLine(kept, i)
      BY <1>4, <1>8, <1>11
    <3> QED BY <3>1, <3>2, <1>3
  <2>3. CASE k \notin KeysIn(kept)
    <3>1. j \in I
      BY <1>5, <2>1, <2>3
    <3>2. PICK m \in Nat : DOMAIN env = 1 .. m
      BY SettingsAre
    <3>3. PICK l \in 1 .. c : Nth(I, l) = j
      BY <3>1, <3>2, <1>6, <1>8, NthOrder
    <3>4. n + l \in 1 .. (n + c) /\ ~(n + l <= n) /\ (n + l) - n = l
      BY <1>8
    <3>5. all[n + l] = env[j]
      BY <3>3, <3>4, <1>9, <1>11
    <3> QED BY <2>1, <3>4, <3>5
  <2> QED BY <2>2, <2>3
<1>13. ASSUME NEW i \in 1 .. (n + c), all[i].key \in KeysIn(env)
       PROVE  all[i].val = ValueIn(env, all[i].key)
  <2>1. CASE i <= n
    <3>1. i \in 1 .. n /\ all[i] = SavedLine(kept, i)
      BY <2>1, <1>4, <1>8, <1>11
    <3> QED BY <3>1, <1>3, <1>13
  <2>2. CASE ~(i <= n)
    <3>1. i - n \in 1 .. c /\ all[i] = tail[i - n]
      BY <2>2, <1>8, <1>11
    <3>2. PICK j \in I : all[i] = env[j]
      BY <3>1, <1>9
    <3> QED BY <3>2, <1>6, ValueIs
  <2> QED BY <2>1, <2>2
<1>14. \A i \in DOMAIN kept : all[i].key = kept[i].key
  <2> TAKE i \in DOMAIN kept
  <2>1. i \in 1 .. n /\ i \in 1 .. (n + c) /\ i <= n
    BY <1>1, <1>8
  <2> QED BY <2>1, <1>3, <1>4, <1>11
<1>15. Len(all) >= Len(kept)
  BY <1>1, <1>8, <1>11
<1> QED BY <1>0, <1>10, <1>11, <1>12, <1>13, <1>14, <1>15

ComposeParts ==
  /\ compose = lastWhole \/ compose = Torn
  /\ menuAt = "copied" => backup = compose
  /\ ComposeRecoverable

SetupInv ==
  /\ SetupTypeOK /\ SavedIsLoaded /\ LinesKept /\ ComposeParts
  /\ menuAt \in {"menu", "copied"} => loadedFrom = envFile

LEMMA SetupEnv ==
  ASSUME SetupInv
  PROVE  /\ env \in Dicts /\ envFile \in Seq(Lines) /\ loadedFrom \in Seq(Lines)
         /\ \A d \in Dicts : d \in Seq(Assignments) /\ \A i, j \in DOMAIN d : d[i].key = d[j].key => i = j
BY DEF SetupInv, SetupTypeOK, Dicts, OneKeyEach

LEMMA SetupStarts ==
  ASSUME SetupInit
  PROVE  SetupInv
<1>1. /\ envFile \in Seq(Lines) /\ MaxMenu \in Nat /\ MaxSetups \in Nat
  BY SetupAssumption DEF SetupInit
<1>2. /\ <<>> \in Seq(Lines) /\ <<>> \in Seq(Assignments)
      /\ \A i, j \in DOMAIN << >> : i = j
  OBVIOUS
<1>3. /\ Shipped \in [DockerKeys -> EnvValues \cup {"shipped", "torn", "none"}]
      /\ Nothing \in [DockerKeys -> EnvValues \cup {"shipped", "torn", "none"}]
  BY DEF Shipped, Nothing
<1>4. SetupTypeOK
  <2>1. envFile \in Seq(Lines) /\ loadedFrom \in Seq(Lines) /\ env \in Seq(Assignments)
    BY <1>1, <1>2 DEF SetupInit
  <2>2. \A i, j \in DOMAIN env : env[i].key = env[j].key => i = j
    BY <1>2 DEF SetupInit
  <2>3. menuChoices \in 0 .. MaxMenu /\ setups \in 0 .. MaxSetups
    BY <1>1 DEF SetupInit
  <2> QED BY <1>3, <2>1, <2>2, <2>3 DEF SetupInit, SetupTypeOK
<1>5. SavedIsLoaded /\ LinesKept /\ ComposeParts
  BY DEF SetupInit, SavedIsLoaded, LinesKept, ComposeParts, ComposeRecoverable
<1> QED BY <1>4, <1>5 DEF SetupInv, SetupInit

LEMMA SetupStutters ==
  ASSUME SetupInv, UNCHANGED setupVars
  PROVE  SetupInv'
BY DEF setupVars, SetupInv, SetupTypeOK, SavedIsLoaded, LinesKept, ComposeParts, ComposeRecoverable

\* A choice of the menu that changes the dict and nothing else.
LEMMA SetupEnvSet ==
  ASSUME SetupInv, Chosen, Elsewhere, env' \in Dicts
  PROVE  SetupInv'
<1>1. SetupTypeOK'
  <2>1. /\ env' \in Seq(Assignments)
        /\ \A i, j \in DOMAIN env' : env'[i].key = env'[j].key => i = j
    BY DEF Dicts, OneKeyEach
  <2>2. menuChoices' \in 0 .. MaxMenu
    BY SetupAssumption DEF Chosen, SetupInv, SetupTypeOK
  <2> QED BY <2>1, <2>2 DEF SetupInv, SetupTypeOK, Elsewhere
<1>2. SavedIsLoaded' /\ LinesKept'
  BY DEF Chosen, Elsewhere, SavedIsLoaded, LinesKept
<1>3. ComposeParts' /\ (menuAt \in {"menu", "copied"} => loadedFrom = envFile)'
  BY DEF SetupInv, Elsewhere, ComposeParts, ComposeRecoverable
<1> QED BY <1>1, <1>2, <1>3 DEF SetupInv

LEMMA SetupLoads ==
  ASSUME SetupInv, StartSetup
  PROVE  SetupInv'
<1>1. env' \in Dicts
  BY SetupEnv, LoadIs DEF StartSetup
<1>2. SetupTypeOK'
  <2>1. /\ env' \in Seq(Assignments)
        /\ \A i, j \in DOMAIN env' : env'[i].key = env'[j].key => i = j
    BY <1>1 DEF Dicts, OneKeyEach
  <2>2. setups' \in 0 .. MaxSetups
    BY SetupAssumption DEF StartSetup, SetupInv, SetupTypeOK
  <2> QED BY <2>1, <2>2 DEF StartSetup, SetupInv, SetupTypeOK
<1>3. SavedIsLoaded' /\ LinesKept'
  BY DEF StartSetup, SavedIsLoaded, LinesKept
<1>4. ComposeParts' /\ (menuAt \in {"menu", "copied"} => loadedFrom = envFile)'
  BY DEF SetupInv, StartSetup, ComposeParts, ComposeRecoverable
<1> QED BY <1>2, <1>3, <1>4 DEF SetupInv

LEMMA SetupSettings ==
  ASSUME SetupInv,
         \/ ConfigureService \/ ConfigureEmbedding \/ ConfigureApiKeys
         \/ ConfigurePythonSdk \/ ConfigureExperiment
  PROVE  SetupInv'
<1>1. env \in Dicts
  BY SetupEnv
<1>2. /\ {"", "memory", "mock", "d", "v"} \subseteq EnvValues
      /\ {"port", "store", "embed", "embedKey", "w", "api", "host", "rounds"} \subseteq EnvKeys
  BY DEF EnvValues, EnvKeys
<1>3. \A k : \A default \in {"", "d", "mock"} : Get(env, k, default) \in EnvValues
  BY <1>1, <1>2, GetIs
<1>4. \A d \in Dicts, k \in EnvKeys, v \in EnvValues : Assign(d, k, v) \in Dicts /\ Del(d, k) \in Dicts
  BY AssignKeeps, DelKeeps
<1>5. CASE ConfigureService
  <2>1. PICK p \in Replies(Get(env, "port", "d"), {"v"}), s \in EnvValues :
          env' = Assign(Assign(env, "port", p), "store", s)
    BY <1>2, <1>3, <1>5 DEF ConfigureService, Replies
  <2>2. p \in EnvValues
    BY <1>2, <1>3 DEF Replies
  <2>3. Assign(env, "port", p) \in Dicts
    BY <1>1, <1>2, <1>4, <2>2
  <2>4. env' \in Dicts
    BY <1>2, <1>4, <2>1, <2>3
  <2> QED BY <1>5, <2>4, SetupEnvSet DEF ConfigureService
<1>6. CASE ConfigureEmbedding
  <2>0. PICK m \in Replies(Get(env, "embed", "mock"), {"mock", "v"}),
             w \in Replies(Get(env, "w", ""), {"v"}), key \in Replies(Get(env, "embedKey", ""), {"v"}) :
          LET changed == IF m = "v" THEN Assign(Assign(env, "embed", m), "embedKey", key) ELSE Assign(env, "embed", m)
          IN env' = IF w # "" THEN Assign(changed, "w", w) ELSE Del(changed, "w")
    BY <1>6 DEF ConfigureEmbedding
  <2>7. m \in EnvValues /\ w \in EnvValues /\ key \in EnvValues
    BY <1>2, <1>3 DEF Replies
  <2>1. PICK new : /\ m \in EnvValues /\ w \in EnvValues /\ key \in EnvValues
          /\ new = (IF m = "v" THEN Assign(Assign(env, "embed", m), "embedKey", key)
                      ELSE Assign(env, "embed", m))
          /\ env' = IF w # "" THEN Assign(new, "w", w) ELSE Del(new, "w")
    BY <2>0, <2>7
  <2>2. Assign(env, "embed", m) \in Dicts
    BY <1>1, <1>2, <1>4, <2>1
  <2>3. Assign(Assign(env, "embed", m), "embedKey", key) \in Dicts
    BY <1>2, <1>4, <2>1, <2>2
  <2>4. new \in Dicts
    BY <2>1, <2>2, <2>3
  <2>5. Assign(new, "w", w) \in Dicts /\ Del(new, "w") \in Dicts
    BY <1>2, <1>4, <2>1, <2>4
  <2>6. env' \in Dicts
    BY <2>1, <2>5
  <2> QED BY <1>6, <2>6, SetupEnvSet DEF ConfigureEmbedding
<1>7. CASE ConfigureApiKeys
  <2>1. PICK v \in EnvValues : env' \in {Assign(env, "api", v), Del(env, "api"), env}
    BY <1>2, <1>3, <1>7 DEF ConfigureApiKeys, Replies
  <2>2. Assign(env, "api", v) \in Dicts /\ Del(env, "api") \in Dicts
    BY <1>1, <1>2, <1>4
  <2>3. env' \in Dicts
    BY <1>1, <2>1, <2>2
  <2> QED BY <1>7, <2>3, SetupEnvSet DEF ConfigureApiKeys
<1>8. CASE ConfigurePythonSdk
  <2>1. PICK v \in EnvValues : env' = Assign(env, "host", v)
    BY <1>2, <1>3, <1>8 DEF ConfigurePythonSdk, Replies
  <2>2. env' \in Dicts
    BY <1>1, <1>2, <1>4, <2>1
  <2> QED BY <1>8, <2>2, SetupEnvSet DEF ConfigurePythonSdk
<1>9. CASE ConfigureExperiment
  <2>1. PICK v \in EnvValues : env' = Assign(env, "rounds", v)
    BY <1>2, <1>3, <1>9 DEF ConfigureExperiment, Replies
  <2>2. env' \in Dicts
    BY <1>1, <1>2, <1>4, <2>1
  <2> QED BY <1>9, <2>2, SetupEnvSet DEF ConfigureExperiment
<1> QED BY <1>5, <1>6, <1>7, <1>8, <1>9

LEMMA SetupInstalls ==
  ASSUME SetupInv, ConfigureClaudeCode
  PROVE  SetupInv'
<1>1. PICK n \in 0 .. 3 : installed' = installed \cup {<<"mcp", "cli", "claude">>[i] : i \in 1 .. n}
  BY DEF ConfigureClaudeCode
<1>2. \A i \in 1 .. n : <<"mcp", "cli", "claude">>[i] \in {"mcp", "cli", "claude"}
  <2> TAKE i \in 1 .. n
  <2>1. i = 1 \/ i = 2 \/ i = 3
    OBVIOUS
  <2> QED BY <2>1
<1>3. installed' \subseteq {"mcp", "cli", "claude"}
  BY <1>1, <1>2 DEF SetupInv, SetupTypeOK
<1>4. menuChoices' \in 0 .. MaxMenu
  BY SetupAssumption DEF ConfigureClaudeCode, Chosen, SetupInv, SetupTypeOK
<1>5. SetupTypeOK'
  BY <1>3, <1>4 DEF ConfigureClaudeCode, SetupInv, SetupTypeOK
<1> QED BY <1>5 DEF ConfigureClaudeCode, SetupInv, SavedIsLoaded, LinesKept, ComposeParts,
                    ComposeRecoverable

LEMMA SetupCopies ==
  ASSUME SetupInv, CopyCompose
  PROVE  SetupInv'
<1>1. menuChoices' \in 0 .. MaxMenu
  BY SetupAssumption DEF CopyCompose, Chosen, SetupInv, SetupTypeOK
<1>2. SetupTypeOK'
  BY <1>1 DEF CopyCompose, SetupInv, SetupTypeOK
<1>3. ComposeParts'
  BY DEF CopyCompose, SetupInv, ComposeParts, ComposeRecoverable
<1> QED BY <1>2, <1>3 DEF CopyCompose, Chosen, SetupInv, SavedIsLoaded, LinesKept

LEMMA SetupWritesCompose ==
  ASSUME SetupInv, ConfigureDocker
  PROVE  SetupInv'
<1> DEFINE V == EnvValues \cup {"shipped", "torn", "none"}
<1>1. env \in Dicts /\ Torn \in [DockerKeys -> V]
  BY SetupEnv DEF Torn
<1>2. PICK a, b, c : /\ a = Get(env, "port", "d") /\ b = Get(env, "store", "memory")
                     /\ c = Get(env, "embed", "mock")
  OBVIOUS
<1>3. a \in V /\ b \in V /\ c \in V
  <2>1. "d" \in EnvValues /\ "memory" \in EnvValues /\ "mock" \in EnvValues
    BY DEF EnvValues
  <2> QED BY <1>1, <1>2, <2>1, GetIs
<1>4. [port |-> a, store |-> b, embed |-> c] \in [DockerKeys -> V]
  <2>1. [port |-> a, store |-> b, embed |-> c] =
          [k \in DockerKeys |-> IF k = "port" THEN a ELSE IF k = "store" THEN b ELSE c]
    BY DEF DockerKeys
  <2> QED BY <1>3, <2>1
<1>5. compose' \in [DockerKeys -> V] /\ lastWhole' \in [DockerKeys -> V]
  BY <1>1, <1>2, <1>4 DEF ConfigureDocker, SetupInv, SetupTypeOK
<1>6. SetupTypeOK'
  BY <1>5 DEF ConfigureDocker, SetupInv, SetupTypeOK
<1>7. ComposeParts'
  BY DEF ConfigureDocker, SetupInv, ComposeParts, ComposeRecoverable
<1> QED BY <1>6, <1>7 DEF ConfigureDocker, SetupInv, SavedIsLoaded, LinesKept

LEMMA SetupSaves ==
  ASSUME SetupInv, Save
  PROVE  SetupInv'
<1>1. /\ env \in Dicts /\ envFile \in Seq(Lines) /\ loadedFrom = envFile
      /\ envFile' = SavedEnv /\ env' = env
  BY SetupEnv DEF Save, SetupInv
<1>2. PICK new : new = SavedEnv
  OBVIOUS
<1>3. /\ new \in Seq(Lines) /\ Len(new) >= Len(KeptLines(envFile))
      /\ \A i \in DOMAIN KeptLines(envFile) : new[i].key = KeptLines(envFile)[i].key
      /\ \A k \in KeysIn(env) : \E i \in DOMAIN new : new[i].key = k
      /\ \A i \in DOMAIN new : new[i].key \in KeysIn(env) => new[i].val = ValueIn(env, new[i].key)
  BY <1>1, <1>2, SavedIs
<1>4. \A k \in KeysIn(env) : k \in KeysIn(LoadEnv(new)) /\ ValueIn(LoadEnv(new), k) = ValueIn(env, k)
  <2> TAKE k \in KeysIn(env)
  <2>1. PICK i \in DOMAIN new : new[i].key = k
    BY <1>3
  <2>2. k \in EnvKeys
    BY <1>1, SettingsAre
  <2>3. new[i] \in Assignments
    BY <1>3, <2>1, <2>2, LinesAre, LenProperties
  <2>4. k \in KeysIn(LoadEnv(new))
    BY <1>3, <2>1, <2>3, LoadIs
  <2>5. PICK j \in DOMAIN new : new[j].key = k /\ ValueIn(LoadEnv(new), k) = new[j].val
    BY <1>3, <2>4, LoadIs
  <2> QED BY <1>3, <2>4, <2>5
<1>5. SavedIsLoaded'
  <2>1. envFile' = new /\ env' = env
    BY <1>1, <1>2
  <2> QED BY <2>1, <1>4 DEF SavedIsLoaded
<1>6. LinesKept'
  BY <1>1, <1>2, <1>3 DEF LinesKept, Save
<1>7. SetupTypeOK'
  BY <1>1, <1>2, <1>3 DEF Save, SetupInv, SetupTypeOK
<1>8. ComposeParts'
  BY DEF Save, SetupInv, ComposeParts, ComposeRecoverable
<1> QED BY <1>5, <1>6, <1>7, <1>8 DEF SetupInv, Save

LEMMA SetupQuits ==
  ASSUME SetupInv, Quit
  PROVE  SetupInv'
<1>1. <<>> \in Seq(Assignments) /\ \A i, j \in DOMAIN << >> : i = j
  OBVIOUS
<1>2. SetupTypeOK'
  BY <1>1 DEF Quit, SetupInv, SetupTypeOK
<1> QED BY <1>2 DEF Quit, SetupInv, SavedIsLoaded, LinesKept, ComposeParts, ComposeRecoverable

LEMMA RemainsAre ==
  ASSUME NEW line \in Lines, NEW rest \in Remains(line)
  PROVE  rest \in Seq(Lines)
<1>1. Comment \in Lines /\ Junk \in Lines
  BY DEF Lines
<1>2. <<>> \in Seq(Lines)
  OBVIOUS
<1>3. \A l \in Lines : <<l>> \in Seq(Lines)
  OBVIOUS
<1>4. ASSUME NEW part \in {"", "cut"}, line # Comment, line.val # ""
      PROVE  [line EXCEPT !.val = part] \in Lines
  <2>1. line \in Assignments
    <3>1. Junk.val = ""
      BY DEF Junk
    <3> QED BY <1>4, <3>1 DEF Lines
  <2>2. part \in EnvValues
    BY DEF EnvValues
  <2>3. [line EXCEPT !.val = part] \in Assignments
    BY <2>1, <2>2 DEF Assignments
  <2> QED BY <2>3 DEF Lines
<1>5. CASE line = Comment
  <2>1. rest = <<>> \/ rest = <<Comment>>
    BY <1>5 DEF Remains
  <2> QED BY <1>1, <1>2, <1>3, <2>1
<1>6. CASE line # Comment
  <2>1. CASE line.val = ""
    <3>1. rest = <<>> \/ rest = <<Junk>>
      BY <1>6, <2>1 DEF Remains
    <3> QED BY <1>1, <1>2, <1>3, <3>1
  <2>2. CASE line.val # ""
    <3>1. \/ rest = <<>> \/ rest = <<Junk>>
          \/ rest \in {<<[line EXCEPT !.val = part]>> : part \in {"", "cut"}}
      BY <1>6, <2>2 DEF Remains
    <3>2. ASSUME rest \in {<<[line EXCEPT !.val = part]>> : part \in {"", "cut"}}
          PROVE  \E l \in Lines : rest = <<l>>
      BY <3>2, <1>4, <1>6, <2>2
    <3> QED BY <1>1, <1>2, <1>3, <3>1, <3>2
  <2> QED BY <2>1, <2>2
<1> QED BY <1>5, <1>6

LEMMA SetupKilled ==
  ASSUME SetupInv, KilledInSave \/ KilledInDocker
  PROVE  SetupInv'
<1>1. <<>> \in Seq(Assignments) /\ \A i, j \in DOMAIN << >> : i = j
  OBVIOUS
<1>2. CASE KilledInSave
  <2>1. SavedEnv \in Seq(Lines)
    BY SetupEnv, SavedIs
  <2>2. PICK n \in 0 .. (Len(SavedEnv) - 1) :
               \E rest \in Remains(SavedEnv[n + 1]) : envFile' = SubSeq(SavedEnv, 1, n) \o rest
    BY <1>2 DEF KilledInSave
  <2>5. PICK rest \in Remains(SavedEnv[n + 1]) : envFile' = SubSeq(SavedEnv, 1, n) \o rest
    BY <2>2
  <2>3. envFile' \in Seq(Lines)
    <3>1. SavedEnv[n + 1] \in Lines
      BY <2>1, LenProperties
    <3>2. rest \in Seq(Lines)
      BY <3>1, RemainsAre
    <3>3. SubSeq(SavedEnv, 1, n) \in Seq(Lines)
      BY <2>1, LenProperties, SubSeqProperties
    <3> QED BY <2>5, <3>2, <3>3, ConcatProperties
  <2>4. SetupTypeOK'
    BY <1>1, <1>2, <2>3 DEF KilledInSave, SetupInv, SetupTypeOK
  <2> QED BY <1>2, <2>4 DEF KilledInSave, SetupInv, SavedIsLoaded, LinesKept, ComposeParts, ComposeRecoverable
<1>3. CASE KilledInDocker
  <2>1. Torn \in [DockerKeys -> EnvValues \cup {"shipped", "torn", "none"}]
    BY DEF Torn
  <2>2. SetupTypeOK'
    BY <1>1, <1>3, <2>1 DEF KilledInDocker, SetupInv, SetupTypeOK
  <2>3. ComposeParts'
    BY <1>3 DEF KilledInDocker, SetupInv, ComposeParts, ComposeRecoverable
  <2> QED BY <1>3, <2>2, <2>3 DEF KilledInDocker, SetupInv, SavedIsLoaded, LinesKept
<1> QED BY <1>2, <1>3

LEMMA SetupInductive ==
  ASSUME SetupInv, [SetupNext]_setupVars
  PROVE  SetupInv'
<1>1. CASE UNCHANGED setupVars
  BY <1>1, SetupStutters
<1>2. CASE SetupNext
  BY <1>2, SetupLoads, SetupSettings, SetupInstalls, SetupCopies, SetupWritesCompose, SetupSaves,
     SetupQuits, SetupKilled DEF SetupNext
<1> QED BY <1>1, <1>2

LEMMA SetupInvSafe ==
  ASSUME SetupInv
  PROVE  SetupSound
BY DEF SetupInv, ComposeParts, SetupSound

-----------------------------------------------------------------------------
(***************************************************************************)
(* The calibration pipeline.                                               *)
(***************************************************************************)

\* The file a record goes behind: without the last line, if that has no newline.
Behind == IF lineEnd = "newline" THEN dataset ELSE Front(dataset)
OnceOnly(s) == \A i, j \in DOMAIN s : s[i] = s[j] /\ s[i] # Malformed => i = j

\* A text that is being scored is not in the file, and a clean file has all the
\* texts before it.
Scoring ==
  stage = "scoring" =>
    /\ ToSet(Behind) \ {Malformed} \subseteq existing \cup 1 .. (nextText - 1)
    /\ cleanStart => lineEnd = "newline" /\ existing \cup 1 .. (nextText - 1) \subseteq Records

\* What the programs of a whole run that did not fail have left to the next one.
Left ==
  /\ stage = "binary" => wNpy = [whole |-> TRUE, from |-> Records]
  /\ stage \in {"evaluate", "export", "complete"} /\ step = "all" /\ ~failed =>
       wNpy = [whole |-> TRUE, from |-> Records] /\ wBin = wNpy
  /\ stage = "complete" => ~failed
  /\ stage = "complete" /\ step = "all" => exported = wBin

CalInv ==
  /\ CalTypeOK /\ Scoring /\ Left
  /\ lineEnd # "newline" => dataset # <<>>
  /\ OnceOnly(dataset)
  /\ generated => stage \notin {"generate", "scoring"}
  /\ generated /\ cleanStart => Records = Texts

LEMMA AfterIs ==
  ASSUME step \in {"all"} \cup ToSet(Stages), NEW bad \in BOOLEAN
  PROVE  /\ After("generate", bad) \in {"train", "evaluate", "export", "complete", "incomplete"}
         /\ After("train", bad) \in {"evaluate", "export", "complete", "incomplete"}
         /\ After("evaluate", bad) \in {"export", "complete", "incomplete"}
         /\ After("export", bad) \in {"complete", "incomplete"}
         /\ step = "all" => /\ After("generate", bad) = "train" /\ After("train", bad) = "evaluate"
                            /\ After("evaluate", bad) = "export"
         /\ \A s \in ToSet(Stages) : After(s, bad) = "complete" => ~bad
<1> DEFINE later(s) == {i \in DOMAIN Stages :
              (\A j \in DOMAIN Stages : Stages[j] = s => j < i) /\ Wanted(Stages[i])}
<1>1. /\ DOMAIN Stages = 1 .. 4 /\ Stages[1] = "generate" /\ Stages[2] = "train"
      /\ Stages[3] = "evaluate" /\ Stages[4] = "export"
      /\ ToSet(Stages) = {"generate", "train", "evaluate", "export"}
      /\ \A i \in 1 .. 4 : i = 1 \/ i = 2 \/ i = 3 \/ i = 4
  <2>1. \A i \in 1 .. 4 : i = 1 \/ i = 2 \/ i = 3 \/ i = 4
    OBVIOUS
  <2>2. /\ DOMAIN Stages = 1 .. 4 /\ Stages[1] = "generate" /\ Stages[2] = "train"
        /\ Stages[3] = "evaluate" /\ Stages[4] = "export"
    BY DEF Stages
  <2>3. 1 \in 1 .. 4 /\ 2 \in 1 .. 4 /\ 3 \in 1 .. 4 /\ 4 \in 1 .. 4
    OBVIOUS
  <2>4. ToSet(Stages) = {"generate", "train", "evaluate", "export"}
    BY <2>1, <2>2, <2>3 DEF ToSet
  <2> QED BY <2>1, <2>2, <2>4
<1>2. ASSUME NEW s \in ToSet(Stages), NEW n \in 1 .. 4, Stages[n] = s
      PROVE  /\ later(s) \subseteq (n + 1) .. 4
             /\ step = "all" => later(s) = (n + 1) .. 4
             /\ later(s) # {} => \E i \in later(s) : After(s, bad) = Stages[i] /\ \A j \in later(s) : i <= j
             /\ later(s) = {} => After(s, bad) = IF bad THEN "incomplete" ELSE "complete"
  <2>1. later(s) \subseteq (n + 1) .. 4
    BY <1>1, <1>2
  <2>2. step = "all" => later(s) = (n + 1) .. 4
    <3>1. ASSUME step = "all", NEW i \in (n + 1) .. 4 PROVE i \in later(s)
      <4>1. i \in 2 .. 4 /\ i \in DOMAIN Stages /\ n < i
        BY <1>1, <3>1
      <4>2. Wanted(Stages[i])
        BY <1>1, <3>1, <4>1 DEF Wanted
      <4>3. \A j \in DOMAIN Stages : Stages[j] = s => j = n
        BY <1>1, <1>2
      <4> QED BY <4>1, <4>2, <4>3
    <3> QED BY <2>1, <3>1
  <2>3. later(s) # {} => \E i \in later(s) : After(s, bad) = Stages[i] /\ \A j \in later(s) : i <= j
    <3>1. ASSUME later(s) # {} PROVE \E i \in later(s) : \A j \in later(s) : i <= j
      <4>1. later(s) \in SUBSET (1 .. 4)
        BY <1>1
      <4> HIDE DEF later
      <4> QED BY <3>1, <4>1, FirstPosition
    <3>2. later(s) # {} => After(s, bad) = Stages[CHOOSE i \in later(s) : \A j \in later(s) : i <= j]
      BY DEF After
    <3> HIDE DEF later
    <3> QED BY <3>1, <3>2
  <2>4. later(s) = {} => After(s, bad) = IF bad THEN "incomplete" ELSE "complete"
    BY DEF After
  <2> QED BY <2>1, <2>2, <2>3, <2>4
<1>3. ASSUME NEW s \in ToSet(Stages), NEW n \in 1 .. 4, Stages[n] = s
      PROVE  /\ \/ \E i \in (n + 1) .. 4 : After(s, bad) = Stages[i]
                \/ After(s, bad) = IF bad THEN "incomplete" ELSE "complete"
             /\ step = "all" /\ n < 4 => After(s, bad) = Stages[n + 1]
  <2> HIDE DEF later
  <2>1. \/ \E i \in (n + 1) .. 4 : After(s, bad) = Stages[i]
        \/ After(s, bad) = IF bad THEN "incomplete" ELSE "complete"
    BY <1>2, <1>3
  <2>2. ASSUME step = "all", n < 4 PROVE After(s, bad) = Stages[n + 1]
    <3>4. later(s) = (n + 1) .. 4
      BY <1>2, <1>3, <2>2
    <3>5. n + 1 \in (n + 1) .. 4
      BY <2>2
    <3>1. later(s) = (n + 1) .. 4 /\ n + 1 \in later(s)
      BY <3>4, <3>5
    <3>2. PICK i \in (n + 1) .. 4 : After(s, bad) = Stages[i] /\ \A j \in (n + 1) .. 4 : i <= j
      BY <1>2, <1>3, <3>1
    <3>3. i = n + 1
      BY <3>2, <2>2
    <3> QED BY <3>2, <3>3
  <2> QED BY <2>1, <2>2
<1>4. /\ After("generate", bad) \in {"train", "evaluate", "export", "complete", "incomplete"}
      /\ step = "all" => After("generate", bad) = "train"
      /\ After("generate", bad) = "complete" => ~bad
  <2>1. PICK n \in 1 .. 4, s \in ToSet(Stages) : n = 1 /\ s = "generate" /\ Stages[n] = s
    BY <1>1
  <2> QED BY <1>1, <1>3, <2>1
<1>5. /\ After("train", bad) \in {"evaluate", "export", "complete", "incomplete"}
      /\ step = "all" => After("train", bad) = "evaluate"
      /\ After("train", bad) = "complete" => ~bad
  <2>1. PICK n \in 1 .. 4, s \in ToSet(Stages) : n = 2 /\ s = "train" /\ Stages[n] = s
    BY <1>1
  <2> QED BY <1>1, <1>3, <2>1
<1>6. /\ After("evaluate", bad) \in {"export", "complete", "incomplete"}
      /\ step = "all" => After("evaluate", bad) = "export"
      /\ After("evaluate", bad) = "complete" => ~bad
  <2>1. PICK n \in 1 .. 4, s \in ToSet(Stages) : n = 3 /\ s = "evaluate" /\ Stages[n] = s
    BY <1>1
  <2> QED BY <1>1, <1>3, <2>1
<1>7. /\ After("export", bad) \in {"complete", "incomplete"}
      /\ After("export", bad) = "complete" => ~bad
  <2>1. PICK n \in 1 .. 4, s \in ToSet(Stages) : n = 4 /\ s = "export" /\ Stages[n] = s
    BY <1>1
  <2> QED BY <1>1, <1>3, <2>1
<1> QED BY <1>1, <1>4, <1>5, <1>6, <1>7

LEMMA StageNames ==
  ToSet(Stages) = {"generate", "train", "evaluate", "export"}
<1>1. /\ DOMAIN Stages = 1 .. 4 /\ Stages[1] = "generate" /\ Stages[2] = "train"
      /\ Stages[3] = "evaluate" /\ Stages[4] = "export"
  BY DEF Stages
<1>2. /\ \A i \in 1 .. 4 : i = 1 \/ i = 2 \/ i = 3 \/ i = 4
      /\ 1 \in 1 .. 4 /\ 2 \in 1 .. 4 /\ 3 \in 1 .. 4 /\ 4 \in 1 .. 4
  OBVIOUS
<1> QED BY <1>1, <1>2 DEF ToSet

LEMMA FrontIs ==
  ASSUME NEW S, NEW s \in Seq(S), s # <<>>
  PROVE  /\ Front(s) \in Seq(S) /\ Len(Front(s)) = Len(s) - 1
         /\ DOMAIN Front(s) = 1 .. (Len(s) - 1) /\ DOMAIN s = 1 .. Len(s) /\ Len(s) \in Nat \ {0}
         /\ \A i \in 1 .. (Len(s) - 1) : Front(s)[i] = s[i]
<1>1. Len(s) \in Nat \ {0} /\ DOMAIN s = 1 .. Len(s)
  BY LenProperties, EmptySeq
<1>2. Front(s) = SubSeq(s, 1, Len(s) - 1)
  BY DEF Front
<1>3. \A i \in 1 .. (Len(s) - 1) : s[i] \in S
  BY <1>1, LenProperties
<1>4. /\ SubSeq(s, 1, Len(s) - 1) \in Seq(S)
      /\ Len(SubSeq(s, 1, Len(s) - 1)) = Len(s) - 1
      /\ \A i \in 1 .. (Len(s) - 1) : SubSeq(s, 1, Len(s) - 1)[i] = s[i]
  BY <1>1, <1>3, SubSeqProperties
<1> QED BY <1>1, <1>2, <1>4, LenProperties

LEMMA BehindIs ==
  ASSUME CalInv
  PROVE  /\ Behind \in Seq(Texts \cup {Malformed}) /\ Len(Behind) \in Nat
         /\ DOMAIN Behind = 1 .. Len(Behind) /\ DOMAIN dataset = 1 .. Len(dataset)
         /\ Len(Behind) <= Len(dataset) /\ Len(dataset) \in Nat
         /\ \A i \in DOMAIN Behind : i \in DOMAIN dataset /\ Behind[i] = dataset[i]
         /\ OnceOnly(Behind)
         /\ ToSet(Behind) \ {Malformed} \subseteq Records
         /\ Records \subseteq Texts
         /\ lineEnd \in {"newline", "half"} => Records = ToSet(Behind) \ {Malformed}
         /\ \A t : Appended(t) = Append(Behind, IF lineEnd = "newline" THEN t ELSE Malformed)
<1>1. dataset \in Seq(Texts \cup {Malformed}) /\ lineEnd \in {"newline", "none", "half"}
  BY DEF CalInv, CalTypeOK
<1>2. /\ DOMAIN dataset = 1 .. Len(dataset) /\ Len(dataset) \in Nat
      /\ \A i \in DOMAIN dataset : dataset[i] \in Texts \cup {Malformed}
  BY <1>1, LenProperties
<1>3. /\ Behind \in Seq(Texts \cup {Malformed}) /\ Len(Behind) \in Nat
      /\ DOMAIN Behind = 1 .. Len(Behind) /\ Len(Behind) <= Len(dataset)
      /\ \A i \in DOMAIN Behind : i \in DOMAIN dataset /\ Behind[i] = dataset[i]
  <2>1. CASE lineEnd = "newline"
    BY <1>1, <1>2, <2>1 DEF Behind
  <2>2. CASE lineEnd # "newline"
    <3>1. dataset # <<>> /\ Behind = Front(dataset)
      BY <2>2 DEF CalInv, Behind
    <3>2. /\ Front(dataset) \in Seq(Texts \cup {Malformed}) /\ Len(Front(dataset)) = Len(dataset) - 1
          /\ DOMAIN Front(dataset) = 1 .. (Len(dataset) - 1) /\ Len(dataset) \in Nat \ {0}
          /\ \A i \in 1 .. (Len(dataset) - 1) : Front(dataset)[i] = dataset[i]
      BY <1>1, <3>1, FrontIs
    <3> QED BY <1>2, <3>1, <3>2
  <2> QED BY <2>1, <2>2
<1>4. OnceOnly(Behind)
  BY <1>3 DEF CalInv, OnceOnly
<1>5. ToSet(Behind) \ {Malformed} \subseteq Records
  BY <1>1, <1>3 DEF Records, Behind, ToSet
<1>6. Records \subseteq Texts
  BY <1>1, <1>2, <1>3 DEF Records, Behind, ToSet
<1>7. lineEnd \in {"newline", "half"} => Records = ToSet(Behind) \ {Malformed}
  BY DEF Records, Behind
<1>8. \A t : Appended(t) = Append(Behind, IF lineEnd = "newline" THEN t ELSE Malformed)
  BY DEF Appended, Behind
<1> QED BY <1>2, <1>3, <1>4, <1>5, <1>6, <1>7, <1>8

\* A record that is written behind a file, or makes its last line unreadable.
LEMMA RecordWritten ==
  ASSUME CalInv, NEW t \in Texts, NEW x, x = (IF lineEnd = "newline" THEN t ELSE Malformed),
         stage = "scoring", t = nextText, t \notin existing
  PROVE  /\ Appended(t) \in Seq(Texts \cup {Malformed}) /\ Appended(t) # <<>>
         /\ OnceOnly(Appended(t))
         /\ ToSet(Appended(t)) = ToSet(Behind) \cup {x}
         /\ Front(Appended(t)) = Behind
<1>1. PICK n \in Nat : n = Len(Behind)
  BY BehindIs
<1>2. PICK b \in Seq(Texts \cup {Malformed}) : b = Behind /\ DOMAIN b = 1 .. n /\ OnceOnly(b)
  BY <1>1, BehindIs
<1>3. x \in Texts \cup {Malformed}
  OBVIOUS
<1>4. PICK a : a = Appended(t) /\ a = Append(b, x)
  BY <1>2, BehindIs
<1>5. /\ a \in Seq(Texts \cup {Malformed}) /\ Len(a) = n + 1 /\ DOMAIN a = 1 .. (n + 1)
      /\ \A i \in 1 .. n : a[i] = b[i]
      /\ a[n + 1] = x
  BY <1>1, <1>2, <1>3, <1>4, AppendProperties, LenProperties
<1>6. a # <<>>
  BY <1>5
<1>7. ToSet(a) = ToSet(b) \cup {x}
  <2>1. \A i \in 1 .. (n + 1) : i \in 1 .. n \/ i = n + 1
    OBVIOUS
  <2>2. n + 1 \in 1 .. (n + 1) /\ \A i \in 1 .. n : i \in 1 .. (n + 1)
    OBVIOUS
  <2> QED BY <1>2, <1>5, <2>1, <2>2 DEF ToSet
<1>8. x = Malformed \/ x \notin ToSet(b)
  <2>1. ASSUME x # Malformed, x \in ToSet(b) PROVE FALSE
    <3>1. x = t /\ t \in existing \cup 1 .. (nextText - 1)
      BY <1>2, <2>1 DEF CalInv, Scoring
    <3> QED BY <3>1, SMT DEF Texts
  <2> QED BY <2>1
<1>9. OnceOnly(a)
  <2> SUFFICES ASSUME NEW i \in 1 .. (n + 1), NEW j \in 1 .. (n + 1), a[i] = a[j], a[i] # Malformed
               PROVE  i = j
    BY <1>5 DEF OnceOnly
  <2>1. CASE i \in 1 .. n /\ j \in 1 .. n
    BY <2>1, <1>2, <1>5 DEF OnceOnly
  <2>2. CASE i = n + 1 /\ j \in 1 .. n
    BY <2>2, <1>2, <1>5, <1>8 DEF ToSet
  <2>3. CASE j = n + 1 /\ i \in 1 .. n
    BY <2>3, <1>2, <1>5, <1>8 DEF ToSet
  <2> QED BY <2>1, <2>2, <2>3
<1>10. Front(a) = b
  <2>1. /\ Front(a) \in Seq(Texts \cup {Malformed}) /\ Len(Front(a)) = n
        /\ \A i \in 1 .. n : Front(a)[i] = a[i]
    BY <1>5, <1>6, FrontIs
  <2> QED BY <2>1, <1>2, <1>5, SeqEqual
<1> QED BY <1>2, <1>4, <1>5, <1>6, <1>7, <1>9, <1>10

LEMMA FileKept ==
  ASSUME UNCHANGED <<dataset, lineEnd>>
  PROVE  Records' = Records /\ Behind' = Behind /\ OnceOnly(dataset)' = OnceOnly(dataset)
BY DEF Records, Behind, OnceOnly

\* Where the pipeline is after a program.
LEMMA EndsAt ==
  ASSUME CalTypeOK, NEW s \in ToSet(Stages), NEW ok \in BOOLEAN, ProgramEnds(s, ok), PipelineUnchanged
  PROVE  /\ failed' = (failed \/ ~ok)
         /\ failed' \in BOOLEAN
         /\ step' = step
         /\ (stage' = "complete" => ~failed')
         /\ stage' \in ToSet(Stages) \cup {"complete", "incomplete"}
         /\ (s = "generate" => stage' # "generate")
         /\ (s = "generate" /\ step = "all" /\ stage' # "incomplete" => stage' = "train")
         /\ (s = "train" => stage' \notin {"generate", "train"})
         /\ (s = "train" /\ step = "all" /\ stage' # "incomplete" => stage' = "evaluate")
         /\ (s = "evaluate" => stage' \in {"export", "complete", "incomplete"})
         /\ (s = "evaluate" /\ step = "all" /\ stage' # "incomplete" => stage' = "export")
         /\ (s = "export" => stage' \in {"complete", "incomplete"})
<1>1. /\ failed' = (failed \/ ~ok) /\ failed' \in BOOLEAN /\ step' = step
      /\ stage' = IF ~ok /\ step = s THEN "incomplete" ELSE After(s, failed')
      /\ step \in {"all"} \cup ToSet(Stages)
  BY DEF CalTypeOK, ProgramEnds, PipelineUnchanged
<1>2. PICK bad \in BOOLEAN : bad = failed'
  BY <1>1
<1>3. CASE ~ok /\ step = s
  BY <1>1, <1>3, StageNames
<1>4. CASE ~(~ok /\ step = s)
  <2>1. stage' = After(s, bad)
    BY <1>1, <1>2, <1>4
  <2>2. (stage' = "complete" => ~failed')
    BY <2>1, <1>1, <1>2, AfterIs
  <2>3. CASE s = "generate"
    <3>1. /\ stage' \in {"train", "evaluate", "export", "complete", "incomplete"}
          /\ (step = "all" => stage' = "train")
      BY <2>1, <2>3, <1>1, AfterIs
    <3> QED BY <3>1, <2>2, <2>3, <1>1, StageNames
  <2>4. CASE s = "train"
    <3>1. /\ stage' \in {"evaluate", "export", "complete", "incomplete"}
          /\ (step = "all" => stage' = "evaluate")
      BY <2>1, <2>4, <1>1, AfterIs
    <3> QED BY <3>1, <2>2, <2>4, <1>1, StageNames
  <2>5. CASE s = "evaluate"
    <3>1. /\ stage' \in {"export", "complete", "incomplete"}
          /\ (step = "all" => stage' = "export")
      BY <2>1, <2>5, <1>1, AfterIs
    <3> QED BY <3>1, <2>2, <2>5, <1>1, StageNames
  <2>6. CASE s = "export"
    <3>1. stage' \in {"complete", "incomplete"}
      BY <2>1, <2>6, <1>1, AfterIs
    <3> QED BY <3>1, <2>2, <2>6, <1>1, StageNames
  <2> QED BY <2>3, <2>4, <2>5, <2>6, StageNames
<1> QED BY <1>3, <1>4

\* A step that leaves the file of records alone and does not begin to score.
LEMMA CalMoves ==
  ASSUME CalInv, ScoringUnchanged, generated' = generated, stage' \notin {"generate", "scoring"},
         CalTypeOK', Left'
  PROVE  CalInv'
<1>1. UNCHANGED <<dataset, lineEnd, existing, nextText, cleanStart>>
  BY DEF ScoringUnchanged
<1>2. Records' = Records /\ OnceOnly(dataset)'
  BY <1>1, FileKept DEF CalInv
<1> QED BY <1>1, <1>2 DEF CalInv, Scoring

LEMMA CalStarts ==
  ASSUME CalInit
  PROVE  CalInv
<1>1. MaxPipelines \in Nat /\ SeedTexts \in Nat
  BY CalAssumption
<1>2. CalTypeOK
  <2>1. dataset \in Seq(Texts \cup {Malformed}) /\ existing \subseteq Texts
    BY DEF CalInit
  <2>2. nextText \in 1 .. (SeedTexts + 1) /\ pipelines \in 0 .. MaxPipelines
    BY <1>1 DEF CalInit
  <2>3. {wNpy, wBin, exported} \subseteq Matrices
    BY DEF CalInit, NoMatrix, Matrices
  <2> QED BY <2>1, <2>2, <2>3 DEF CalInit, CalTypeOK
<1>3. OnceOnly(dataset)
  BY DEF CalInit, OnceOnly
<1> QED BY <1>2, <1>3 DEF CalInit, CalInv, Scoring, Left

LEMMA CalStutters ==
  ASSUME CalInv, UNCHANGED calVars
  PROVE  CalInv'
<1>1. Records' = Records /\ Behind' = Behind /\ OnceOnly(dataset)'
  BY FileKept DEF calVars, CalInv
<1> QED BY <1>1 DEF calVars, CalInv, CalTypeOK, Scoring, Left

LEMMA PipelineStarts ==
  ASSUME CalInv, StartPipeline
  PROVE  CalInv'
<1>1. Records' = Records /\ OnceOnly(dataset)'
  BY FileKept DEF StartPipeline, CalInv
<1>2. pipelines' \in 0 .. MaxPipelines
  BY CalAssumption DEF StartPipeline, CalInv, CalTypeOK
<1>3. stage' \in {"complete"} \cup ToSet(Stages)
  BY StageNames DEF StartPipeline
<1>4. CalTypeOK'
  BY <1>2, <1>3 DEF StartPipeline, CalInv, CalTypeOK
<1>5. Left'
  BY StageNames DEF StartPipeline, Left
<1>6. stage' # "scoring"
  BY <1>3, StageNames
<1> QED BY <1>1, <1>4, <1>5, <1>6 DEF StartPipeline, CalInv, Scoring

LEMMA PipelineInterrupted ==
  ASSUME CalInv, Interrupted
  PROVE  CalInv'
<1>1. CalTypeOK' /\ Left'
  BY DEF Interrupted, ScoringUnchanged, MatricesUnchanged, PipelineUnchanged, CalInv, CalTypeOK, Left
<1> QED BY <1>1, CalMoves DEF Interrupted

LEMMA ScoringResumes ==
  ASSUME CalInv, Resume
  PROVE  CalInv'
<1>1. Records' = Records /\ Behind' = Behind /\ OnceOnly(dataset)'
  BY FileKept DEF Resume, CalInv
<1>2. existing' = Records /\ nextText' = 1 /\ Records \subseteq Texts /\ ToSet(Behind) \ {Malformed} \subseteq Records
  BY BehindIs DEF Resume, Existing
<1>3. 1 .. (nextText' - 1) = {} /\ nextText' \in 1 .. (SeedTexts + 1)
  BY <1>2, CalAssumption
<1>4. CalTypeOK'
  BY <1>2, <1>3 DEF Resume, MatricesUnchanged, PipelineUnchanged, CalInv, CalTypeOK
<1>5. Scoring'
  BY <1>1, <1>2, <1>3 DEF Resume, Scoring
<1>6. Left'
  BY DEF Resume, Left
<1>7. ~generated'
  BY DEF Resume, CalInv
<1> QED BY <1>1, <1>4, <1>5, <1>6, <1>7 DEF Resume, CalInv

LEMMA ScoringEndsBadly ==
  ASSUME CalInv, GenerateRefuses \/ ScoringFails
  PROVE  CalInv'
<1>1. /\ ProgramEnds("generate", FALSE) /\ ScoringUnchanged /\ MatricesUnchanged /\ PipelineUnchanged
      /\ generated' = generated /\ CalTypeOK
  BY DEF GenerateRefuses, ScoringFails, CalInv
<1>2. PICK s \in ToSet(Stages) : s = "generate" /\ ProgramEnds(s, FALSE)
  BY <1>1, StageNames
<1>3. /\ failed' = TRUE /\ stage' \in ToSet(Stages) \cup {"complete", "incomplete"} /\ stage' # "generate"
      /\ stage' # "complete"
  BY <1>1, <1>2, EndsAt
<1>4. stage' \notin {"generate", "scoring", "binary"}
  BY <1>3, StageNames
<1>5. CalTypeOK'
  BY <1>1, <1>3 DEF ScoringUnchanged, MatricesUnchanged, PipelineUnchanged, CalTypeOK
<1>6. Left'
  BY <1>3, <1>4 DEF Left
<1> QED BY <1>1, <1>4, <1>5, <1>6, CalMoves

LEMMA ScoringEndsWell ==
  ASSUME CalInv, GenerateEnds
  PROVE  CalInv'
<1>1. /\ stage = "scoring" /\ nextText = SeedTexts + 1 /\ generated' = TRUE
      /\ ProgramEnds("generate", TRUE) /\ ScoringUnchanged /\ MatricesUnchanged /\ PipelineUnchanged
      /\ CalTypeOK
  BY DEF GenerateEnds, CalInv
<1>2. PICK s \in ToSet(Stages) : s = "generate" /\ ProgramEnds(s, TRUE)
  BY <1>1, StageNames
<1>3. /\ failed' \in BOOLEAN /\ stage' \in ToSet(Stages) \cup {"complete", "incomplete"} /\ stage' # "generate"
      /\ (stage' = "complete" => ~failed') /\ (step = "all" /\ stage' # "incomplete" => stage' = "train")
      /\ step' = step
  BY <1>1, <1>2, EndsAt
<1>4. stage' \notin {"generate", "scoring", "binary"}
  BY <1>3, StageNames
<1>5. Records' = Records /\ OnceOnly(dataset)'
  BY <1>1, FileKept DEF ScoringUnchanged, CalInv
<1>6. cleanStart => Records = Texts
  <2>1. Records \subseteq Texts
    BY BehindIs
  <2>2. 1 .. (nextText - 1) = Texts
    BY <1>1, CalAssumption DEF Texts
  <2> QED BY <1>1, <2>1, <2>2 DEF CalInv, Scoring
<1>7. CalTypeOK'
  BY <1>1, <1>3 DEF ScoringUnchanged, MatricesUnchanged, PipelineUnchanged, CalTypeOK
<1>8. Left'
  BY <1>3, <1>4 DEF Left
<1> QED BY <1>1, <1>4, <1>5, <1>6, <1>7, <1>8 DEF CalInv, Scoring, ScoringUnchanged

LEMMA TextScored ==
  ASSUME CalInv, Score
  PROVE  CalInv'
<1>1. /\ stage = "scoring" /\ stage' = "scoring" /\ nextText \in Texts /\ nextText' = nextText + 1
      /\ UNCHANGED <<existing, failed, cleanStart, generated>> /\ CalTypeOK /\ ~generated
      /\ nextText \in Nat /\ SeedTexts \in Nat
  BY CalAssumption DEF Score, CalInv, Texts
<1>2. 1 .. (nextText' - 1) = 1 .. (nextText - 1) \cup {nextText} /\ nextText' \in 1 .. (SeedTexts + 1)
  BY <1>1 DEF Texts
<1>3. Left'
  BY <1>1 DEF Left
<1>4. CASE nextText \in existing
  <2>1. UNCHANGED <<dataset, lineEnd>>
    BY <1>4 DEF Score
  <2>2. Records' = Records /\ Behind' = Behind /\ OnceOnly(dataset)'
    BY <2>1, FileKept DEF CalInv
  <2>3. CalTypeOK'
    BY <1>1, <1>2, <2>1 DEF Score, MatricesUnchanged, PipelineUnchanged, CalTypeOK
  <2>4. Scoring'
    BY <1>1, <1>2, <1>4, <2>1, <2>2 DEF CalInv, Scoring
  <2> QED BY <1>1, <1>3, <2>1, <2>2, <2>3, <2>4 DEF CalInv
<1>5. CASE nextText \notin existing
  <2>1. dataset' = Appended(nextText) /\ lineEnd' = "newline"
    BY <1>5 DEF Score
  <2>2. PICK t, x : t \in Texts /\ t = nextText /\ x = (IF lineEnd = "newline" THEN t ELSE Malformed)
    BY <1>1
  <2>3. /\ dataset' \in Seq(Texts \cup {Malformed}) /\ OnceOnly(dataset')
        /\ ToSet(dataset') = ToSet(Behind) \cup {x}
    BY <1>1, <1>5, <2>1, <2>2, RecordWritten
  <2>4. Behind' = dataset' /\ Records' = ToSet(dataset') \ {Malformed}
    BY <2>1 DEF Behind, Records
  <2>5. CalTypeOK'
    BY <1>1, <1>2, <2>1, <2>3 DEF Score, MatricesUnchanged, PipelineUnchanged, CalTypeOK
  <2>6. ToSet(Behind') \ {Malformed} \subseteq existing' \cup 1 .. (nextText' - 1)
    BY <1>1, <1>2, <2>2, <2>3, <2>4 DEF CalInv, Scoring
  <2>7. cleanStart => existing \cup 1 .. (nextText' - 1) \subseteq Records'
    <3>1. ASSUME cleanStart PROVE existing \cup 1 .. (nextText' - 1) \subseteq Records'
      <4>1. lineEnd = "newline" /\ existing \cup 1 .. (nextText - 1) \subseteq Records
        BY <1>1, <3>1 DEF CalInv, Scoring
      <4>2. Records = ToSet(Behind) \ {Malformed} /\ x = nextText /\ x # Malformed
        BY <4>1, <2>2, <1>1, BehindIs DEF Texts, Malformed
      <4> QED BY <4>1, <4>2, <1>2, <2>3, <2>4
    <3> QED BY <3>1
  <2>8. Scoring'
    BY <1>1, <2>1, <2>6, <2>7 DEF Scoring
  <2>9. OnceOnly(dataset)'
    BY <2>3 DEF OnceOnly
  <2> QED BY <1>1, <1>3, <2>1, <2>5, <2>8, <2>9 DEF CalInv
<1> QED BY <1>4, <1>5

LEMMA ScoringKilled ==
  ASSUME CalInv, KilledScoring
  PROVE  CalInv'
<1>1. /\ stage = "scoring" /\ nextText \in Texts \ existing /\ lineEnd' \in {"none", "half"}
      /\ dataset' = Appended(nextText) /\ ProgramEnds("generate", FALSE)
      /\ UNCHANGED <<existing, nextText, cleanStart, generated>> /\ MatricesUnchanged /\ PipelineUnchanged
      /\ CalTypeOK /\ ~generated
  BY DEF KilledScoring, CalInv
<1>2. PICK s \in ToSet(Stages) : s = "generate" /\ ProgramEnds(s, FALSE)
  BY <1>1, StageNames
<1>3. /\ failed' = TRUE /\ stage' \in ToSet(Stages) \cup {"complete", "incomplete"} /\ stage' # "generate"
      /\ stage' # "complete"
  BY <1>1, <1>2, EndsAt
<1>4. stage' \notin {"generate", "scoring", "binary"}
  BY <1>3, StageNames
<1>5. PICK t, x : t \in Texts /\ t = nextText /\ x = (IF lineEnd = "newline" THEN t ELSE Malformed)
  BY <1>1
<1>6. dataset' \in Seq(Texts \cup {Malformed}) /\ dataset' # <<>> /\ OnceOnly(dataset')
  BY <1>1, <1>5, RecordWritten
<1>7. CalTypeOK'
  BY <1>1, <1>3, <1>6 DEF MatricesUnchanged, PipelineUnchanged, CalTypeOK
<1>8. Left'
  BY <1>3, <1>4 DEF Left
<1>9. OnceOnly(dataset)'
  BY <1>6 DEF OnceOnly
<1> QED BY <1>1, <1>4, <1>6, <1>7, <1>8, <1>9 DEF CalInv, Scoring

\* A later program ends: what it leaves has its type and is what the next one needs.
LEMMA LaterEnds ==
  ASSUME CalInv, NEW s \in {"train", "evaluate", "export"}, NEW ok \in BOOLEAN, ProgramEnds(s, ok),
         generated' = generated, ScoringUnchanged, PipelineUnchanged,
         wNpy' \in Matrices, wBin' \in Matrices, exported' \in Matrices,
         ok => stage = (IF s = "train" THEN "binary" ELSE s),
         ok /\ s = "train" => wNpy' = wNpy /\ wBin' = wNpy,
         ok /\ s = "evaluate" => wNpy' = wNpy /\ wBin' = wBin,
         ok /\ s = "export" => wNpy' = wNpy /\ wBin' = wBin /\ exported' = wBin
  PROVE  CalInv'
<1>1. s \in ToSet(Stages) /\ CalTypeOK
  BY StageNames DEF CalInv
<1>2. /\ failed' = (failed \/ ~ok) /\ failed' \in BOOLEAN /\ step' = step
      /\ (stage' = "complete" => ~failed')
      /\ stage' \in ToSet(Stages) \cup {"complete", "incomplete"}
      /\ (s = "train" => stage' \notin {"generate", "train"})
      /\ (s = "train" /\ step = "all" /\ stage' # "incomplete" => stage' = "evaluate")
      /\ (s = "evaluate" => stage' \in {"export", "complete", "incomplete"})
      /\ (s = "evaluate" /\ step = "all" /\ stage' # "incomplete" => stage' = "export")
      /\ (s = "export" => stage' \in {"complete", "incomplete"})
  BY <1>1, EndsAt
<1>3. stage' \notin {"generate", "scoring", "binary"}
  BY <1>2, StageNames
<1>4. CalTypeOK'
  BY <1>1, <1>2 DEF ScoringUnchanged, PipelineUnchanged, CalTypeOK
<1>5. Records' = Records
  BY FileKept DEF ScoringUnchanged
<1>6. Left'
  <2>1. stage' # "binary" /\ (stage' = "complete" => ~failed')
    BY <1>2, <1>3
  <2>2. ASSUME stage' \in {"evaluate", "export", "complete"}, step' = "all", ~failed'
        PROVE  /\ wNpy' = [whole |-> TRUE, from |-> Records'] /\ wBin' = wNpy'
               /\ stage' = "complete" => exported' = wBin'
    <3>1. ok /\ ~failed /\ step = "all"
      BY <1>2, <2>2
    <3>2. CASE s = "train"
      BY <3>1, <3>2, <1>2, <1>5 DEF CalInv, Left
    <3>3. CASE s = "evaluate"
      BY <3>1, <3>3, <1>2, <1>5 DEF CalInv, Left
    <3>4. CASE s = "export"
      BY <3>1, <3>4, <1>2, <1>5 DEF CalInv, Left
    <3> QED BY <3>2, <3>3, <3>4
  <2> QED BY <2>1, <2>2 DEF Left
<1> QED BY <1>3, <1>4, <1>6, CalMoves

LEMMA CalInductive ==
  ASSUME CalInv, [CalNext]_calVars
  PROVE  CalInv'
<1>1. /\ CalTypeOK /\ Left /\ wNpy \in Matrices /\ wBin \in Matrices /\ exported \in Matrices
      /\ NoMatrix \in Matrices /\ HalfMatrix \in Matrices
      /\ [whole |-> TRUE, from |-> Records] \in Matrices
  BY BehindIs DEF CalInv, CalTypeOK, NoMatrix, HalfMatrix, Matrices
<1>2. CASE TrainRefuses
  BY <1>1, <1>2, LaterEnds DEF TrainRefuses, MatricesUnchanged
<1>3. CASE SaveNpy
  <2>1. Records' = Records
    BY <1>3, FileKept DEF SaveNpy, ScoringUnchanged
  <2>2. CalTypeOK'
    BY <1>1, <1>3 DEF SaveNpy, ScoringUnchanged, PipelineUnchanged, CalTypeOK
  <2>3. Left'
    BY <1>3, <2>1 DEF SaveNpy, Left
  <2> QED BY <1>3, <2>2, <2>3, CalMoves DEF SaveNpy
<1>4. CASE SaveNpyFails
  BY <1>1, <1>4, LaterEnds DEF SaveNpyFails
<1>5. CASE SaveBin
  BY <1>1, <1>5, LaterEnds DEF SaveBin
<1>6. CASE SaveBinFails
  BY <1>1, <1>6, LaterEnds DEF SaveBinFails
<1>7. CASE Evaluate
  <2>1. PICK ok \in BOOLEAN : ok = wNpy.whole /\ ProgramEnds("evaluate", ok)
    BY <1>1, <1>7 DEF Evaluate, Matrices
  <2> QED BY <1>1, <1>7, <2>1, LaterEnds DEF Evaluate, MatricesUnchanged
<1>8. CASE Export
  BY <1>1, <1>8, LaterEnds DEF Export
<1>9. CASE ExportFails
  BY <1>1, <1>9, LaterEnds DEF ExportFails
<1>10. CASE CalNext
  BY <1>10, <1>2, <1>3, <1>4, <1>5, <1>6, <1>7, <1>8, <1>9, PipelineStarts, PipelineInterrupted,
     ScoringResumes, ScoringEndsBadly, ScoringEndsWell, TextScored, ScoringKilled DEF CalNext
<1> QED BY <1>10, CalStutters

LEMMA CalInvSafe ==
  ASSUME CalInv
  PROVE  CalibrationSound
<1>1. DatasetSound
  BY DEF CalInv, OnceOnly, DatasetSound
<1>2. CompleteMeansFresh
  BY DEF CalInv, Left, CompleteMeansFresh
<1> QED BY <1>1, <1>2 DEF CalibrationSound

-----------------------------------------------------------------------------
(***************************************************************************)
(* sources: no sample that a source was asked for is cut off.              *)
(***************************************************************************)

\* The first k elements are added up.
Added(f, k, g) == g = [i \in 0 .. k |-> IF i = 0 THEN 0 ELSE g[i - 1] + f[i]]

LEMMA Adds ==
  ASSUME NEW f, NEW k \in Nat
  PROVE  \E g : Added(f, k, g)
<1> DEFINE Bad == {i \in Nat : ~ \E g : Added(f, i, g)}
<1>1. ASSUME Bad # {} PROVE FALSE
  <2>1. PICK m \in Bad : \A i \in Bad : m <= i
    BY <1>1, NatLeast
  <2>2. m \in Nat /\ ~ \E g : Added(f, m, g)
    BY <2>1
  <2>3. CASE m = 0
    <3>1. Added(f, m, [i \in 0 .. 0 |-> 0])
      BY <2>3 DEF Added
    <3> QED BY <3>1, <2>2
  <2>4. CASE m > 0
    <3>1. PICK n \in Nat : m = n + 1
      BY <2>2, <2>4
    <3>2. n \notin Bad
      BY <2>1, <3>1
    <3>3. PICK g : Added(f, n, g)
      BY <3>2
    <3>4. PICK h : h = [i \in 0 .. m |-> IF i = m THEN g[n] + f[m] ELSE g[i]]
      OBVIOUS
    <3>5. h = [i \in 0 .. m |-> IF i = 0 THEN 0 ELSE h[i - 1] + f[i]]
      <4>1. \A i \in 0 .. n : g[i] = IF i = 0 THEN 0 ELSE g[i - 1] + f[i]
        BY <3>3 DEF Added
      <4>2. ASSUME NEW i \in 0 .. m PROVE h[i] = IF i = 0 THEN 0 ELSE h[i - 1] + f[i]
        <5>1. CASE i = m
          BY <5>1, <3>1, <3>4
        <5>2. CASE i # m
          <6>1. i \in 0 .. n /\ (i # 0 => i - 1 \in 0 .. m /\ i - 1 # m)
            BY <5>2, <3>1
          <6>2. h[i] = g[i] /\ (i # 0 => h[i - 1] = g[i - 1])
            BY <6>1, <3>4, <5>2
          <6> QED BY <6>1, <6>2, <4>1
        <5> QED BY <5>1, <5>2
      <4> QED BY <4>2, <3>4
    <3>6. Added(f, m, h)
      BY <3>5 DEF Added
    <3> QED BY <3>6, <2>2
  <2> QED BY <2>2, <2>3, <2>4
<1> QED BY <1>1

LEMMA SumsAre ==
  ASSUME NEW f
  PROVE  /\ Sums(f)[0] = 0
         /\ \A k \in 1 .. SourceCount : Sums(f)[k] = Sums(f)[k - 1] + f[k]
<1>1. SourceCount \in Nat
  BY MixAssumption
<1>2. PICK g : Added(f, SourceCount, g)
  BY <1>1, Adds
<1>3. Added(f, SourceCount, Sums(f))
  BY <1>2 DEF Sums, Added
<1>4. PICK h : h = Sums(f) /\ h = [i \in 0 .. SourceCount |-> IF i = 0 THEN 0 ELSE h[i - 1] + f[i]]
  BY <1>3 DEF Added
<1>5. h[0] = 0
  BY <1>1, <1>4
<1>6. \A k \in 1 .. SourceCount : h[k] = h[k - 1] + f[k]
  BY <1>1, <1>4
<1> QED BY <1>4, <1>5, <1>6

LEMMA SumsGrow ==
  ASSUME NEW f, \A i \in SourceNumbers : f[i] \in Nat
  PROVE  /\ \A k \in 0 .. SourceCount : Sums(f)[k] \in Nat
         /\ \A k \in 1 .. SourceCount : Sums(f)[k] = Sums(f)[k - 1] + f[k]
         /\ Sums(f)[0] = 0
         /\ ((\A i \in SourceNumbers : f[i] > 0) => Sums(f)[SourceCount] > 0)
<1>1. SourceCount \in Nat \ {0} /\ SourceNumbers = 1 .. SourceCount
  BY MixAssumption DEF SourceNumbers
<1>2. PICK g : g = Sums(f) /\ g[0] = 0 /\ \A k \in 1 .. SourceCount : g[k] = g[k - 1] + f[k]
  BY SumsAre
<1> DEFINE Bad == {k \in 0 .. SourceCount : g[k] \notin Nat}
<1>3. ASSUME Bad # {} PROVE FALSE
  <2>1. Bad \in SUBSET Nat
    BY <1>1
  <2>2. PICK m \in Bad : \A i \in Bad : m <= i
    BY <1>3, <2>1, NatLeast
  <2>3. m \in 0 .. SourceCount /\ g[m] \notin Nat /\ m # 0
    BY <1>2, <2>2
  <2>4. m \in 1 .. SourceCount /\ m - 1 \in 0 .. SourceCount /\ m - 1 < m
    BY <1>1, <2>3
  <2>5. g[m - 1] \in Nat
    BY <2>2, <2>4
  <2> QED BY <1>1, <1>2, <2>3, <2>4, <2>5
<1>4. \A k \in 0 .. SourceCount : g[k] \in Nat
  BY <1>3
<1>5. ASSUME \A i \in SourceNumbers : f[i] > 0 PROVE g[SourceCount] > 0
  <2>1. /\ SourceCount \in 1 .. SourceCount /\ SourceCount - 1 \in 0 .. SourceCount
    BY <1>1
  <2>2. g[SourceCount] = g[SourceCount - 1] + f[SourceCount] /\ g[SourceCount - 1] \in Nat
        /\ f[SourceCount] > 0 /\ f[SourceCount] \in Nat
    BY <1>1, <1>2, <1>4, <1>5, <2>1
  <2> QED BY <2>2
<1> QED BY <1>2, <1>4, <1>5

LEMMA DivBelow ==
  ASSUME NEW a \in Nat, NEW b \in Nat \ {0}
  PROVE  a \div b \in Nat /\ b * (a \div b) <= a
OBVIOUS

LEMMA OneMoreShare ==
  ASSUME NEW w \in Nat, NEW s \in Nat, NEW d \in Nat, NEW m \in Nat, NEW t \in Nat, NEW x \in Nat,
         w * s <= m * t, w * d <= m * x
  PROVE  w * (s + d) <= m * (t + x)
<1>1. w * (s + d) = w * s + w * d /\ m * (t + x) = m * t + m * x
  OBVIOUS
<1>2. w * s \in Nat /\ w * d \in Nat /\ m * t \in Nat /\ m * x \in Nat
  OBVIOUS
<1> QED BY <1>1, <1>2

LEMMA Cancels ==
  ASSUME NEW w \in Nat \ {0}, NEW s \in Nat, NEW m \in Nat, w * s <= m * w
  PROVE  s <= m
OBVIOUS

Shares == [j \in SourceNumbers |-> Share(j)]

\* The shares are, rounded down, no more than max_samples together.
LEMMA SharesFit ==
  ASSUME weights \in [SourceNumbers -> Weights], maxSamples \in Nat
  PROVE  /\ \A k \in 0 .. SourceCount : Sums(Shares)[k] \in Nat
         /\ \A k \in 1 .. SourceCount : Sums(Shares)[k] = Sums(Shares)[k - 1] + Share(k)
         /\ Sums(Shares)[0] = 0 /\ Sums(Shares)[SourceCount] <= maxSamples
         /\ \A k \in 1 .. SourceCount : Share(k) \in Nat
<1>1. /\ SourceCount \in Nat \ {0} /\ SourceNumbers = 1 .. SourceCount
      /\ \A i \in SourceNumbers : weights[i] \in Nat
      /\ \A i \in SourceNumbers : weights[i] > 0
  <2>1. \A i \in SourceNumbers : weights[i] \in Nat \ {0}
    BY MixAssumption
  <2> QED BY <2>1, MixAssumption DEF SourceNumbers
<1>2. PICK W : W = Sums(weights)
  OBVIOUS
<1>3. /\ W[0] = 0 /\ W[SourceCount] \in Nat \ {0}
      /\ \A k \in 0 .. SourceCount : W[k] \in Nat
      /\ \A k \in 1 .. SourceCount : W[k] = W[k - 1] + weights[k]
  <2>1. /\ \A k \in 0 .. SourceCount : Sums(weights)[k] \in Nat
        /\ \A k \in 1 .. SourceCount : Sums(weights)[k] = Sums(weights)[k - 1] + weights[k]
        /\ Sums(weights)[0] = 0
        /\ Sums(weights)[SourceCount] > 0
    BY <1>1, SumsGrow, Zenon
  <2>2. SourceCount \in 0 .. SourceCount
    BY <1>1
  <2> QED BY <1>2, <2>1, <2>2
<1>4. PICK total \in Nat \ {0} : total = TotalWeight /\ total = W[SourceCount]
  BY <1>2, <1>3 DEF TotalWeight
<1>5. ASSUME NEW i \in SourceNumbers
      PROVE  Share(i) \in Nat /\ total * Share(i) <= maxSamples * weights[i]
  <2>1. maxSamples * weights[i] \in Nat /\ Share(i) = (maxSamples * weights[i]) \div total
    BY <1>1, <1>4 DEF Share
  <2> QED BY <2>1, DivBelow
<1>6. /\ \A i \in SourceNumbers : Shares[i] = Share(i) /\ Shares[i] \in Nat
  BY <1>5 DEF Shares
<1>7. PICK S : S = Sums(Shares)
  OBVIOUS
<1>8. /\ S[0] = 0
      /\ \A k \in 0 .. SourceCount : S[k] \in Nat
      /\ \A k \in 1 .. SourceCount : S[k] = S[k - 1] + Share(k)
  BY <1>1, <1>6, <1>7, SumsGrow
<1> DEFINE Bad == {k \in 0 .. SourceCount : ~(total * S[k] <= maxSamples * W[k])}
<1>9. ASSUME Bad # {} PROVE FALSE
  <2>1. Bad \in SUBSET Nat
    BY <1>1
  <2>2. PICK m \in Bad : \A i \in Bad : m <= i
    BY <1>9, <2>1, NatLeast
  <2>3. m \in 0 .. SourceCount /\ ~(total * S[m] <= maxSamples * W[m])
    BY <2>2
  <2>4. m # 0
    BY <2>3, <1>3, <1>8
  <2>5. m \in 1 .. SourceCount /\ m - 1 \in 0 .. SourceCount /\ m - 1 < m
    BY <1>1, <2>3, <2>4
  <2>6. total * S[m - 1] <= maxSamples * W[m - 1]
    BY <2>2, <2>5
  <2>7. total * Share(m) <= maxSamples * weights[m]
    BY <1>1, <1>5, <2>5
  <2>8. /\ S[m] = S[m - 1] + Share(m) /\ W[m] = W[m - 1] + weights[m]
        /\ S[m - 1] \in Nat /\ W[m - 1] \in Nat /\ Share(m) \in Nat /\ weights[m] \in Nat
    BY <1>1, <1>3, <1>5, <1>8, <2>5
  <2>9. total * (S[m - 1] + Share(m)) <= maxSamples * (W[m - 1] + weights[m])
    BY <2>6, <2>7, <2>8, OneMoreShare
  <2> QED BY <2>3, <2>8, <2>9
<1>10. total * S[SourceCount] <= maxSamples * total
  BY <1>1, <1>4, <1>9
<1>11. S[SourceCount] <= maxSamples
  BY <1>1, <1>8, <1>10, Cancels
<1> QED BY <1>1, <1>5, <1>7, <1>8, <1>11
LEMMA UniqueIs ==
  ASSUME NEW S, NEW s \in Seq(S)
  PROVE  /\ Unique(s) \in Seq(S) /\ Len(Unique(s)) <= Len(s)
         /\ IsInjective(Unique(s))
         /\ ToSet(Unique(s)) = ToSet(s)
<1>1. PICK n \in Nat : n = Len(s) /\ DOMAIN s = 1 .. n /\ \A i \in 1 .. n : s[i] \in S
  BY LenProperties
<1>2. PICK I : I = {i \in DOMAIN s : \A j \in 1..(i - 1) : s[j] # s[i]}
  OBVIOUS
<1>3. PICK u : u = Unique(s) /\ u = Keeping(s, I)
  BY <1>2 DEF Unique
<1>4. I \in SUBSET (DOMAIN s) /\ \A i \in I : s[i] \in S
  BY <1>1, <1>2
<1>5. PICK c \in Nat : c = Cardinality(I) /\ c <= n
  BY <1>1, <1>4, KeepingIs
<1>6. /\ u \in Seq(S) /\ Len(u) = c /\ DOMAIN u = 1 .. c
      /\ \A k \in 1 .. c : Nth(I, k) \in I /\ u[k] = s[Nth(I, k)]
      /\ \A k, l \in 1 .. c : k < l => Nth(I, k) < Nth(I, l)
      /\ \A i \in I : \E k \in 1 .. c : Nth(I, k) = i
  BY <1>3, <1>4, <1>5, KeepingIs
<1>7. \A i, j \in I : s[i] = s[j] => i = j
  BY <1>1, <1>2
<1>8. \A k, l \in 1 .. c : u[k] = u[l] => k = l
  <2>1. ASSUME NEW k \in 1 .. c, NEW l \in 1 .. c, u[k] = u[l], k # l PROVE FALSE
    <3>1. Nth(I, k) = Nth(I, l) /\ Nth(I, k) \in Nat
      BY <1>1, <1>4, <1>6, <1>7, <2>1
    <3>2. k < l \/ l < k
      BY <2>1
    <3> QED BY <1>1, <1>4, <1>6, <3>1, <3>2
  <2> QED BY <2>1
<1>9. \A i \in DOMAIN s : \E j \in I : s[j] = s[i]
  <2> SUFFICES ASSUME NEW i \in DOMAIN s PROVE \E j \in I : s[j] = s[i]
    OBVIOUS
  <2>1. PICK T : T = {j \in 1 .. n : s[j] = s[i]}
    OBVIOUS
  <2>2. T \in SUBSET Nat /\ T # {}
    BY <1>1, <2>1
  <2>3. PICK m \in T : \A x \in T : m <= x
    BY <2>2, NatLeast
  <2>4. m \in I
    BY <1>1, <1>2, <2>1, <2>3
  <2> QED BY <2>1, <2>3, <2>4
<1>10. ToSet(u) = ToSet(s)
  <2>1. \A k \in 1 .. c : \E i \in DOMAIN s : u[k] = s[i]
    BY <1>4, <1>6
  <2>2. \A i \in DOMAIN s : \E k \in 1 .. c : u[k] = s[i]
    BY <1>6, <1>9
  <2>3. \A x \in ToSet(u) : x \in ToSet(s)
    BY <1>6, <2>1 DEF ToSet
  <2>4. ASSUME NEW x \in ToSet(s) PROVE x \in ToSet(u)
    <3>1. PICK i \in DOMAIN s : x = s[i]
      BY DEF ToSet
    <3>2. PICK k \in 1 .. c : u[k] = x
      BY <2>2, <3>1
    <3> QED BY <1>6, <3>2 DEF ToSet
  <2> QED BY <2>3, <2>4
<1>11. IsInjective(u)
  BY <1>6, <1>8 DEF IsInjective
<1> QED BY <1>1, <1>3, <1>5, <1>6, <1>10, <1>11

\* What the first k sources may give.
Spent(k) == IF k = 0 THEN 0 ELSE Sums(Shares)[k] + (maxSamples - Sums(Shares)[SourceCount])

LEMMA Spends ==
  ASSUME MixTypeOK
  PROVE  /\ \A k \in SourceNumbers : k - 1 \in Nat /\ Allocation(k) \in Nat /\ Spent(k - 1) \in Nat
                                     /\ Spent(k) = Spent(k - 1) + Allocation(k)
         /\ Spent(0) = 0 /\ Spent(SourceCount) = maxSamples
         /\ \A k \in 0 .. SourceCount : Spent(k) \in Nat
         /\ maxSamples \in Nat
<1>1. weights \in [SourceNumbers -> Weights] /\ maxSamples \in Nat
  BY MixAssumption DEF MixTypeOK
<1>2. SourceCount \in Nat \ {0} /\ SourceNumbers = 1 .. SourceCount
  BY MixAssumption DEF SourceNumbers
<1>3. PICK S : S = Sums(Shares)
  OBVIOUS
<1>4. /\ \A k \in 0 .. SourceCount : S[k] \in Nat
      /\ \A k \in 1 .. SourceCount : S[k] = S[k - 1] + Share(k)
      /\ S[0] = 0 /\ S[SourceCount] <= maxSamples
      /\ \A k \in 1 .. SourceCount : Share(k) \in Nat
  BY <1>1, <1>3, SharesFit
<1>5. SourceCount \in 0 .. SourceCount /\ SourceCount \in 1 .. SourceCount /\ S[SourceCount] \in Nat
  BY <1>2, <1>4
<1>6. \A k \in 0 .. SourceCount : Spent(k) \in Nat /\ Spent(0) = 0 /\ Spent(SourceCount) = maxSamples
  BY <1>1, <1>2, <1>3, <1>4, <1>5 DEF Spent
<1>7. ASSUME NEW k \in 1 .. SourceCount
      PROVE  k - 1 \in Nat /\ Allocation(k) \in Nat /\ Spent(k) = Spent(k - 1) + Allocation(k)
  <2>0. k \in Nat /\ k > 0 /\ k - 1 \in 0 .. SourceCount
    BY <1>2
  <2>1. Share(k) \in Nat /\ S[k] \in Nat /\ S[k - 1] \in Nat /\ S[k] = S[k - 1] + Share(k)
    BY <1>2, <1>4, <2>0
  <2>2. CASE k = 1
    <3>1. Allocation(k) = Share(1) + (maxSamples - S[SourceCount])
      BY <1>3, <2>2 DEF Allocation, Shares
    <3>2. S[1] = Share(1)
      BY <1>4, <2>1, <2>2
    <3> QED BY <1>1, <1>3, <1>4, <1>5, <2>1, <2>2, <3>1, <3>2 DEF Spent
  <2>3. CASE k # 1
    <3>1. Allocation(k) = Share(k)
      BY <2>3 DEF Allocation
    <3>2. k - 1 # 0 /\ k # 0
      BY <2>0, <2>3
    <3> QED BY <1>1, <1>3, <1>4, <1>5, <2>0, <2>1, <3>1, <3>2 DEF Spent
  <2> QED BY <2>2, <2>3
<1>8. \A k \in 1 .. SourceCount : k - 1 \in 0 .. SourceCount
  BY <1>2
<1> QED BY <1>1, <1>2, <1>5, <1>6, <1>7, <1>8

\* What was collected is within the shares, and what was yielded is once each.
Collected ==
  /\ samples = offered
  /\ balance => /\ Len(samples) <= Spent(at - 1)
                /\ at \in SourceNumbers => Len(taken) <= Allocation(at)
  /\ ~balance => /\ Len(samples) <= maxSamples
                 /\ dedupe => IsInjective(samples)

MixInv == MixTypeOK /\ Collected

LEMMA MixStarts ==
  ASSUME MixInit
  PROVE  MixInv
<1>1. MixTypeOK
  BY MixAssumption DEF MixInit, MixTypeOK
<1>2. /\ 1 \in SourceNumbers /\ at - 1 = 0 /\ at = 1
      /\ samples = <<>> /\ taken = <<>> /\ offered = <<>> /\ Len(samples) = 0 /\ Len(taken) = 0
  BY MixAssumption DEF MixInit, SourceNumbers
<1>3. Spent(at - 1) = 0 /\ Allocation(at) \in Nat /\ maxSamples \in Nat
  BY <1>1, <1>2, Spends
<1>4. IsInjective(samples)
  BY <1>2 DEF IsInjective
<1>5. Collected
  BY <1>2, <1>3, <1>4 DEF Collected
<1> QED BY <1>1, <1>5 DEF MixInv

LEMMA SettingsStay ==
  ASSUME Settings
  PROVE  /\ \A k : Spent(k)' = Spent(k) /\ Allocation(k)' = Allocation(k)
         /\ maxSamples' = maxSamples /\ balance' = balance /\ dedupe' = dedupe
BY DEF Settings, Spent, Allocation, Shares, Share, TotalWeight

\* The fetch of a source is over: what it gave is added, or nothing is.
LEMMA MixMovesOn ==
  ASSUME MixInv, at \in SourceNumbers, NextSource, Settings, raised' \in SUBSET SourceNumbers,
         \/ samples' = samples /\ offered' = offered
         \/ balance /\ samples' = samples \o taken /\ offered' = offered \o taken
  PROVE  MixInv'
<1>1. /\ MixTypeOK /\ Collected /\ samples \in Seq(SampleIds) /\ offered \in Seq(SampleIds)
      /\ taken \in Seq(SampleIds) /\ SourceCount \in Nat /\ at \in 1 .. SourceCount
      /\ Len(samples) \in Nat /\ Len(taken) \in Nat
  BY MixAssumption, LenProperties DEF MixInv, MixTypeOK, SourceNumbers
<1>2. at' = at + 1 /\ tries' = 0 /\ taken' = <<>> /\ taken' \in Seq(SampleIds) /\ Len(taken') = 0
  BY EmptySeq DEF NextSource
<1>3. samples' \in Seq(SampleIds) /\ offered' \in Seq(SampleIds) /\ samples' = offered'
  BY <1>1, ConcatProperties DEF Collected
<1>4. MixTypeOK'
  BY <1>1, <1>2, <1>3 DEF Settings, MixTypeOK
<1>5. maxSamples' = maxSamples /\ balance' = balance /\ dedupe' = dedupe
  BY SettingsStay
<1>6. CASE balance
  <2>1. /\ Spent(at - 1) \in Nat /\ Allocation(at) \in Nat /\ Spent(at) = Spent(at - 1) + Allocation(at)
        /\ Len(samples) <= Spent(at - 1) /\ Len(taken) <= Allocation(at)
    BY <1>1, <1>6, Spends DEF Collected
  <2>2. Len(samples') <= Len(samples) + Len(taken) /\ Len(samples') \in Nat
    BY <1>1, ConcatProperties
  <2>3. Len(samples') <= Spent(at)
    BY <1>1, <2>1, <2>2
  <2>4. PICK k : k = at /\ k = at' - 1
    BY <1>1, <1>2
  <2>5. Spent(k)' = Spent(k)
    BY SettingsStay
  <2>6. Spent(at - 1)' = Spent(at)
    BY <2>4, <2>5 DEF Spent
  <2>7. ASSUME at' \in SourceNumbers PROVE Len(taken') <= Allocation(at)'
    <3>1. PICK i \in SourceNumbers : i = at'
      BY <2>7
    <3>2. Allocation(i) \in Nat /\ Allocation(i)' = Allocation(i)
      BY <1>1, <3>1, Spends, SettingsStay
    <3>3. Allocation(at)' = Allocation(i)'
      BY <3>1 DEF Allocation
    <3> QED BY <1>2, <3>2, <3>3
  <2>8. Collected'
    BY <1>3, <1>5, <1>6, <2>3, <2>6, <2>7 DEF Collected, SourceNumbers
  <2> QED BY <1>4, <2>8 DEF MixInv
<1>7. CASE ~balance
  <2>1. samples' = samples
    BY <1>7
  <2>2. IsInjective(samples)' = IsInjective(samples)
    BY <2>1 DEF IsInjective
  <2>3. Collected'
    BY <1>1, <1>3, <1>5, <1>7, <2>1, <2>2 DEF Collected
  <2> QED BY <1>4, <2>3 DEF MixInv
<1> QED BY <1>6, <1>7

\* The source is asked again: it gave nothing, or a sample within its share.
LEMMA MixGoesOn ==
  ASSUME MixInv, at' = at, Settings, raised' = raised, tries' \in Nat, samples' = offered',
         samples' \in Seq(SampleIds), taken' \in Seq(SampleIds),
         balance => samples' = samples /\ (at \in SourceNumbers => Len(taken') <= Allocation(at)),
         ~balance => Len(samples') <= maxSamples /\ (dedupe => IsInjective(samples'))
  PROVE  MixInv'
<1>1. MixTypeOK'
  BY DEF Settings, MixInv, MixTypeOK
<1>2. maxSamples' = maxSamples /\ balance' = balance /\ dedupe' = dedupe
  BY SettingsStay
<1>3. PICK i, k : i = at /\ k = at - 1 /\ i = at' /\ k = at' - 1
  OBVIOUS
<1>4. Spent(k)' = Spent(k) /\ Allocation(i)' = Allocation(i)
  BY SettingsStay
<1>5. Spent(at - 1)' = Spent(at - 1) /\ Allocation(at)' = Allocation(at)
  BY <1>3, <1>4 DEF Spent, Allocation
<1>6. IsInjective(samples)' = IsInjective(samples')
  BY DEF IsInjective
<1>7. Collected'
  BY <1>2, <1>5, <1>6 DEF MixInv, Collected, SourceNumbers
<1> QED BY <1>1, <1>7 DEF MixInv

LEMMA MixGives ==
  ASSUME MixInv, Gives
  PROVE  MixInv'
<1>1. PICK x \in SampleIds :
        /\ taken' = Append(taken, x)
        /\ \/ balance /\ samples' = samples /\ offered' = offered
           \/ ~balance /\ dedupe /\ samples' = samples /\ offered' = offered
           \/ /\ ~balance /\ (dedupe => x \notin ToSet(samples))
              /\ samples' = Append(samples, x) /\ offered' = Append(offered, x)
           
  BY DEF Gives
<1>2. /\ at \in SourceNumbers /\ ~Enough /\ tries' = tries + 1 /\ at' = at /\ raised' = raised /\ Settings
      /\ MixTypeOK /\ Collected /\ samples = offered
      /\ samples \in Seq(SampleIds) /\ taken \in Seq(SampleIds) /\ maxSamples \in Nat /\ tries' \in Nat
  BY MixAssumption DEF Gives, MixInv, MixTypeOK, Collected
<1>3. /\ Len(samples) \in Nat /\ DOMAIN samples = 1 .. Len(samples) /\ Len(taken) \in Nat
      /\ taken' \in Seq(SampleIds) /\ Len(taken') = Len(taken) + 1
  BY <1>1, <1>2, LenProperties, AppendProperties
<1>4. samples' = offered' /\ samples' \in Seq(SampleIds)
  <2>1. Append(samples, x) \in Seq(SampleIds)
    BY <1>2, AppendProperties
  <2>2. \/ samples' = samples /\ offered' = offered
        \/ samples' = Append(samples, x) /\ offered' = Append(offered, x)
    BY <1>1
  <2> QED BY <1>2, <2>1, <2>2
<1>5. CASE balance
  <2>1. Len(taken) <= Allocation(at) /\ Len(taken) # Allocation(at) /\ Allocation(at) \in Nat
    BY <1>2, <1>5, Spends DEF Collected, Enough
  <2>2. Len(taken') <= Allocation(at)
    BY <1>3, <2>1
  <2> QED BY <1>1, <1>2, <1>3, <1>4, <1>5, <2>2, MixGoesOn
<1>6. CASE ~balance
  <2>1. Len(samples) <= maxSamples /\ Len(samples) # maxSamples /\ (dedupe => IsInjective(samples))
    BY <1>2, <1>6 DEF Collected, Enough
  <2>2. CASE samples' = samples
    BY <1>2, <1>3, <1>4, <1>6, <2>1, <2>2, MixGoesOn
  <2>3. CASE samples' = Append(samples, x) /\ (dedupe => x \notin ToSet(samples))
    <3>1. /\ Len(samples') = Len(samples) + 1 /\ DOMAIN samples' = 1 .. (Len(samples) + 1)
          /\ \A i \in 1 .. Len(samples) : samples'[i] = samples[i]
          /\ samples'[Len(samples) + 1] = x
      BY <1>2, <1>3, <2>3, AppendProperties, LenProperties
    <3>2. ASSUME dedupe PROVE IsInjective(samples')
      <4>1. PICK n \in Nat : n = Len(samples)
        BY <1>3
      <4>2. \A i, j \in 1 .. n : samples[i] = samples[j] => i = j
        BY <1>3, <2>1, <3>2, <4>1 DEF IsInjective
      <4>3. \A i \in 1 .. n : samples[i] # x
        BY <1>3, <2>3, <3>2, <4>1 DEF ToSet
      <4>4. \A i \in 1 .. (n + 1) : i \in 1 .. n \/ i = n + 1
        BY <4>1
      <4>5. \A i, j \in 1 .. (n + 1) : samples'[i] = samples'[j] => i = j
        BY <3>1, <4>1, <4>2, <4>3, <4>4
      <4> QED BY <3>1, <4>1, <4>5 DEF IsInjective
    <3>3. Len(samples') <= maxSamples
      <4>1. PICK n \in Nat, k \in Nat : n = Len(samples) /\ k = maxSamples
        BY <1>2, <1>3
      <4>2. n <= k /\ n # k /\ Len(samples') = n + 1
        BY <2>1, <3>1, <4>1
      <4> QED BY <4>1, <4>2
    <3> QED BY <1>2, <1>3, <1>4, <1>6, <3>2, <3>3, MixGoesOn
  <2> QED BY <1>1, <1>6, <2>2, <2>3
<1> QED BY <1>5, <1>6

LEMMA MixInductive ==
  ASSUME MixInv, [MixNext]_mixVars
  PROVE  MixInv'
<1>1. /\ MixTypeOK /\ Collected /\ samples = offered
      /\ samples \in Seq(SampleIds) /\ taken \in Seq(SampleIds) /\ maxSamples \in Nat /\ tries \in Nat
      /\ raised \in SUBSET SourceNumbers /\ Len(samples) \in Nat /\ Len(samples) <= Len(samples)
  BY MixAssumption, LenProperties DEF MixInv, MixTypeOK, Collected
<1>2. CASE UNCHANGED <<at, samples, raised, offered, taken>> /\ Settings /\ tries' \in Nat
  <2>1. /\ balance => samples' = samples /\ (at \in SourceNumbers => Len(taken') <= Allocation(at))
        /\ ~balance => Len(samples') <= maxSamples /\ (dedupe => IsInjective(samples'))
        /\ samples' = offered' /\ samples' \in Seq(SampleIds) /\ taken' \in Seq(SampleIds)
        /\ at' = at /\ raised' = raised
    BY <1>1, <1>2 DEF Collected
  <2> QED BY <1>2, <2>1, MixGoesOn
<1>3. CASE UNCHANGED mixVars
  BY <1>1, <1>2, <1>3 DEF mixVars, Settings
<1>4. CASE GivesNothing
  <2>1. tries' \in Nat
    BY <1>1, <1>4 DEF GivesNothing
  <2> QED BY <1>2, <1>4, <2>1 DEF GivesNothing
<1>5. CASE GivesOneMore
  <2>1. CASE balance
    BY <1>1, <1>5, <2>1, MixMovesOn DEF GivesOneMore
  <2>2. CASE ~balance
    <3>1. at' = SourceCount + 1 /\ UNCHANGED <<tries, taken, samples, offered, raised>> /\ Settings
      BY <1>5, <2>2 DEF GivesOneMore
    <3>2. SourceCount \in Nat /\ SourceCount + 1 \in 1 .. (SourceCount + 1)
      BY MixAssumption
    <3>3. MixTypeOK'
      BY <1>1, <3>1, <3>2 DEF Settings, MixTypeOK
    <3>4. IsInjective(samples)' = IsInjective(samples)
      BY <3>1 DEF IsInjective
    <3>5. Collected'
      BY <1>1, <2>2, <3>1, <3>4 DEF Settings, Collected
    <3> QED BY <3>3, <3>5 DEF MixInv
  <2> QED BY <2>1, <2>2
<1>6. CASE SourceEnds
  <2>1. CASE balance
    BY <1>1, <1>6, <2>1, MixMovesOn DEF SourceEnds
  <2>2. CASE ~balance
    BY <1>1, <1>6, <2>2, MixMovesOn DEF SourceEnds
  <2> QED BY <2>1, <2>2
<1>7. CASE SourceRaises
  <2>1. raised' \in SUBSET SourceNumbers
    BY <1>1, <1>7 DEF SourceRaises
  <2> QED BY <1>7, <2>1, MixMovesOn DEF SourceRaises
<1> QED BY <1>3, <1>4, <1>5, <1>6, <1>7, MixGives DEF MixNext

LEMMA MixInvSafe ==
  ASSUME MixInv
  PROVE  MixSound
<1>1. /\ MixTypeOK /\ Collected /\ samples = offered /\ samples \in Seq(SampleIds)
      /\ maxSamples \in Nat /\ at \in 1 .. (SourceCount + 1) /\ SourceCount \in Nat \ {0}
      /\ SourceNumbers = 1 .. SourceCount /\ balance \in BOOLEAN
  BY MixAssumption DEF MixInv, MixTypeOK, Collected, SourceNumbers
<1>2. PICK all : all = IF dedupe THEN Unique(samples) ELSE samples
  OBVIOUS
<1>3. /\ all \in Seq(SampleIds) /\ ToSet(all) = ToSet(samples) /\ Len(all) <= Len(samples)
      /\ (dedupe => IsInjective(all)) /\ Len(samples) \in Nat /\ Len(all) \in Nat
      /\ DOMAIN all = 1 .. Len(all)
  BY <1>1, <1>2, UniqueIs, LenProperties
<1>4. CASE ~balance
  BY <1>1, <1>4 DEF Collected, MixSound, OthersKept, OnceEach, Yielded
<1>5. CASE balance
  <2>0. PICK n \in Nat, k \in Nat : n = Len(all) /\ k = maxSamples
    BY <1>1, <1>3
  <2>1. PICK m \in Nat : m = (IF n < k THEN n ELSE k) /\ m <= n /\ m <= k
    BY <2>0
  <2>2. PICK y : y = SubSeq(all, 1, m) /\ y = Yielded
    BY <1>2, <1>5, <2>0, <2>1 DEF Yielded
  <2>3. /\ y \in Seq(SampleIds) /\ Len(y) = m /\ DOMAIN y = 1 .. m /\ \A i \in 1 .. m : y[i] = all[i]
    <3>0. \A i \in 1 .. m : i \in 1 .. n
      BY <2>1
    <3>1. \A i \in 1 .. m : all[i] \in SampleIds
      BY <1>3, <2>0, <3>0, LenProperties
    <3>2. /\ SubSeq(all, 1, m) \in Seq(SampleIds) /\ Len(SubSeq(all, 1, m)) = m
          /\ \A i \in 1 .. m : SubSeq(all, 1, m)[i] = all[i]
      <4>1. 1 \in Nat /\ m \in Nat /\ m - 1 + 1 = m /\ 1 <= m + 1
        BY <2>1
      <4>2. \A i \in 1 .. m : 1 + i - 1 = i
        BY <2>1
      <4> QED BY <3>1, <4>1, <4>2, SubSeqProperties
    <3> QED BY <2>2, <3>2, LenProperties
  <2>4. dedupe => IsInjective(y)
    <3>0. \A i \in 1 .. m : i \in 1 .. n
      BY <2>1
    <3>1. DOMAIN all = 1 .. n /\ \A i \in 1 .. m : i \in 1 .. n
      BY <1>3, <2>0, <3>0
    <3>2. ASSUME dedupe PROVE \A i, j \in 1 .. m : y[i] = y[j] => i = j
      <4>1. \A i, j \in 1 .. n : all[i] = all[j] => i = j
        BY <1>3, <3>1, <3>2 DEF IsInjective
      <4> QED BY <2>3, <3>1, <4>1
    <3> QED BY <2>3, <3>2 DEF IsInjective
  <2>5. ASSUME at \notin SourceNumbers PROVE ToSet(y) = ToSet(offered)
    <3>1. at - 1 = SourceCount
      BY <1>1, <2>5
    <3>2. Len(samples) <= maxSamples
      BY <1>1, <1>5, <3>1, Spends DEF Collected
    <3>3. m = Len(all)
      <4>1. Len(all) <= Len(samples) /\ Len(samples) \in Nat
        BY <1>3
      <4>2. n <= k
        BY <2>0, <3>2, <4>1
      <4> QED BY <2>0, <2>1, <4>2
    <3>4. y = all
      BY <1>3, <2>3, <3>3, SeqEqual
    <3> QED BY <1>1, <1>3, <3>4
  <2> QED BY <2>0, <2>1, <2>2, <2>3, <2>4, <2>5 DEF MixSound, OthersKept, OnceEach
<1> QED BY <1>1, <1>4, <1>5

-----------------------------------------------------------------------------
LEMMA OneSetting ==
  ASSUME [OtherProgramsNext]_programVars
  PROVE  /\ program' = program
         /\ program = "config" => [CfgNext]_cfgVars
         /\ program = "context" => [ContextNext]_ctxVars
         /\ program = "setup" => [SetupNext]_setupVars
         /\ program = "calibration" => [CalNext]_calVars
         /\ program = "mix" => [MixNext]_mixVars
<1>1. CASE UNCHANGED programVars
  BY <1>1 DEF programVars
<1>2. CASE OtherProgramsNext
  BY <1>2 DEF OtherProgramsNext, Only
<1> QED BY <1>1, <1>2

SettingsUsed ==
  /\ program = "config" => CfgInv
  /\ program = "context" => ContextInv
  /\ program = "setup" => SetupInv
  /\ program = "calibration" => CalInv
  /\ program = "mix" => MixInv

\* The settings a process runs with are put together from the environment, the
\* file and the defaults of one load, the environment's first; a context that is kept is the one of the history and the
\* profile as they are; .env loads as it was saved, and a compose file that is
\* whole is kept; a pipeline that ends has exported the matrix of the records
\* there are, none twice; no source takes samples from another.
THEOREM SettingsAreSound == OtherProgramsSpec => []SettingsSound
<1>1. OtherProgramsInit => SettingsUsed
  BY CfgStarts, ContextStarts, SetupStarts, CalStarts, MixStarts DEF OtherProgramsInit, SettingsUsed
<1>2. SettingsUsed /\ [OtherProgramsNext]_programVars => SettingsUsed'
  <2> SUFFICES ASSUME SettingsUsed, [OtherProgramsNext]_programVars PROVE SettingsUsed'
    OBVIOUS
  <2>1. program' = program
    BY OneSetting
  <2>2. CASE program = "config"
    BY <2>1, <2>2, OneSetting, CfgInductive DEF SettingsUsed
  <2>3. CASE program = "context"
    BY <2>1, <2>3, OneSetting, ContextInductive DEF SettingsUsed
  <2>4. CASE program = "setup"
    BY <2>1, <2>4, OneSetting, SetupInductive DEF SettingsUsed
  <2>5. CASE program = "calibration"
    BY <2>1, <2>5, OneSetting, CalInductive DEF SettingsUsed
  <2>6. CASE program = "mix"
    BY <2>1, <2>6, OneSetting, MixInductive DEF SettingsUsed
  <2> QED BY <2>1, <2>2, <2>3, <2>4, <2>5, <2>6 DEF SettingsUsed
<1>3. SettingsUsed => SettingsSound
  BY SetupInvSafe, CalInvSafe, MixInvSafe DEF SettingsUsed, SettingsSound, CfgInv, ContextInv
<1> QED BY <1>1, <1>2, <1>3, PTL DEF OtherProgramsSpec

-----------------------------------------------------------------------------
(***************************************************************************)
(* types.py: the cached order is one of the DAG as it is.  After every     *)
(* turn of Kahn's loop a degree counts the edges from nodes that are not   *)
(* in the order yet, and it is 0 for those that are in it or queued.       *)
(***************************************************************************)
DagTypes ==
  /\ dagNodes \in Seq(DagIds) /\ dagEdges \in Seq(DagIds \X DagIds)

EdgesKnown ==
  \A n \in DOMAIN dagEdges : dagEdges[n][1] \in Ids /\ dagEdges[n][2] \in Ids

\* o is a topological order of these nodes and edges.
IsOrder(nodes, edges, o) ==
  /\ o \in Seq(Range(nodes)) /\ IsInjective(o) /\ Range(o) = Range(nodes) /\ Len(o) = Len(nodes)
  /\ IsInjective(nodes)
  /\ \A n \in DOMAIN edges : edges[n][1] \in Range(nodes) /\ edges[n][2] \in Range(nodes)
  /\ \A n \in DOMAIN edges : \A i \in DOMAIN o :
        edges[n][2] = o[i] => \E k \in 1 .. i - 1 : o[k] = edges[n][1]

\* The edges to a node from others than those that are done.
Undone(done, id) == {n \in DOMAIN dagEdges : dagEdges[n][2] = id /\ dagEdges[n][1] \notin done}

\* What Kahn's loop keeps: q is queued, d the degrees, o the order so far.
KahnInv(q, d, o) ==
  /\ q \in Seq(Ids) /\ o \in Seq(Ids) /\ d \in [Ids -> Nat]
  /\ IsInjective(q) /\ IsInjective(o) /\ Range(q) \cap Range(o) = {}
  /\ \A id \in Ids : d[id] = Cardinality(Undone(Range(o), id))
  /\ \A id \in Ids : d[id] = 0 <=> id \in Range(o) \cup Range(q)
  /\ \A n \in DOMAIN dagEdges : \A i \in DOMAIN o :
        dagEdges[n][2] = o[i] => \E k \in 1 .. i - 1 : o[k] = dagEdges[n][1]

\* A sequence has at most as many elements as positions, and as many if none repeats.
LEMMA RangeCounts ==
  ASSUME NEW S, NEW s \in Seq(S)
  PROVE  /\ IsFiniteSet(Range(s)) /\ Cardinality(Range(s)) \in Nat /\ Cardinality(Range(s)) <= Len(s)
         /\ Cardinality(Range(s)) = Len(s) <=> IsInjective(s)
         /\ Range(s) \subseteq S
<1>1. PICK n \in Nat : n = Len(s) /\ DOMAIN s = 1 .. n /\ s \in [1 .. n -> S]
  BY LenProperties
<1>2. PICK R : R = Range(s)
  OBVIOUS
<1>3. /\ s \in [1 .. n -> R] /\ \A t \in R : \E i \in 1 .. n : s[i] = t
      /\ R \subseteq S
  BY <1>1, <1>2 DEF Range
<1>4. s \in Surjection(1 .. n, R)
  BY <1>3 DEF Surjection
<1>5. IsFiniteSet(1 .. n) /\ Cardinality(1 .. n) = n
  BY FS_Interval
<1>6. /\ IsFiniteSet(R) /\ Cardinality(R) <= n
      /\ Cardinality(R) = n <=> s \in Injection(1 .. n, R)
  BY <1>4, <1>5, FS_Surjection
<1>7. s \in Injection(1 .. n, R) <=> IsInjective(s)
  BY <1>3 DEF Injection
<1>8. Cardinality(R) \in Nat
  BY <1>6, FS_CardinalityType
<1> QED BY <1>1, <1>2, <1>3, <1>6, <1>7, <1>8

LEMMA UndoneFinite ==
  ASSUME DagTypes, NEW done, NEW id
  PROVE  /\ IsFiniteSet(Undone(done, id)) /\ Cardinality(Undone(done, id)) \in Nat
         /\ Cardinality(Undone(done, id)) = 0 <=> Undone(done, id) = {}
<1>1. PICK n \in Nat : DOMAIN dagEdges = 1 .. n
  BY LenProperties DEF DagTypes
<1>2. Undone(done, id) \in SUBSET (1 .. n)
  BY <1>1 DEF Undone
<1>3. IsFiniteSet(Undone(done, id)) /\ Cardinality(Undone(done, id)) \in Nat
  BY <1>2, UpToCounts
<1> QED BY <1>3, FS_EmptySet

\* Before the first turn.
LEMMA KahnBegins ==
  ASSUME DagTypes
  PROVE  KahnInv(Sources, [id \in Ids |-> InDegree(id)], <<>>)
<1>1. PICK N \in Nat : DOMAIN dagNodes = 1 .. N /\ dagNodes \in Seq(DagIds)
  BY LenProperties DEF DagTypes
<1>2. PICK I : I = {n \in DOMAIN dagNodes :
                      InDegree(dagNodes[n]) = 0 /\ \A k \in 1 .. n - 1 : dagNodes[k] # dagNodes[n]}
  OBVIOUS
<1>3. PICK T : T = {id \in Ids : InDegree(id) = 0}
  OBVIOUS
<1>4. I \in SUBSET (DOMAIN dagNodes) /\ \A i \in I : dagNodes[i] \in T
  BY <1>2, <1>3 DEF Ids, Range
<1>5. PICK q, c : q = Sources /\ q = Keeping(dagNodes, I) /\ c = Cardinality(I)
  BY <1>2 DEF Sources
<1>6. /\ q \in Seq(T) /\ c \in Nat /\ DOMAIN q = 1 .. c
      /\ \A k \in 1 .. c : Nth(I, k) \in I /\ q[k] = dagNodes[Nth(I, k)]
      /\ \A k, l \in 1 .. c : k < l => Nth(I, k) < Nth(I, l)
      /\ \A i \in I : \E k \in 1 .. c : Nth(I, k) = i
  BY <1>1, <1>4, <1>5, KeepingIs
<1>7. ASSUME NEW k \in 1 .. c, NEW l \in 1 .. c, k < l PROVE q[k] # q[l]
  <2>1. PICK i, j \in 1 .. N : i = Nth(I, k) /\ j = Nth(I, l) /\ i \in I /\ j \in I
    BY <1>1, <1>2, <1>6
  <2>2. i < j /\ i \in 1 .. j - 1
    BY <1>6, <1>7, <2>1
  <2> QED BY <1>2, <1>6, <2>1, <2>2
<1>8. IsInjective(q)
  <2> SUFFICES ASSUME NEW k \in 1 .. c, NEW l \in 1 .. c, q[k] = q[l] PROVE k = l
    BY <1>6 DEF IsInjective
  <2>1. k < l \/ l < k \/ k = l
    BY <1>6
  <2> QED BY <1>7, <2>1
<1>9. ASSUME NEW id \in T PROVE id \in Range(q)
  <2>1. PICK Pos : Pos = {n \in 1 .. N : dagNodes[n] = id}
    OBVIOUS
  <2>2. Pos # {} /\ Pos \in SUBSET Nat
    BY <1>1, <1>3, <2>1 DEF Ids, Range
  <2>3. PICK m \in Pos : \A x \in Pos : m <= x
    BY <2>2, NatLeast
  <2>4. m \in I
    <3>1. m \in 1 .. N /\ dagNodes[m] = id
      BY <2>1
    <3>2. ASSUME NEW k \in 1 .. m - 1 PROVE dagNodes[k] # dagNodes[m]
      <4>1. k \in 1 .. N /\ ~(m <= k)
        BY <3>1
      <4> QED BY <2>1, <2>3, <3>1, <4>1
    <3> QED BY <1>1, <1>2, <1>3, <3>1, <3>2
  <2>5. PICK k \in 1 .. c : Nth(I, k) = m
    BY <1>6, <2>4
  <2>6. q[k] = id
    BY <1>6, <2>1, <2>5
  <2> QED BY <1>6, <2>6 DEF Range
<1>10. Range(q) = T /\ T \subseteq Ids /\ q \in Seq(Ids)
  <2>1. Range(q) \subseteq T
    BY <1>6, RangeCounts
  <2>2. T \subseteq Ids
    BY <1>3
  <2>3. q \in Seq(Ids)
    BY <1>6, <2>2, SeqMonotonic
  <2> QED BY <1>9, <2>1, <2>2, <2>3
<1>11. PICK d : d = [id \in Ids |-> InDegree(id)]
  OBVIOUS
<1>12. PICK o \in Seq(Ids) : o = <<>> /\ Range(o) = {} /\ DOMAIN o = {} /\ IsInjective(o)
  <2>1. <<>> \in Seq(Ids) /\ DOMAIN <<>> = {}
    BY EmptySeq
  <2> QED BY <2>1 DEF Range, IsInjective
<1>13. \A id \in Ids : InDegree(id) = Cardinality(Undone(Range(o), id)) /\ InDegree(id) \in Nat
  <2> SUFFICES ASSUME NEW id \in Ids
               PROVE  InDegree(id) = Cardinality(Undone(Range(o), id)) /\ InDegree(id) \in Nat
    OBVIOUS
  <2>1. Undone(Range(o), id) = {n \in DOMAIN dagEdges : dagEdges[n][2] = id}
    BY <1>12 DEF Undone
  <2> QED BY <2>1, UndoneFinite DEF InDegree
<1>14. d \in [Ids -> Nat] /\ \A id \in Ids : d[id] = InDegree(id)
  BY <1>11, <1>13
<1>15. \A id \in Ids : d[id] = 0 <=> id \in Range(o) \cup Range(q)
  BY <1>3, <1>10, <1>12, <1>14
<1>16. KahnInv(q, d, o)
  BY <1>8, <1>10, <1>12, <1>13, <1>14, <1>15 DEF KahnInv
<1> QED BY <1>5, <1>11, <1>12, <1>16

\* The edges from the node, and those among them that free their target.
Passing(node, id) == {n \in DOMAIN dagEdges : dagEdges[n] = <<node, id>>}

Freeing(node, d) ==
  {n \in DOMAIN dagEdges :
     /\ dagEdges[n][1] = node
     /\ Cardinality({k \in Passing(node, dagEdges[n][2]) : k <= n}) = d[dagEdges[n][2]]}

\* A position of an edge counts the edges to the same target up to it.
LEMMA EdgesPass ==
  ASSUME DagTypes, NEW node, NEW id
  PROVE  /\ IsFiniteSet(Passing(node, id)) /\ Cardinality(Passing(node, id)) \in Nat
         /\ Passing(node, id) # {} =>
              \E n \in Passing(node, id) :
                Cardinality({k \in Passing(node, id) : k <= n}) = Cardinality(Passing(node, id))
         /\ \A n \in Passing(node, id) :
              /\ Cardinality({k \in Passing(node, id) : k <= n}) \in 1 .. Cardinality(Passing(node, id))
              /\ \A m \in Passing(node, id) :
                   n < m => Cardinality({k \in Passing(node, id) : k <= n})
                              < Cardinality({k \in Passing(node, id) : k <= m})
<1>1. PICK N \in Nat : DOMAIN dagEdges = 1 .. N
  BY LenProperties DEF DagTypes
<1>2. PICK P \in SUBSET (1 .. N) : P = Passing(node, id)
  BY <1>1 DEF Passing
<1>3. IsFiniteSet(P) /\ Cardinality(P) \in Nat
  BY <1>2, UpToCounts
<1>4. PICK c \in Nat : c = Cardinality(P)
  BY <1>3
<1>5. /\ \A k, l \in 1 .. c : k < l => Nth(P, k) < Nth(P, l)
      /\ \A i \in P : Cardinality(UpTo(P, i)) \in 1 .. c /\ Nth(P, Cardinality(UpTo(P, i))) = i
  BY <1>4, NthOrder
<1>6. ASSUME P # {} PROVE \E n \in P : Cardinality(UpTo(P, n)) = c
  <2>1. c # 0
    BY <1>3, <1>4, <1>6, FS_EmptySet
  <2>2. c \in 1 .. Cardinality(P)
    BY <1>4, <2>1
  <2>3. Nth(P, c) \in P /\ Cardinality(UpTo(P, Nth(P, c))) = c
    BY <2>2, NthThere
  <2> QED BY <2>3
<1>7. ASSUME NEW n \in P, NEW m \in P, n < m PROVE Cardinality(UpTo(P, n)) < Cardinality(UpTo(P, m))
  <2>1. PICK a, b \in 1 .. c : a = Cardinality(UpTo(P, n)) /\ b = Cardinality(UpTo(P, m))
    BY <1>5
  <2>2. Nth(P, a) = n /\ Nth(P, b) = m /\ n \in Nat /\ m \in Nat
    BY <1>5, <2>1
  <2>3. b < a \/ a = b \/ a < b
    BY <2>1
  <2>4. b < a => m < n
    BY <1>5, <2>2
  <2> QED BY <1>7, <2>1, <2>2, <2>3, <2>4
<1>8. \A n : UpTo(P, n) = {k \in P : k <= n}
  BY DEF UpTo
<1> QED BY <1>2, <1>3, <1>4, <1>5, <1>6, <1>7, <1>8

\* One turn.
LEMMA KahnTurns ==
  ASSUME DagTypes, EdgesKnown, NEW s, KahnInv(s.queue, s.degree, s.order), s.queue # <<>>
  PROVE  /\ KahnInv(Visit(s).queue, Visit(s).degree, Visit(s).order)
         /\ Len(Visit(s).order) = Len(s.order) + 1
<1>1. PICK q \in Seq(Ids), o \in Seq(Ids), d \in [Ids -> Nat] : q = s.queue /\ o = s.order /\ d = s.degree
  BY DEF KahnInv
<1>2. /\ IsInjective(q) /\ IsInjective(o) /\ Range(q) \cap Range(o) = {} /\ q # <<>>
      /\ \A id \in Ids : d[id] = Cardinality(Undone(Range(o), id))
      /\ \A id \in Ids : d[id] = 0 <=> id \in Range(o) \cup Range(q)
      /\ \A n \in DOMAIN dagEdges : \A i \in DOMAIN o :
            dagEdges[n][2] = o[i] => \E k \in 1 .. i - 1 : o[k] = dagEdges[n][1]
  BY <1>1 DEF KahnInv
<1>3. PICK node \in Ids, rest \in Seq(Ids) : node = Head(q) /\ rest = Tail(q)
  BY <1>2, HeadTailProperties
<1>4. PICK c \in Nat : Len(q) = c + 1 /\ DOMAIN q = 1 .. (c + 1) /\ DOMAIN rest = 1 .. c /\ Len(rest) = c
                       /\ q[1] = node /\ \A i \in 1 .. c : rest[i] = q[i + 1]
  <2>1. Len(q) \in Nat /\ Len(q) # 0
    BY <1>2, EmptySeq
  <2>2. PICK c \in Nat : Len(q) = c + 1
    <3>1. PICK l \in Nat : l = Len(q) /\ l # 0
      BY <2>1
    <3>2. l - 1 \in Nat /\ l = (l - 1) + 1
      BY <3>1
    <3> QED BY <3>1, <3>2
  <2>3. Len(rest) = c /\ \A i \in 1 .. c : rest[i] = q[i + 1]
    BY <1>2, <1>3, <2>2, HeadTailProperties
  <2>4. q[1] = node
    BY <1>2, <1>3
  <2> QED BY <2>2, <2>3, <2>4, LenProperties
<1>5. /\ Range(q) = {node} \cup Range(rest) /\ node \notin Range(rest) /\ IsInjective(rest)
      /\ node \notin Range(o) /\ Range(rest) \cap Range(o) = {} /\ Range(rest) \subseteq Ids
  <2>1. \A i \in 1 .. (c + 1) : i = 1 \/ (i - 1 \in 1 .. c /\ q[i] = rest[i - 1])
    <3> SUFFICES ASSUME NEW i \in 1 .. (c + 1), i # 1 PROVE i - 1 \in 1 .. c /\ q[i] = rest[i - 1]
      OBVIOUS
    <3>1. i - 1 \in 1 .. c /\ (i - 1) + 1 = i
      OBVIOUS
    <3> QED BY <1>4, <3>1
  <2>2. \A i \in 1 .. c : i + 1 \in 1 .. (c + 1) /\ i + 1 # 1 /\ rest[i] = q[i + 1]
    BY <1>4
  <2>3. 1 \in 1 .. (c + 1)
    OBVIOUS
  <2>4. Range(q) = {node} \cup Range(rest)
    <3>1. ASSUME NEW x \in Range(q) PROVE x = node \/ x \in Range(rest)
      <4>1. PICK i \in 1 .. (c + 1) : q[i] = x
        BY <1>4, <3>1 DEF Range
      <4>2. CASE i = 1
        BY <1>4, <4>1, <4>2
      <4>3. CASE i # 1
        BY <1>4, <2>1, <4>1, <4>3 DEF Range
      <4> QED BY <4>2, <4>3
    <3>2. ASSUME NEW x, x = node \/ x \in Range(rest) PROVE x \in Range(q)
      BY <1>4, <2>2, <2>3, <3>2 DEF Range
    <3> QED BY <3>1, <3>2
  <2>5. node \notin Range(rest)
    <3> SUFFICES ASSUME NEW i \in 1 .. c, rest[i] = node PROVE FALSE
      BY <1>4 DEF Range
    <3> QED BY <1>2, <1>4, <2>2, <2>3 DEF IsInjective
  <2>6. IsInjective(rest)
    <3> SUFFICES ASSUME NEW i \in 1 .. c, NEW j \in 1 .. c, rest[i] = rest[j] PROVE i = j
      BY <1>4 DEF IsInjective
    <3>1. PICK a, b \in 1 .. (c + 1) : a = i + 1 /\ b = j + 1 /\ q[a] = q[b]
      BY <2>2
    <3>2. a = b
      BY <1>2, <1>4, <3>1 DEF IsInjective
    <3> QED BY <3>1, <3>2
  <2>7. node \notin Range(o) /\ Range(rest) \cap Range(o) = {}
    BY <1>2, <2>4
  <2> QED BY <2>4, <2>5, <2>6, <2>7, RangeCounts
<1>6. PICK L : L = Freeing(node, d)
  OBVIOUS
<1>7. L \in SUBSET (DOMAIN dagEdges) /\ \A n \in L : dagEdges[n] \in {<<node, id>> : id \in Ids}
  <2>1. L \in SUBSET (DOMAIN dagEdges) /\ \A n \in L : dagEdges[n][1] = node
    BY <1>6 DEF Freeing
  <2>2. ASSUME NEW n \in L PROVE dagEdges[n] \in {<<node, id>> : id \in Ids}
    <3>1. dagEdges[n] \in DagIds \X DagIds /\ dagEdges[n][2] \in Ids /\ dagEdges[n][1] = node
      BY <2>1 DEF DagTypes, EdgesKnown
    <3>2. dagEdges[n] = <<node, dagEdges[n][2]>>
      BY <3>1
    <3> QED BY <3>1, <3>2
  <2> QED BY <2>1, <2>2
<1>8. PICK freed, m : freed = Keeping(dagEdges, L) /\ m = Cardinality(L)
  OBVIOUS
<1>9. /\ freed \in Seq({<<node, id>> : id \in Ids}) /\ m \in Nat /\ DOMAIN freed = 1 .. m
      /\ \A k \in 1 .. m : Nth(L, k) \in L /\ freed[k] = dagEdges[Nth(L, k)]
      /\ \A k, l \in 1 .. m : k < l => Nth(L, k) < Nth(L, l)
      /\ \A i \in L : \E k \in 1 .. m : Nth(L, k) = i
  BY <1>7, <1>8, KeepingIs DEF DagTypes
<1>10. PICK added : added = [k \in DOMAIN freed |-> freed[k][2]]
  OBVIOUS
<1>11. /\ added \in Seq(Ids) /\ Len(added) = m /\ DOMAIN added = 1 .. m
       /\ \A k \in 1 .. m : added[k] = freed[k][2] /\ added[k] \in Ids /\ freed[k] = <<node, added[k]>>
  <2>1. \A k \in 1 .. m : freed[k][2] \in Ids /\ freed[k] = <<node, freed[k][2]>>
    <3> SUFFICES ASSUME NEW k \in 1 .. m PROVE freed[k][2] \in Ids /\ freed[k] = <<node, freed[k][2]>>
      OBVIOUS
    <3>1. freed[k] \in {<<node, id>> : id \in Ids}
      BY <1>9
    <3> QED BY <3>1
  <2>2. added \in [1 .. m -> Ids]
    BY <1>9, <1>10, <2>1
  <2> QED BY <1>9, <1>10, <2>1, <2>2, IsASeq, LenProperties
<1>12. PICK p : p = [id \in Ids |-> Cardinality(Passing(node, id))]
  OBVIOUS
<1>13. /\ p \in [Ids -> Nat] /\ \A id \in Ids : p[id] = Cardinality(Passing(node, id))
       /\ \A id \in Ids : IsFiniteSet(Passing(node, id))
  BY <1>12, EdgesPass
<1>14. Visit(s) = [queue |-> rest \o added, degree |-> [id \in Ids |-> d[id] - p[id]], order |-> Append(o, node)]
  <2>1. \A id : {n \in DOMAIN dagEdges : dagEdges[n] = <<Head(s.queue), id>>} = Passing(node, id)
    BY <1>1, <1>3 DEF Passing
  <2>2. {n \in DOMAIN dagEdges : /\ dagEdges[n][1] = Head(s.queue)
           /\ Cardinality({k \in {e \in DOMAIN dagEdges : dagEdges[e] = <<Head(s.queue), dagEdges[n][2]>>} : k <= n})
                = s.degree[dagEdges[n][2]]} = L
    BY <1>1, <1>3, <1>6, <2>1 DEF Freeing, Passing
  <2>3. Visit(s) = [queue |-> Tail(s.queue) \o [k \in DOMAIN Keeping(dagEdges, L) |-> Keeping(dagEdges, L)[k][2]],
                    degree |-> [id \in Ids |-> s.degree[id] - Cardinality(Passing(node, id))],
                    order |-> Append(s.order, Head(s.queue))]
    BY <2>1, <2>2, Zenon DEF Visit
  <2>4. [id \in Ids |-> s.degree[id] - Cardinality(Passing(node, id))] = [id \in Ids |-> d[id] - p[id]]
    BY <1>1, <1>13
  <2> QED BY <1>1, <1>3, <1>8, <1>10, <2>3, <2>4, Zenon
<1>15. PICK o2 \in Seq(Ids), l \in Nat :
         /\ o2 = Append(o, node) /\ l = Len(o) /\ Len(o2) = l + 1 /\ DOMAIN o = 1 .. l /\ DOMAIN o2 = 1 .. (l + 1)
         /\ o2[l + 1] = node /\ \A i \in 1 .. l : o2[i] = o[i]
  <2>1. PICK l \in Nat, o2 \in Seq(Ids) : l = Len(o) /\ o2 = Append(o, node)
    BY AppendProperties, LenProperties
  <2>2. Len(o2) = l + 1 /\ o2[l + 1] = node /\ \A i \in 1 .. l : o2[i] = o[i]
    BY <2>1, AppendProperties
  <2>3. DOMAIN o = 1 .. l /\ DOMAIN o2 = 1 .. (l + 1)
    BY <2>1, <2>2, LenProperties
  <2> QED BY <2>1, <2>2, <2>3
<1>16. \A i \in 1 .. (l + 1) : i \in 1 .. l \/ i = l + 1
  OBVIOUS
<1>17. \A i \in 1 .. l : i \in 1 .. (l + 1) /\ i # l + 1
  OBVIOUS
<1>18. Range(o2) = Range(o) \cup {node} /\ IsInjective(o2)
  <2>1. l + 1 \in 1 .. (l + 1)
    OBVIOUS
  <2>2. \A x : x \in Range(o2) <=> x \in Range(o) \/ x = node
    <3>1. ASSUME NEW x \in Range(o2) PROVE x \in Range(o) \/ x = node
      BY <1>15, <1>16, <3>1 DEF Range
    <3>2. ASSUME NEW x \in Range(o) PROVE x \in Range(o2)
      BY <1>15, <1>17, <3>2 DEF Range
    <3>3. node \in Range(o2)
      BY <1>15, <2>1 DEF Range
    <3> QED BY <3>1, <3>2, <3>3
  <2>3. IsInjective(o2)
    <3> SUFFICES ASSUME NEW i \in 1 .. (l + 1), NEW j \in 1 .. (l + 1), o2[i] = o2[j] PROVE i = j
      BY <1>15 DEF IsInjective
    <3>1. \A k \in 1 .. l : o[k] # node
      BY <1>5, <1>15 DEF Range
    <3> QED BY <1>2, <1>15, <1>16, <3>1 DEF IsInjective
  <2> QED BY <2>2, <2>3
<1>19. ASSUME NEW id \in Ids
       PROVE  /\ d[id] - p[id] \in Nat /\ p[id] <= d[id]
              /\ d[id] - p[id] = Cardinality(Undone(Range(o2), id))
  <2>1. PICK A, P : A = Undone(Range(o), id) /\ P = Passing(node, id)
    OBVIOUS
  <2>2. Undone(Range(o2), id) = A \ P
    BY <1>18, <2>1 DEF Undone, Passing, DagTypes
  <2>3. A \cap P = P
    BY <1>5, <2>1 DEF Undone, Passing
  <2>4. IsFiniteSet(A) /\ Cardinality(A) = d[id] /\ Cardinality(P) = p[id]
    BY <1>2, <1>13, <2>1, UndoneFinite
  <2>5. /\ Cardinality(A \ P) = Cardinality(A) - Cardinality(A \cap P)
        /\ IsFiniteSet(A \ P)
    BY <2>4, FS_Difference
  <2>6. Cardinality(A \ P) \in Nat /\ d[id] \in Nat /\ p[id] \in Nat
    BY <1>13, <2>5, FS_CardinalityType
  <2>7. Cardinality(A \ P) = d[id] - p[id]
    BY <2>3, <2>4, <2>5
  <2> QED BY <2>2, <2>6, <2>7
<1>20. ASSUME NEW n \in L
       PROVE  /\ dagEdges[n][2] \in Ids /\ n \in Passing(node, dagEdges[n][2])
              /\ Cardinality({k \in Passing(node, dagEdges[n][2]) : k <= n}) = d[dagEdges[n][2]]
  <2>1. dagEdges[n] \in {<<node, id>> : id \in Ids} /\ n \in DOMAIN dagEdges
    BY <1>7
  <2>2. dagEdges[n][2] \in Ids /\ dagEdges[n] = <<node, dagEdges[n][2]>>
    BY <2>1
  <2> QED BY <1>6, <2>1, <2>2 DEF Freeing, Passing
<1>21. ASSUME NEW k \in 1 .. m
       PROVE  /\ d[added[k]] = p[added[k]] /\ d[added[k]] # 0 /\ added[k] \in Ids
              /\ added[k] \notin Range(o) /\ added[k] \notin Range(q)
  <2>1. PICK n \in L, id \in Ids : n = Nth(L, k) /\ id = dagEdges[n][2] /\ id = added[k]
    BY <1>9, <1>11
  <2>2. id \in Ids /\ n \in Passing(node, id) /\ Cardinality({e \in Passing(node, id) : e <= n}) = d[id]
    BY <1>20, <2>1
  <2>3. d[id] \in 1 .. p[id]
    BY <1>13, <2>2, EdgesPass
  <2>4. d[id] \in Nat /\ p[id] \in Nat /\ p[id] <= d[id] /\ 1 <= d[id] /\ d[id] <= p[id]
    BY <1>13, <1>19, <2>2, <2>3
  <2>5. d[id] = p[id] /\ d[id] # 0
    BY <2>4
  <2> QED BY <1>2, <2>1, <2>2, <2>5
<1>22. IsInjective(added)
  <2>1. ASSUME NEW k \in 1 .. m, NEW j \in 1 .. m, k < j PROVE added[k] # added[j]
    <3>1. PICK x \in L, y \in L, id \in Ids : /\ x = Nth(L, k) /\ y = Nth(L, j) /\ x < y
                                          /\ id = dagEdges[x][2] /\ id = added[k] /\ dagEdges[y][2] = added[j]
      <4>1. PICK x, y : x = Nth(L, k) /\ y = Nth(L, j)
        OBVIOUS
      <4>2. x \in L /\ y \in L /\ x < y
        BY <1>9, <2>1, <4>1
      <4>3. added[k] = dagEdges[x][2] /\ added[j] = dagEdges[y][2] /\ added[k] \in Ids
        BY <1>9, <1>11, <4>1
      <4> QED BY <4>1, <4>2, <4>3
    <3>2. CASE added[j] = id
      <4>1. /\ id \in Ids /\ x \in Passing(node, id) /\ y \in Passing(node, id)
            /\ Cardinality({e \in Passing(node, id) : e <= x}) = d[id]
            /\ Cardinality({e \in Passing(node, id) : e <= y}) = d[id]
        BY <1>20, <3>1, <3>2
      <4>2. Cardinality({e \in Passing(node, id) : e <= x}) < Cardinality({e \in Passing(node, id) : e <= y})
        <5>1. \A n \in Passing(node, id) : \A r \in Passing(node, id) :
                n < r => Cardinality({e \in Passing(node, id) : e <= n})
                           < Cardinality({e \in Passing(node, id) : e <= r})
          BY EdgesPass
        <5> QED BY <3>1, <4>1, <5>1
      <4>3. d[id] < d[id] /\ d[id] \in Nat
        BY <4>1, <4>2
      <4> QED BY <4>3
    <3> QED BY <3>1, <3>2
  <2> SUFFICES ASSUME NEW k \in 1 .. m, NEW j \in 1 .. m, added[k] = added[j] PROVE k = j
    BY <1>11 DEF IsInjective
  <2>2. k < j \/ j < k \/ k = j
    BY <1>9
  <2> QED BY <2>1, <2>2
<1>23. \A k \in 1 .. m : added[k] \notin Range(rest) /\ added[k] # node /\ added[k] \notin Range(o)
  BY <1>5, <1>21
<1>24. PICK q2 : q2 = rest \o added
  OBVIOUS
<1>25. /\ q2 \in Seq(Ids) /\ Len(q2) = c + m /\ DOMAIN q2 = 1 .. (c + m)
       /\ \A i \in 1 .. (c + m) : q2[i] = IF i <= c THEN rest[i] ELSE added[i - c]
  <2>1. /\ q2 \in Seq(Ids) /\ Len(q2) = Len(rest) + Len(added)
        /\ \A i \in 1 .. Len(rest) + Len(added) :
             q2[i] = IF i <= Len(rest) THEN rest[i] ELSE added[i - Len(rest)]
    BY <1>11, <1>24, ConcatProperties
  <2>2. Len(rest) = c /\ Len(added) = m
    BY <1>4, <1>11
  <2> QED BY <2>1, <2>2, LenProperties
<1>26. /\ \A i \in 1 .. (c + m) : \/ i \in 1 .. c /\ q2[i] = rest[i]
                                  \/ i \notin 1 .. c /\ i - c \in 1 .. m /\ q2[i] = added[i - c]
       /\ \A i \in 1 .. c : i \in 1 .. (c + m) /\ q2[i] = rest[i]
       /\ \A i \in 1 .. m : i + c \in 1 .. (c + m) /\ q2[i + c] = added[i]
  <2>1. ASSUME NEW i \in 1 .. (c + m)
        PROVE  \/ i \in 1 .. c /\ q2[i] = rest[i]
               \/ i \notin 1 .. c /\ i - c \in 1 .. m /\ q2[i] = added[i - c]
    <3>1. CASE i <= c
      BY <1>25, <3>1
    <3>2. CASE ~(i <= c)
      <4>1. i - c \in 1 .. m /\ i \notin 1 .. c
        BY <1>9, <3>2
      <4> QED BY <1>25, <3>2, <4>1
    <3> QED BY <3>1, <3>2
  <2>2. ASSUME NEW i \in 1 .. c PROVE i \in 1 .. (c + m) /\ q2[i] = rest[i]
    BY <1>9, <1>25
  <2>3. ASSUME NEW i \in 1 .. m PROVE i + c \in 1 .. (c + m) /\ q2[i + c] = added[i]
    <3>1. i + c \in 1 .. (c + m) /\ ~(i + c <= c) /\ (i + c) - c = i
      BY <1>9
    <3>2. PICK x \in 1 .. (c + m) : x = i + c /\ ~(x <= c) /\ x - c = i
      BY <3>1
    <3>3. q2[x] = added[i]
      BY <1>25, <3>2
    <3> QED BY <3>2, <3>3
  <2> QED BY <2>1, <2>2, <2>3
<1>27. Range(q2) = Range(rest) \cup Range(added)
  <2>1. ASSUME NEW x \in Range(q2) PROVE x \in Range(rest) \cup Range(added)
    <3>1. PICK i \in 1 .. (c + m) : q2[i] = x
      BY <1>25, <2>1 DEF Range
    <3> QED BY <1>4, <1>11, <1>26, <3>1 DEF Range
  <2>2. ASSUME NEW x \in Range(rest) PROVE x \in Range(q2)
    BY <1>4, <1>25, <1>26, <2>2 DEF Range
  <2>3. ASSUME NEW x \in Range(added) PROVE x \in Range(q2)
    <3>1. PICK i \in 1 .. m : added[i] = x
      BY <1>11, <2>3 DEF Range
    <3>2. PICK j \in 1 .. (c + m) : q2[j] = x
      BY <1>26, <3>1
    <3> QED BY <1>25, <3>2 DEF Range
  <2> QED BY <2>1, <2>2, <2>3
<1>28. IsInjective(q2)
  <2> SUFFICES ASSUME NEW i \in 1 .. (c + m), NEW j \in 1 .. (c + m), q2[i] = q2[j] PROVE i = j
    BY <1>25 DEF IsInjective
  <2>1. ASSUME NEW x \in 1 .. c, NEW y \in 1 .. m PROVE rest[x] # added[y]
    BY <1>4, <1>23 DEF Range
  <2>2. CASE i \in 1 .. c /\ j \in 1 .. c
    BY <1>4, <1>5, <1>26, <2>2 DEF IsInjective
  <2>3. CASE i \notin 1 .. c /\ j \notin 1 .. c
    <3>1. PICK x, y \in 1 .. m : x = i - c /\ y = j - c /\ added[x] = added[y]
      BY <1>26, <2>3
    <3>2. x = y
      BY <1>11, <1>22, <3>1 DEF IsInjective
    <3> QED BY <3>1, <3>2
  <2> QED BY <1>26, <2>1, <2>2, <2>3
<1>29. PICK d2 : d2 = [id \in Ids |-> d[id] - p[id]]
  OBVIOUS
<1>30. d2 \in [Ids -> Nat] /\ \A id \in Ids : d2[id] = d[id] - p[id]
  BY <1>19, <1>29
<1>31. \A id \in Ids : d2[id] = Cardinality(Undone(Range(o2), id))
  BY <1>19, <1>30
<1>32. ASSUME NEW id \in Ids
       PROVE  d2[id] = 0 <=> id \in Range(o2) \cup Range(q2)
  <2>1. CASE d[id] = 0
    <3>1. d[id] - p[id] \in Nat /\ p[id] \in Nat /\ p[id] <= d[id]
      BY <1>13, <1>19
    <3>2. d2[id] = 0
      BY <1>30, <2>1, <3>1
    <3>3. id \in Range(o) \cup Range(q)
      BY <1>2, <2>1
    <3> QED BY <1>5, <1>18, <1>27, <3>2, <3>3
  <2>2. CASE d[id] # 0
    <3>1. id \notin Range(o) /\ id \notin Range(q)
      BY <1>2, <2>2
    <3>2. id \notin Range(o2) /\ id \notin Range(rest)
      BY <1>5, <1>18, <3>1
    <3>3. d2[id] = 0 <=> d[id] = p[id]
      <4>1. d[id] \in Nat /\ p[id] \in Nat
        BY <1>13
      <4> QED BY <1>30, <4>1
    <3>4. ASSUME id \in Range(added) PROVE d[id] = p[id]
      BY <1>11, <1>21, <3>4 DEF Range
    <3>5. ASSUME d[id] = p[id] PROVE id \in Range(added)
      <4>1. Passing(node, id) # {}
        BY <1>13, <2>2, <3>5, FS_EmptySet
      <4>2. PICK n \in Passing(node, id) : Cardinality({k \in Passing(node, id) : k <= n}) = p[id]
        BY <1>13, <4>1, EdgesPass
      <4>3. n \in DOMAIN dagEdges /\ dagEdges[n][1] = node /\ dagEdges[n][2] = id
        BY DEF Passing
      <4>4. n \in L
        BY <1>6, <3>5, <4>2, <4>3 DEF Freeing
      <4>5. PICK k \in 1 .. m : Nth(L, k) = n
        BY <1>9, <4>4
      <4>6. added[k] = id
        BY <1>9, <1>11, <4>3, <4>5
      <4> QED BY <1>11, <4>6 DEF Range
    <3> QED BY <1>27, <3>2, <3>3, <3>4, <3>5
  <2> QED BY <2>1, <2>2
<1>33. Range(q2) \cap Range(o2) = {}
  <2>1. \A x \in Range(added) : x # node /\ x \notin Range(o)
    BY <1>11, <1>23 DEF Range
  <2> QED BY <1>5, <1>18, <1>27, <2>1
<1>34. ASSUME NEW n \in DOMAIN dagEdges, NEW i \in DOMAIN o2, dagEdges[n][2] = o2[i]
       PROVE  \E k \in 1 .. i - 1 : o2[k] = dagEdges[n][1]
  <2>1. CASE i \in 1 .. l
    <3>1. PICK k \in 1 .. i - 1 : o[k] = dagEdges[n][1]
      BY <1>2, <1>15, <1>34, <2>1
    <3>2. k \in 1 .. l
      BY <2>1
    <3> QED BY <1>15, <3>1, <3>2
  <2>2. CASE i = l + 1
    <3>1. d[node] = 0
      BY <1>2, <1>5
    <3>2. Undone(Range(o), node) = {}
      BY <1>2, <3>1, UndoneFinite
    <3>3. dagEdges[n][1] \in Range(o)
      BY <1>15, <1>34, <2>2, <3>2 DEF Undone
    <3>4. PICK k \in 1 .. l : o[k] = dagEdges[n][1]
      BY <1>15, <3>3 DEF Range
    <3>5. k \in 1 .. i - 1
      BY <2>2
    <3> QED BY <1>15, <3>4, <3>5
  <2> QED BY <1>15, <1>16, <2>1, <2>2
<1>35. KahnInv(q2, d2, o2)
  BY <1>15, <1>18, <1>25, <1>28, <1>30, <1>31, <1>32, <1>33, <1>34 DEF KahnInv
<1>36. Visit(s).queue = q2 /\ Visit(s).degree = d2 /\ Visit(s).order = o2
  BY <1>14, <1>15, <1>24, <1>29
<1> QED BY <1>1, <1>15, <1>35, <1>36

\* The turns up to the k-th.
KahnStart == [queue |-> Sources, degree |-> [id \in Ids |-> InDegree(id)], order |-> <<>>]

RunOf(k, g) ==
  g = [n \in 0 .. k |-> IF n = 0 THEN KahnStart
                        ELSE IF g[n - 1].queue = <<>> THEN g[n - 1] ELSE Visit(g[n - 1])]

LEMMA Runs ==
  ASSUME NEW k \in Nat
  PROVE  \E g : RunOf(k, g)
<1> DEFINE Bad == {i \in Nat : ~ \E g : RunOf(i, g)}
<1>1. ASSUME Bad # {} PROVE FALSE
  <2>1. PICK m \in Bad : \A i \in Bad : m <= i
    BY <1>1, NatLeast
  <2>2. m \in Nat /\ ~ \E g : RunOf(m, g)
    BY <2>1
  <2>3. CASE m = 0
    <3>1. PICK h : h = [i \in 0 .. 0 |-> KahnStart]
      OBVIOUS
    <3>2. h = [i \in 0 .. 0 |-> IF i = 0 THEN KahnStart
                                ELSE IF h[i - 1].queue = <<>> THEN h[i - 1] ELSE Visit(h[i - 1])]
      BY <3>1
    <3> QED BY <2>2, <2>3, <3>2 DEF RunOf
  <2>4. CASE m > 0
    <3>1. PICK n \in Nat : m = n + 1
      BY <2>2, <2>4
    <3>2. n \notin Bad
      BY <2>1, <3>1
    <3>3. PICK g : RunOf(n, g)
      BY <3>2
    <3>4. PICK next : next = IF g[n].queue = <<>> THEN g[n] ELSE Visit(g[n])
      OBVIOUS
    <3>5. PICK h : h = [i \in 0 .. m |-> IF i = m THEN next ELSE g[i]]
      OBVIOUS
    <3>6. ASSUME NEW i \in 0 .. m
          PROVE  h[i] = IF i = 0 THEN KahnStart ELSE IF h[i - 1].queue = <<>> THEN h[i - 1] ELSE Visit(h[i - 1])
      <4>1. CASE i = m
        <5>1. i # 0 /\ i - 1 = n /\ n \in 0 .. m /\ n # m
          BY <3>1, <4>1
        <5>2. h[i] = next /\ h[i - 1] = g[n]
          BY <3>5, <4>1, <5>1
        <5> QED BY <3>4, <5>1, <5>2
      <4>2. CASE i # m
        <5>1. i \in 0 .. n /\ (i # 0 => i - 1 \in 0 .. m /\ i - 1 # m)
          BY <3>1, <4>2
        <5>2. h[i] = g[i] /\ (i # 0 => h[i - 1] = g[i - 1])
          BY <3>5, <4>2, <5>1
        <5>3. g[i] = IF i = 0 THEN KahnStart ELSE IF g[i - 1].queue = <<>> THEN g[i - 1] ELSE Visit(g[i - 1])
          BY <3>3, <5>1 DEF RunOf
        <5> QED BY <5>2, <5>3
      <4> QED BY <4>1, <4>2
    <3>7. h = [i \in 0 .. m |-> IF i = 0 THEN KahnStart
                                ELSE IF h[i - 1].queue = <<>> THEN h[i - 1] ELSE Visit(h[i - 1])]
      <4>1. h = [i \in 0 .. m |-> h[i]]
        BY <3>5
      <4> QED BY <3>6, <4>1
    <3> QED BY <2>2, <3>7 DEF RunOf
  <2> QED BY <2>2, <2>3, <2>4
<1> QED BY <1>1

LEMMA KahnRun ==
  ASSUME DagTypes
  PROVE  \E g : RunOf(Len(dagNodes), g) /\ Kahn = g[Len(dagNodes)].order
<1>1. PICK N \in Nat : N = Len(dagNodes)
  BY LenProperties DEF DagTypes
<1>2. \E g : RunOf(N, g)
  BY Runs
<1>3. PICK g : g = CHOOSE f : RunOf(N, f)
  OBVIOUS
<1>4. RunOf(N, g)
  BY <1>2, <1>3
<1>5. Kahn = g[N].order
  BY <1>1, <1>3, Zenon DEF Kahn, RunOf, KahnStart
<1> QED BY <1>1, <1>4, <1>5

LEMMA KahnKeeps ==
  ASSUME DagTypes, EdgesKnown, NEW N \in Nat, NEW g, RunOf(N, g)
  PROVE  \A n \in 0 .. N : /\ KahnInv(g[n].queue, g[n].degree, g[n].order)
                           /\ g[n].queue = <<>> \/ Len(g[n].order) = n
<1> DEFINE Reached(n) == /\ KahnInv(g[n].queue, g[n].degree, g[n].order)
                         /\ (g[n].queue = <<>> \/ Len(g[n].order) = n)
           Bad == {n \in 0 .. N : ~Reached(n)}
<1>1. \A n \in 0 .. N : g[n] = IF n = 0 THEN KahnStart
                               ELSE IF g[n - 1].queue = <<>> THEN g[n - 1] ELSE Visit(g[n - 1])
  BY DEF RunOf
<1>2. ASSUME Bad # {} PROVE FALSE
  <2>1. Bad \in SUBSET Nat
    OBVIOUS
  <2>2. PICK m \in Bad : \A i \in Bad : m <= i
    <3> HIDE DEF Bad
    <3> QED BY <1>2, <2>1, NatLeast
  <2>3. m \in 0 .. N /\ ~Reached(m)
    BY <2>2
  <2>4. CASE m = 0
    <3>1. g[m] = KahnStart
      BY <1>1, <2>3, <2>4
    <3>2. KahnInv(g[m].queue, g[m].degree, g[m].order) /\ Len(g[m].order) = 0
      BY <3>1, KahnBegins DEF KahnStart
    <3> QED BY <2>3, <2>4, <3>2
  <2>5. CASE m # 0
    <3>1. PICK n \in 0 .. N : n = m - 1 /\ m = n + 1 /\ n \in Nat
      BY <2>3, <2>5
    <3>2. Reached(n)
      BY <2>2, <3>1
    <3>3. g[m] = IF g[n].queue = <<>> THEN g[n] ELSE Visit(g[n])
      BY <1>1, <2>3, <2>5, <3>1
    <3>4. CASE g[n].queue = <<>>
      BY <2>3, <3>2, <3>3, <3>4
    <3>5. CASE g[n].queue # <<>>
      <4>1. Len(g[n].order) = n
        BY <3>2, <3>5
      <4>2. PICK s : s = g[n]
        OBVIOUS
      <4>3. /\ KahnInv(Visit(s).queue, Visit(s).degree, Visit(s).order)
            /\ Len(Visit(s).order) = Len(s.order) + 1
        BY <3>2, <3>5, <4>2, KahnTurns
      <4>4. Reached(m)
        BY <3>1, <3>3, <3>5, <4>1, <4>2, <4>3
      <4> QED BY <2>3, <4>4
    <3> QED BY <3>4, <3>5
  <2> QED BY <2>4, <2>5
<1> QED BY <1>2

\* Kahn's loop passes every node if, and only if, there is an order.
LEMMA KahnExact ==
  ASSUME DagTypes, EdgesKnown
  PROVE  /\ Len(Kahn) = Len(dagNodes) => IsOrder(dagNodes, dagEdges, Kahn)
         /\ Acyclic /\ IsInjective(dagNodes) => Len(Kahn) = Len(dagNodes)
<1>1. PICK N \in Nat : N = Len(dagNodes) /\ Range(dagNodes) = Ids /\ Cardinality(Ids) \in Nat
                       /\ IsFiniteSet(Ids) /\ Cardinality(Ids) <= N
                       /\ (Cardinality(Ids) = N <=> IsInjective(dagNodes))
  BY LenProperties, RangeCounts DEF DagTypes, Ids
<1>2. PICK g : RunOf(N, g) /\ Kahn = g[N].order
  BY <1>1, KahnRun
<1>3. PICK q, d, o : q = g[N].queue /\ d = g[N].degree /\ o = g[N].order
  OBVIOUS
<1>4. KahnInv(q, d, o) /\ (q = <<>> \/ Len(o) = N)
  BY <1>1, <1>2, <1>3, KahnKeeps
<1>5. /\ o \in Seq(Ids) /\ IsInjective(o) /\ Kahn = o
      /\ \A id \in Ids : d[id] = Cardinality(Undone(Range(o), id))
      /\ \A id \in Ids : d[id] = 0 <=> id \in Range(o) \cup Range(q)
      /\ \A n \in DOMAIN dagEdges : \A i \in DOMAIN o :
            dagEdges[n][2] = o[i] => \E k \in 1 .. i - 1 : o[k] = dagEdges[n][1]
  BY <1>2, <1>3, <1>4 DEF KahnInv
<1>6. /\ Cardinality(Range(o)) = Len(o) /\ Range(o) \subseteq Ids /\ Len(o) \in Nat
      /\ Cardinality(Range(o)) = Cardinality(Ids) => Range(o) = Ids
      /\ Len(o) <= Cardinality(Ids)
  <2>1. Cardinality(Range(o)) = Len(o) /\ Range(o) \subseteq Ids /\ Len(o) \in Nat
    BY <1>5, RangeCounts, LenProperties
  <2> QED BY <1>1, <2>1, FS_Subset
<1>7. ASSUME Len(o) = N
      PROVE  IsOrder(dagNodes, dagEdges, o)
  <2>1. Cardinality(Ids) = N
    BY <1>1, <1>6, <1>7
  <2>2. IsInjective(dagNodes) /\ Range(o) = Range(dagNodes)
    BY <1>1, <1>6, <1>7, <2>1
  <2> QED BY <1>1, <1>5, <1>7, <2>2 DEF IsOrder, EdgesKnown
<1>8. ASSUME Acyclic, IsInjective(dagNodes), Len(o) # N
      PROVE  FALSE
  <2>1. q = <<>> /\ Range(q) = {}
    BY <1>4, <1>8, EmptySeq DEF Range
  <2>2. PICK S : S = Ids \ Range(o)
    OBVIOUS
  <2>3. S # {}
    BY <1>1, <1>6, <1>8, <2>2
  <2>4. PICK id \in S : \A n \in DOMAIN dagEdges : ~(dagEdges[n][2] = id /\ dagEdges[n][1] \in S)
    BY <1>8, <2>2, <2>3 DEF Acyclic
  <2>5. Undone(Range(o), id) = {}
    BY <2>2, <2>4 DEF Undone, EdgesKnown
  <2>6. d[id] = 0
    BY <1>5, <2>2, <2>5, UndoneFinite
  <2> QED BY <1>5, <2>1, <2>2, <2>6
<1> QED BY <1>1, <1>5, <1>7, <1>8

\* What an order shows of its DAG.
LEMMA OrderShows ==
  ASSUME DagTypes, NEW o, IsOrder(dagNodes, dagEdges, o)
  PROVE  /\ Acyclic /\ IsInjective(dagNodes) /\ EdgesKnown
         /\ o \notin {<<"KeyError">>, <<"ValueError">>}
         /\ Range(o) = Ids /\ Len(o) = Len(dagNodes)
         /\ ~ \E n \in DOMAIN o, m \in DOMAIN dagEdges :
                dagEdges[m][2] = o[n] /\ \A k \in 1 .. n - 1 : o[k] # dagEdges[m][1]
<1>1. /\ o \in Seq(Ids) /\ IsInjective(o) /\ Range(o) = Ids /\ Len(o) = Len(dagNodes)
      /\ IsInjective(dagNodes) /\ EdgesKnown
      /\ \A n \in DOMAIN dagEdges : \A i \in DOMAIN o :
            dagEdges[n][2] = o[i] => \E k \in 1 .. i - 1 : o[k] = dagEdges[n][1]
  BY DEF IsOrder, Ids, EdgesKnown
<1>2. ASSUME NEW S \in SUBSET Ids, S # {}
      PROVE  \E id \in S : \A n \in DOMAIN dagEdges : ~(dagEdges[n][2] = id /\ dagEdges[n][1] \in S)
  <2>1. PICK Where : Where = {i \in DOMAIN o : o[i] \in S}
    OBVIOUS
  <2>2. Where \in SUBSET Nat /\ DOMAIN o = 1 .. Len(o) /\ Len(o) \in Nat
    BY <1>1, <2>1, LenProperties
  <2>3. Where # {}
    BY <1>1, <1>2, <2>1 DEF Range
  <2>4. PICK m \in Where : \A i \in Where : m <= i
    BY <2>2, <2>3, NatLeast
  <2>5. PICK id \in S : id = o[m] /\ m \in DOMAIN o
    BY <2>1
  <2>6. ASSUME NEW n \in DOMAIN dagEdges, dagEdges[n][2] = id, dagEdges[n][1] \in S PROVE FALSE
    <3>1. PICK k \in 1 .. m - 1 : o[k] = dagEdges[n][1]
      BY <1>1, <2>5, <2>6
    <3>2. k \in DOMAIN o /\ ~(m <= k)
      BY <2>2, <2>5
    <3> QED BY <2>1, <2>4, <2>6, <3>1, <3>2
  <2> QED BY <2>6
<1>3. ASSUME NEW x, x \in {"KeyError", "ValueError"}, o = <<x>> PROVE FALSE
  <2>1. 1 \in DOMAIN o /\ o[1] = x
    BY <1>3
  <2>2. x \in Ids
    BY <1>1, <2>1 DEF Range
  <2>3. x \in DagIds
    BY <2>2, RangeCounts DEF DagTypes, Ids
  <2> QED BY <1>3, <2>3, MessageAssumption
<1>4. o \notin {<<"KeyError">>, <<"ValueError">>}
  <2>1. \A x \in {"KeyError", "ValueError"} : o # <<x>>
    BY <1>3
  <2>2. o # <<"KeyError">>
    BY <2>1
  <2>3. o # <<"ValueError">>
    BY <2>1
  <2> QED BY <2>2, <2>3
<1>5. Acyclic
  BY <1>2 DEF Acyclic
<1> QED BY <1>1, <1>4, <1>5

MsgInv ==
  /\ DagTypes /\ msg.aligned \in {"nothing", "zeros", "hash"}
  /\ topoCache # <<>> => IsOrder(dagNodes, dagEdges, topoCache[1])

LEMMA MsgStarts ==
  ASSUME MessageInit
  PROVE  MsgInv
<1>1. msg.aligned \in {"nothing", "zeros", "hash"}
  <2>1. PlainMessage.aligned = "nothing"
    BY DEF PlainMessage
  <2>2. ASSUME msg \in Envelopes PROVE msg.aligned = "nothing"
    BY <2>2 DEF Envelopes
  <2>3. ASSUME msg \in Payloads PROVE msg.aligned \in {"nothing", "zeros", "hash"}
    BY <2>3 DEF Payloads
  <2> QED BY <2>1, <2>2, <2>3 DEF MessageInit
<1> QED BY <1>1, EmptySeq DEF MessageInit, MsgInv, DagTypes

\* What topological_order answers, cached or not.
LEMMA OrderAnswers ==
  ASSUME MsgInv, ~Raises
  PROVE  IsOrder(dagNodes, dagEdges, Order)
<1>1. CASE topoCache # <<>>
  BY <1>1 DEF MsgInv, Order
<1>2. CASE topoCache = <<>>
  <2>1. EdgesKnown
    BY <1>2 DEF Raises, Order, EdgesKnown
  <2>2. Len(Kahn) = Len(dagNodes) /\ Order = Kahn
    BY <1>2, <2>1 DEF Raises, Order, EdgesKnown
  <2> QED BY <2>1, <2>2, KahnExact DEF MsgInv
<1> QED BY <1>1, <1>2

LEMMA MsgInductive ==
  ASSUME MsgInv, [MessageNext]_messageVars
  PROVE  MsgInv'
<1>1. ASSUME NEW id \in DagIds, AddNode(id)
      PROVE  MsgInv'
  <2>1. dagNodes' \in Seq(DagIds) /\ topoCache' = <<>> /\ dagEdges' = dagEdges /\ msg' = msg
    BY <1>1, AppendProperties DEF AddNode, MsgInv, DagTypes
  <2> QED BY <2>1 DEF MsgInv, DagTypes
<1>2. ASSUME NEW from \in DagIds, NEW to \in DagIds, AddEdge(from, to)
      PROVE  MsgInv'
  <2>1. <<from, to>> \in DagIds \X DagIds
    OBVIOUS
  <2>2. dagEdges' \in Seq(DagIds \X DagIds)
    BY <1>2, <2>1, AppendProperties DEF AddEdge, MsgInv, DagTypes
  <2> QED BY <1>2, <2>2 DEF AddEdge, CacheAfterEdge, MsgInv, DagTypes
<1>3. CASE TopologicalOrder
  <2>1. IsOrder(dagNodes, dagEdges, Order)
    BY <1>3, OrderAnswers DEF TopologicalOrder
  <2>2. topoCache' = <<Order>> /\ dagNodes' = dagNodes /\ dagEdges' = dagEdges /\ msg' = msg
    BY <1>3 DEF TopologicalOrder
  <2>3. PICK o, nodes, edges : o = Order /\ nodes = dagNodes /\ edges = dagEdges
    OBVIOUS
  <2>4. IsOrder(nodes, edges, o) /\ topoCache'[1] = o /\ nodes = dagNodes' /\ edges = dagEdges'
    BY <2>1, <2>2, <2>3
  <2>5. IsOrder(dagNodes', dagEdges', topoCache'[1])
    BY <2>4
  <2> QED BY <2>2, <2>5 DEF MsgInv, DagTypes, IsOrder
<1>4. CASE UNCHANGED messageVars
  <2>1. UNCHANGED <<dagNodes, dagEdges, topoCache, msg>>
    BY <1>4 DEF messageVars
  <2>2. topoCache' # <<>> => IsOrder(dagNodes', dagEdges', topoCache'[1])
    BY <2>1 DEF MsgInv
  <2> QED BY <2>1, <2>2 DEF MsgInv, DagTypes, IsOrder
<1> QED BY <1>1, <1>2, <1>3, <1>4 DEF MessageNext

LEMMA MsgInvSafe ==
  ASSUME MsgInv
  PROVE  MessagesSound
<1>1. ASSUME IsDag, ~BreaksR3, ~Raises
      PROVE  /\ Acyclic /\ IsInjective(dagNodes)
             /\ Range(Order) = Ids /\ Len(Order) = Len(dagNodes) /\ ~BreaksR14
  <2>1. IsOrder(dagNodes, dagEdges, Order)
    BY <1>1, OrderAnswers
  <2>2. PICK o : o = Order
    OBVIOUS
  <2> QED BY <2>1, <2>2, OrderShows DEF MsgInv, BreaksR14
<1>2. ASSUME IsDag, ~BreaksR3, Acyclic, IsInjective(dagNodes)
      PROVE  ~Raises
  <2>1. EdgesKnown
    BY <1>2 DEF BreaksR3, EdgesKnown
  <2>2. CASE topoCache # <<>>
    BY <2>2, OrderShows DEF MsgInv, Raises, Order
  <2>3. CASE topoCache = <<>>
    <3>1. Len(Kahn) = Len(dagNodes) /\ IsOrder(dagNodes, dagEdges, Kahn)
      BY <1>2, <2>1, KahnExact DEF MsgInv
    <3>2. Order = Kahn
      BY <2>1, <2>3, <3>1 DEF Order, EdgesKnown
    <3> QED BY <3>1, <3>2, OrderShows DEF MsgInv, Raises
  <2> QED BY <2>2, <2>3
<1>3. OrderExact
  BY <1>1, <1>2 DEF OrderExact
<1>4. SdkWithinCore
  <2> SUFFICES ASSUME Accepts PROVE CoreAccepts <=> ~CoreOnly
    BY DEF SdkWithinCore
  <2>1. ASSUME CoreOnly PROVE ~CoreAccepts
    BY <2>1 DEF Accepts, CoreAccepts, CoreOnly, BreaksR20
  <2>2. ASSUME ~CoreOnly PROVE CoreAccepts
    BY <2>2 DEF MsgInv, Accepts, CoreAccepts, CoreOnly, BreaksR7, BreaksR9, BreaksR21
  <2> QED BY <2>1, <2>2
<1> QED BY <1>3, <1>4 DEF MessagesSound

-----------------------------------------------------------------------------
(***************************************************************************)
(* codec.py: a frame that decodes is of the cogon that is held, and the    *)
(* value that comes out is in the same step of 1/255 as the first.         *)
(***************************************************************************)
LEMMA DivUnique ==
  ASSUME NEW a \in Nat, NEW b \in Nat \ {0}
  PROVE  /\ a \div b \in Nat /\ b * (a \div b) <= a /\ a < b * ((a \div b) + 1)
         /\ \A q \in Nat : b * q <= a /\ a < b * (q + 1) => a \div b = q
<1>1. a \div b \in Nat /\ b * (a \div b) <= a /\ a < b * ((a \div b) + 1)
  OBVIOUS
<1>2. PICK d \in Nat : d = a \div b /\ b * d <= a /\ a < b * (d + 1)
  BY <1>1
<1>3. ASSUME NEW q \in Nat, b * q <= a, a < b * (q + 1) PROVE d = q
  <2>1. CASE d < q
    <3>1. PICK k \in Nat : q = d + 1 + k
      BY <2>1
    <3>2. b * q = b * (d + 1) + b * k /\ b * k \in Nat /\ b * (d + 1) \in Nat
      BY <3>1
    <3> QED BY <1>2, <1>3, <3>2
  <2>2. CASE q < d
    <3>1. PICK k \in Nat : d = q + 1 + k
      BY <2>2
    <3>2. b * d = b * (q + 1) + b * k /\ b * k \in Nat /\ b * (q + 1) \in Nat
      BY <3>1
    <3> QED BY <1>2, <1>3, <3>2
  <2> QED BY <2>1, <2>2
<1> QED BY <1>1, <1>2, <1>3

\* The step a value is in.
LEMMA Quantized ==
  ASSUME NEW v \in 0 .. Grain
  PROVE  /\ ToUint8(v) \in 0 .. 255
         /\ Grain * ToUint8(v) <= v * 255 /\ v * 255 < Grain * (ToUint8(v) + 1)
         /\ \A q \in Nat : Grain * q <= v * 255 /\ v * 255 < Grain * (q + 1) => ToUint8(v) = q
<1>1. Grain \in Nat \ {0} /\ v \in Nat /\ v <= Grain /\ v * 255 \in Nat
  BY CodecAssumption
<1>2. PICK d \in Nat : /\ d = (v * 255) \div Grain
                       /\ Grain * d <= v * 255 /\ v * 255 < Grain * (d + 1)
                       /\ \A q \in Nat : Grain * q <= v * 255 /\ v * 255 < Grain * (q + 1) => d = q
  BY <1>1, DivUnique
<1>3. d <= 255
  <2>1. CASE d >= 256
    <3>1. PICK k \in Nat : d = 256 + k
      BY <2>1, <1>2
    <3>2. Grain * d = Grain * 256 + Grain * k /\ Grain * k \in Nat
      BY <1>1, <3>1
    <3> QED BY <1>1, <1>2, <3>2
  <2> QED BY <1>2, <2>1
<1>4. ToUint8(v) = d
  BY <1>2, <1>3 DEF ToUint8
<1> QED BY <1>2, <1>3, <1>4

\* What comes out of a step is not above what went in, and in the same step.
LEMMA SameStep ==
  ASSUME NEW v \in 0 .. Grain, NEW w, w = ToFloat(ToUint8(v))
  PROVE  w \in 0 .. Grain /\ w <= v /\ ToUint8(w) = ToUint8(v)
<1>1. Grain \in Nat \ {0} /\ v \in Nat /\ v <= Grain
  BY CodecAssumption
<1>2. PICK q \in Nat : /\ q = ToUint8(v)
                       /\ Grain * q <= v * 255 /\ v * 255 < Grain * (q + 1)
  BY Quantized
<1>3. PICK p \in Nat : p = q * Grain /\ p = Grain * q
  BY <1>1
<1>4. w = (p + 254) \div 255
  BY <1>2, <1>3 DEF ToFloat
<1>5. w \in Nat /\ 255 * w <= p + 254 /\ p + 254 < 255 * (w + 1)
  BY <1>4
<1>6. p <= 255 * w /\ w <= v
  BY <1>1, <1>2, <1>3, <1>5
<1>7. w \in 0 .. Grain
  BY <1>1, <1>5, <1>6
<1>8. Grain * q <= w * 255 /\ w * 255 < Grain * (q + 1)
  <2>1. PICK g \in Nat : g = Grain * (q + 1)
    BY <1>1
  <2>2. v * 255 < g
    BY <1>2, <2>1
  <2>3. w * 255 < g
    BY <1>1, <1>5, <1>6, <2>1, <2>2
  <2> QED BY <1>3, <1>5, <1>6, <2>1, <2>3
<1>9. ToUint8(w) = q
  BY <1>7, <1>8, Quantized
<1> QED BY <1>2, <1>6, <1>7, <1>9

LEMMA LossOfOneStep ==
  ASSUME NEW v \in 0 .. Grain, NEW w \in 0 .. Grain, w <= v, ToUint8(w) = ToUint8(v)
  PROVE  (v - w) * 255 <= Grain
<1>1. Grain \in Nat \ {0} /\ v \in Nat /\ w \in Nat
  BY CodecAssumption
<1>2. PICK q \in Nat : q = ToUint8(v) /\ Grain * q <= w * 255 /\ v * 255 < Grain * (q + 1)
  BY Quantized
<1>3. PICK p \in Nat : p = Grain * q /\ Grain * (q + 1) = p + Grain
  BY <1>1
<1> QED BY <1>1, <1>2, <1>3

Near ==
  /\ held.id = first.id
  /\ held.value \in 0 .. Grain /\ first.value \in 0 .. Grain
  /\ held.value <= first.value /\ ToUint8(held.value) = ToUint8(first.value)

CodecInv ==
  /\ held # NoMessage => Near
  /\ DOMAIN frame = {"header", "id", "sem", "crcOf", "tail"}
  /\ {"id", "value"} \subseteq DOMAIN held
  /\ frame # NoFrame => /\ held # NoMessage
                        /\ frame.crcOf = <<"good", held.id, ToUint8(held.value)>>

LEMMA CodecStarts ==
  ASSUME CodecInit
  PROVE  CodecInv
BY DEF CodecInit, CodecInv, NoFrame, NoMessage

LEMMA CodecDecodes ==
  ASSUME CodecInv, frame # NoFrame, Decodable(frame), NEW h, {"id", "value"} \subseteq DOMAIN h, h.id = frame.id, h.value = ToFloat(frame.sem),
         held' = h, first' = first, frame' = NoFrame
  PROVE  CodecInv'
<1>1. Near /\ frame.id = held.id /\ frame.sem = ToUint8(held.value)
  BY DEF CodecInv, Decodable
<1>2. PICK v \in 0 .. Grain : v = held.value
  BY <1>1 DEF Near
<1>3. PICK w : w = h.value /\ w = ToFloat(ToUint8(v))
  BY <1>1, <1>2
<1>4. w \in 0 .. Grain /\ w <= v /\ ToUint8(w) = ToUint8(v)
  BY <1>3, SameStep
<1>5. first.value \in Nat /\ v <= first.value /\ w <= first.value
  BY <1>1, <1>2, <1>4, CodecAssumption DEF Near
<1>6. ToUint8(h.value) = ToUint8(first.value)
  BY <1>1, <1>2, <1>3, <1>4 DEF Near
<1>7. Near'
  BY <1>1, <1>3, <1>4, <1>5, <1>6 DEF Near
<1>8. DOMAIN frame' = {"header", "id", "sem", "crcOf", "tail"}
  BY DEF NoFrame
<1> QED BY <1>7, <1>8 DEF CodecInv

LEMMA CodecInductive ==
  ASSUME CodecInv, [CodecNext]_codecVars
  PROVE  CodecInv'
<1>1. CASE UNCHANGED codecVars
  BY <1>1 DEF codecVars, CodecInv, Near
<1>2. ASSUME NEW m \in CodecMessages, Make(m) PROVE CodecInv'
  <2>1. held' = m /\ first' = m /\ frame' = frame /\ frame = NoFrame
    BY <1>2 DEF Make, CodecInv
  <2>0. {"id", "value"} \subseteq DOMAIN m
    BY DEF CodecMessages
  <2>2. m.value \in 0 .. Grain
    <3>1. Grain \in Nat \ {0} /\ Grain \div 2 \in 0 .. Grain
      BY CodecAssumption
    <3>2. m.value \in {0, 1, Grain \div 2, Grain}
      BY DEF CodecMessages
    <3> QED BY <3>1, <3>2
  <2>3. Near'
    BY <2>1, <2>2 DEF Near
  <2> QED BY <2>0, <2>1, <2>3 DEF CodecInv
<1>3. CASE SendFrame
  <2>1. /\ UNCHANGED <<held, first>> /\ held # NoMessage
        /\ \E crc \in CrcBytes : frame' = EncodeCogon(held, crc) \/ frame' = EncodeMsg(held, crc)
    BY <1>3 DEF SendFrame
  <2>2. /\ frame'.crcOf = <<"good", held.id, ToUint8(held.value)>>
        /\ DOMAIN frame' = {"header", "id", "sem", "crcOf", "tail"}
    BY <2>1 DEF EncodeCogon, EncodeMsg
  <2> QED BY <2>1, <2>2 DEF CodecInv, Near
<1>4. CASE CorruptFrame
  <2>1. UNCHANGED <<held, first>> /\ frame # NoFrame
    BY <1>4 DEF CorruptFrame
  <2>2. frame'.crcOf = frame.crcOf /\ DOMAIN frame' = DOMAIN frame
    BY <1>4 DEF CorruptFrame, CodecInv
  <2> QED BY <2>1, <2>2 DEF CodecInv, Near
<1>5. ASSUME held' = held, first' = first, frame' = NoFrame PROVE CodecInv'
  BY <1>5 DEF CodecInv, Near, NoFrame
<1>6. CASE DecodeCogon
  <2>1. CASE Decodable(frame)
    <3>1. PICK h : h = [held EXCEPT !.id = frame.id, !.value = ToFloat(frame.sem)]
      OBVIOUS
    <3>2. held' = h /\ first' = first /\ frame' = NoFrame /\ frame # NoFrame
      BY <1>6, <2>1, <3>1 DEF DecodeCogon
    <3>3. {"id", "value"} \subseteq DOMAIN h /\ h.id = frame.id /\ h.value = ToFloat(frame.sem)
      BY <3>1 DEF CodecInv
    <3> QED BY <2>1, <3>2, <3>3, CodecDecodes
  <2>2. CASE ~Decodable(frame)
    BY <1>5, <1>6, <2>2 DEF DecodeCogon
  <2> QED BY <2>1, <2>2
<1>7. CASE DecodeMsg
  <2>1. CASE Decodable(frame) /\ Parsed(frame).ok
    <3>1. /\ Parsed(frame).msg.id = frame.id /\ Parsed(frame).msg.value = ToFloat(frame.sem)
          /\ {"id", "value"} \subseteq DOMAIN Parsed(frame).msg
      BY <2>1 DEF Parsed
    <3>2. held' = Parsed(frame).msg /\ first' = first /\ frame' = NoFrame /\ frame # NoFrame
      BY <1>7, <2>1 DEF DecodeMsg
    <3> QED BY <2>1, <3>1, <3>2, CodecDecodes
  <2>2. CASE ~(Decodable(frame) /\ Parsed(frame).ok)
    BY <1>5, <1>7, <2>2 DEF DecodeMsg
  <2> QED BY <2>1, <2>2
<1> QED BY <1>1, <1>2, <1>3, <1>4, <1>6, <1>7 DEF CodecNext

LEMMA CodecInvSafe ==
  ASSUME CodecInv
  PROVE  CogonKept
BY LossOfOneStep DEF CodecInv, Near, CogonKept
-----------------------------------------------------------------------------
(***************************************************************************)
(* delta_compression.py: a DELTA on its way is against the FULL of its     *)
(* agent before it, or against what the receiver has.                      *)
(***************************************************************************)
Parcels == [agent : DeltaAgents, type : {"FULL", "DELTA"}, payload : DeltaCogons \cup Int,
            sent : DeltaCogons]
Entries == [agent : DeltaAgents, type : {"FULL", "DELTA"}]

DeltaTypes ==
  /\ senderBaselines \in [DeltaAgents -> DeltaCogons \cup {NoBaseline}]
  /\ receiverBaselines \in [DeltaAgents -> DeltaCogons \cup {NoBaseline}]
  /\ deltaChains \in [DeltaAgents -> 0 .. MaxDeltaChain]
  /\ channel \in Seq(Parcels) /\ messageLog \in Seq(Entries)
  /\ deltaMetrics \in [total : Nat, delta : Nat, full : Nat]
  /\ decompressed.got \in DeltaCogons

IsFull(m, a) == m.agent = a /\ m.type = "FULL"
IsDelta(m, a) == m.agent = a /\ m.type = "DELTA"

\* ch is on its way from baselines sb to baselines rb.
Ordered(ch, rb, sb) ==
  /\ \A i \in DOMAIN ch : ch[i].type = "FULL" => ch[i].payload = ch[i].sent
  /\ \A a \in DeltaAgents : \A k, i \in DOMAIN ch :
        k < i /\ IsFull(ch[k], a) /\ IsDelta(ch[i], a)
        /\ (\A j \in DOMAIN ch : k < j /\ j < i => ~IsFull(ch[j], a))
          => ch[i].payload = ch[i].sent.sem - ch[k].sent.sem
  /\ \A a \in DeltaAgents : \A i \in DOMAIN ch :
        IsDelta(ch[i], a) /\ (\A j \in DOMAIN ch : j < i => ~IsFull(ch[j], a))
          => rb[a] # NoBaseline /\ ch[i].payload = ch[i].sent.sem - rb[a].sem
  /\ \A a \in DeltaAgents : \A k \in DOMAIN ch :
        IsFull(ch[k], a) /\ (\A j \in DOMAIN ch : k < j => ~IsFull(ch[j], a))
          => ch[k].sent = sb[a]
  /\ \A a \in DeltaAgents : (\A j \in DOMAIN ch : ~IsFull(ch[j], a)) => rb[a] = sb[a]

OnTheWay ==
  /\ Ordered(channel, receiverBaselines, senderBaselines)
  /\ decompressed.got.sem = decompressed.sent.sem

LogOf(a) == Keeping(messageLog, {k \in DOMAIN messageLog : messageLog[k].agent = a})

\* The last FULL of an agent, and how many came after it.
Chained(of, chain, base) ==
  /\ of = <<>> => base = NoBaseline
  /\ of # <<>> => chain < Len(of) /\ of[Len(of) - chain].type = "FULL"
  /\ \A i \in 1 .. Len(of) - MaxDeltaChain : \E j \in i .. i + MaxDeltaChain : of[j].type = "FULL"

DeltaInv ==
  /\ DeltaTypes /\ OnTheWay /\ MetricsExact
  /\ \A a \in DeltaAgents : Chained(LogOf(a), deltaChains[a], senderBaselines[a])

LEMMA DeltaStarts ==
  ASSUME DeltaInit
  PROVE  DeltaInv
<1>1. /\ Axis \in Nat /\ MaxDeltaChain \in Nat /\ [sem |-> 0, unc |-> 0] \in DeltaCogons
  BY CompressorAssumption DEF DeltaCogons
<1>2. DeltaTypes
  BY <1>1 DEF DeltaInit, DeltaTypes
<1>3. DOMAIN channel = {} /\ DOMAIN messageLog = {}
  BY DEF DeltaInit
<1>4. OnTheWay
  BY <1>3 DEF DeltaInit, OnTheWay, Ordered
<1>5. MetricsExact
  <2>1. {k \in DOMAIN messageLog : messageLog[k].type = "FULL"} = {}
    BY <1>3
  <2> QED BY <2>1, FS_EmptySet DEF DeltaInit, MetricsExact, ReportRaises, Savings
<1>6. ASSUME NEW a \in DeltaAgents PROVE Chained(LogOf(a), deltaChains[a], senderBaselines[a])
  <2>1. {k \in DOMAIN messageLog : messageLog[k].agent = a} = {}
    BY <1>3
  <2>2. Len(LogOf(a)) = 0 /\ LogOf(a) = <<>>
    <3>1. messageLog \in Seq(Entries) /\ {} \in SUBSET (DOMAIN messageLog)
      BY DEF DeltaInit
    <3>2. Keeping(messageLog, {}) \in Seq(Entries) /\ Len(Keeping(messageLog, {})) = Cardinality({})
      BY <3>1, KeepingIs
    <3> QED BY <2>1, <3>2, FS_EmptySet, EmptySeq DEF LogOf
  <2> QED BY <1>1, <2>2 DEF DeltaInit, Chained
<1> QED BY <1>2, <1>4, <1>5, <1>6 DEF DeltaInv

\* A message of agent a is the last of a's in the log, and of nobody else's.
LEMMA LogGrows ==
  ASSUME messageLog \in Seq(Entries), NEW e \in Entries, messageLog' = Append(messageLog, e)
  PROVE  /\ messageLog' \in Seq(Entries) /\ Len(messageLog') = Len(messageLog) + 1 /\ Len(messageLog) \in Nat
         /\ LogOf(e.agent)' = Append(LogOf(e.agent), e)
         /\ \A b \in DeltaAgents \ {e.agent} : LogOf(b)' = LogOf(b)
         /\ \A b \in DeltaAgents : LogOf(b) \in Seq(Entries)
         /\ Cardinality({k \in DOMAIN messageLog' : messageLog'[k].type = "FULL"}) =
              Cardinality({k \in DOMAIN messageLog : messageLog[k].type = "FULL"})
                + (IF e.type = "FULL" THEN 1 ELSE 0)
         /\ Cardinality({k \in DOMAIN messageLog : messageLog[k].type = "FULL"}) \in Nat
<1>1. PICK s \in Seq(Entries), n \in Nat :
        s = messageLog /\ n = Len(s) /\ DOMAIN s = 1 .. n
  BY LenProperties
<1>2. PICK r : r = messageLog' /\ r = Append(s, e)
  BY <1>1
<1>3. /\ r \in Seq(Entries) /\ Len(r) = n + 1 /\ DOMAIN r = 1 .. (n + 1) /\ r[n + 1] = e
      /\ \A i \in 1 .. n : r[i] = s[i]
  BY <1>1, <1>2, AppendProperties, LenProperties
<1>4. \A i \in 1 .. (n + 1) : i \in 1 .. n \/ i = n + 1
  OBVIOUS
<1>5. /\ n + 1 \in 1 .. (n + 1) /\ n + 1 \notin 1 .. n
      /\ \A i \in 1 .. n : i \in 1 .. (n + 1) /\ i # n + 1
  OBVIOUS
<1>6. PICK a : a = e.agent
  OBVIOUS
<1>7. LogOf(a)' = Append(LogOf(a), e)
  <2>1. PICK I : I = {k \in 1 .. n : s[k].agent = a}
    OBVIOUS
  <2>2. {k \in DOMAIN r : r[k].agent = a} = I \cup {n + 1}
    BY <1>3, <1>4, <1>5, <1>6, <2>1
  <2>3. Keeping(r, I \cup {n + 1}) = Append(Keeping(s, I), e)
    BY <1>1, <1>2, <2>1, KeepingAppend
  <2>4. LogOf(a)' = Keeping(r, I \cup {n + 1})
    BY <1>2, <2>2 DEF LogOf
  <2>5. LogOf(a) = Keeping(s, I)
    BY <1>1, <2>1 DEF LogOf
  <2> QED BY <2>3, <2>4, <2>5
<1>8. ASSUME NEW b \in DeltaAgents \ {e.agent} PROVE LogOf(b)' = LogOf(b)
  <2>1. PICK I : I = {k \in 1 .. n : s[k].agent = b}
    OBVIOUS
  <2>2. {k \in DOMAIN r : r[k].agent = b} = I
    BY <1>3, <1>4, <1>5, <1>8, <2>1
  <2>3. Keeping(r, I) = Keeping(s, I)
    <3>1. I \in SUBSET (DOMAIN s) /\ e \in Entries
      BY <1>1, <2>1
    <3>2. Keeping(Append(s, e), I) = Keeping(s, I)
      BY <3>1, KeepingAppend
    <3> QED BY <1>2, <3>2
  <2>4. LogOf(b)' = Keeping(r, I)
    BY <1>2, <2>2 DEF LogOf
  <2>5. LogOf(b) = Keeping(s, I)
    BY <1>1, <2>1 DEF LogOf
  <2> QED BY <2>3, <2>4, <2>5
<1>9. ASSUME NEW b \in DeltaAgents PROVE LogOf(b) \in Seq(Entries)
  <2>1. PICK I : I = {k \in DOMAIN s : s[k].agent = b} /\ LogOf(b) = Keeping(s, I)
    BY <1>1 DEF LogOf
  <2>2. I \in SUBSET (DOMAIN s) /\ \A i \in I : s[i] \in Entries
    BY <1>1, <2>1, LenProperties
  <2> QED BY <1>1, <2>1, <2>2, KeepingIs
<1>10. PICK F : F = {k \in 1 .. n : s[k].type = "FULL"}
  OBVIOUS
<1>11. IsFiniteSet(F) /\ Cardinality(F) \in Nat /\ n + 1 \notin F
  BY <1>1, <1>5, <1>10, UpToCounts
<1>12. {k \in DOMAIN r : r[k].type = "FULL"} = IF e.type = "FULL" THEN F \cup {n + 1} ELSE F
  BY <1>3, <1>4, <1>5, <1>10
<1>13. Cardinality(F \cup {n + 1}) = Cardinality(F) + 1
  BY <1>11, FS_AddElement
<1>14. Cardinality({k \in DOMAIN r : r[k].type = "FULL"}) =
         Cardinality(F) + (IF e.type = "FULL" THEN 1 ELSE 0)
  <2>1. CASE e.type = "FULL"
    BY <1>11, <1>12, <1>13, <2>1
  <2>2. CASE e.type # "FULL"
    <3>1. {k \in DOMAIN r : r[k].type = "FULL"} = F
      BY <1>12, <2>2
    <3>2. PICK m \in Nat : m = Cardinality(F)
      BY <1>11
    <3>3. m + (IF e.type = "FULL" THEN 1 ELSE 0) = m
      BY <2>2, <3>2
    <3> QED BY <3>1, <3>2, <3>3, Zenon
  <2> QED BY <2>1, <2>2
<1> QED BY <1>1, <1>2, <1>3, <1>6, <1>7, <1>8, <1>9, <1>10, <1>11, <1>14

\* One more of an agent: at most MaxDeltaChain after its last FULL.
LEMMA ChainGrows ==
  ASSUME NEW of \in Seq(Entries), NEW c \in 0 .. MaxDeltaChain, NEW base, Chained(of, c, base), NEW e \in Entries,
         NEW d, NEW new, new # NoBaseline,
         \/ e.type = "FULL" /\ d = 0
         \/ base # NoBaseline /\ c < MaxDeltaChain /\ d = c + 1
  PROVE  Chained(Append(of, e), d, new)
<1>1. PICK n \in Nat : n = Len(of)
  BY LenProperties
<1>2. PICK r \in Seq(Entries) :
        r = Append(of, e) /\ Len(r) = n + 1 /\ r[n + 1] = e /\ \A i \in 1 .. n : r[i] = of[i]
  <2>1. Append(of, e) \in Seq(Entries)
    BY AppendProperties
  <2>2. /\ Len(Append(of, e)) = n + 1 /\ Append(of, e)[n + 1] = e
        /\ \A i \in 1 .. n : Append(of, e)[i] = of[i]
    BY <1>1, AppendProperties
  <2> QED BY <2>1, <2>2
<1>3. /\ MaxDeltaChain \in Nat /\ c \in Nat /\ c <= MaxDeltaChain
      /\ (of # <<>> => c < n /\ of[n - c].type = "FULL")
      /\ (of = <<>> => base = NoBaseline)
      /\ \A i \in 1 .. (n - MaxDeltaChain) : \E j \in i .. (i + MaxDeltaChain) : of[j].type = "FULL"
      /\ (of = <<>> => n = 0)
  BY <1>1, CompressorAssumption DEF Chained
<1>4. d \in Nat /\ d < n + 1 /\ n + 1 - d \in 1 .. (n + 1) /\ r[n + 1 - d].type = "FULL" /\ d <= MaxDeltaChain
  <2>1. CASE e.type = "FULL" /\ d = 0
    BY <1>2, <1>3, <2>1
  <2>2. CASE base # NoBaseline /\ c < MaxDeltaChain /\ d = c + 1
    <3>1. c < n /\ of[n - c].type = "FULL"
      BY <1>3, <2>2
    <3>2. n + 1 - d = n - c /\ n - c \in 1 .. n
      BY <1>3, <2>2, <3>1
    <3>3. r[n - c] = of[n - c]
      BY <1>2, <3>2
    <3>4. d \in Nat /\ d < n + 1 /\ n - c \in 1 .. (n + 1) /\ d <= MaxDeltaChain
      BY <1>3, <2>2, <3>1
    <3> QED BY <3>1, <3>2, <3>3, <3>4
  <2> QED BY <2>1, <2>2
<1>5. ASSUME NEW i \in 1 .. (n + 1 - MaxDeltaChain)
      PROVE  \E j \in i .. (i + MaxDeltaChain) : r[j].type = "FULL"
  <2>1. CASE i \in 1 .. (n - MaxDeltaChain)
    <3>1. PICK j \in i .. (i + MaxDeltaChain) : of[j].type = "FULL"
      BY <1>3, <2>1
    <3>2. j \in 1 .. n
      BY <1>3, <2>1
    <3> QED BY <1>2, <3>1, <3>2
  <2>2. CASE i = n + 1 - MaxDeltaChain
    <3>1. n + 1 - d \in i .. (i + MaxDeltaChain)
      BY <1>3, <1>4, <2>2
    <3> QED BY <1>4, <3>1
  <2>3. i \in 1 .. (n - MaxDeltaChain) \/ i = n + 1 - MaxDeltaChain
    BY <1>3
  <2> QED BY <2>1, <2>2, <2>3
<1>6. r # <<>> /\ MaxDeltaChain \in Int
  BY <1>2, <1>3, EmptySeq
<1>7. Chained(r, d, new)
  <2>1. d < Len(r) /\ r[Len(r) - d].type = "FULL"
    BY <1>2, <1>4
  <2>2. \A i \in 1 .. Len(r) - MaxDeltaChain : \E j \in i .. i + MaxDeltaChain : r[j].type = "FULL"
    <3>1. Len(r) - MaxDeltaChain = n + 1 - MaxDeltaChain
      BY <1>1, <1>2, <1>3
    <3> QED BY <1>5, <3>1, Zenon
  <2> QED BY <1>6, <2>1, <2>2 DEF Chained
<1> QED BY <1>2, <1>7

LEMMA Posted ==
  ASSUME DeltaInv, NEW a \in DeltaAgents, NEW c \in DeltaCogons, NEW type \in {"FULL", "DELTA"}, NEW payload,
         Post(a, type, c, payload), UNCHANGED <<receiverBaselines, decompressed>>,
         \/ /\ type = "FULL" /\ payload = c
            /\ senderBaselines' = [senderBaselines EXCEPT ![a] = c]
            /\ deltaChains' = [deltaChains EXCEPT ![a] = 0]
            /\ deltaMetrics' = Updated(FALSE)
         \/ /\ type = "DELTA" /\ senderBaselines[a] # NoBaseline /\ deltaChains[a] < MaxDeltaChain
            /\ payload = c.sem - senderBaselines[a].sem
            /\ senderBaselines' = senderBaselines
            /\ deltaChains' = [deltaChains EXCEPT ![a] = @ + 1]
            /\ deltaMetrics' = Updated(TRUE)
  PROVE  DeltaInv'
<1>1. PICK n \in Nat, s \in Seq(Parcels) : s = channel /\ n = Len(s) /\ DOMAIN s = 1 .. n
  BY LenProperties DEF DeltaInv, DeltaTypes
<1>2. PICK m : m = [agent |-> a, type |-> type, payload |-> payload, sent |-> c]
  OBVIOUS
<1>3. PICK e : e = [agent |-> a, type |-> type]
  OBVIOUS
<1>4. payload \in DeltaCogons \cup Int
  <2>1. CASE type = "FULL"
    BY <2>1
  <2>2. CASE type = "DELTA"
    <3>1. senderBaselines[a] \in DeltaCogons \cup {NoBaseline}
      BY DEF DeltaInv, DeltaTypes
    <3>2. senderBaselines[a].sem \in Int /\ c.sem \in Int
      BY <3>1, <2>2, CompressorAssumption DEF DeltaCogons
    <3> QED BY <2>2, <3>2
  <2> QED BY <2>1, <2>2
<1>5. m \in Parcels /\ e \in Entries
  BY <1>2, <1>3, <1>4 DEF Parcels, Entries
<1>6. PICK r : r = channel' /\ r = Append(s, m)
  BY <1>1, <1>2 DEF Post
<1>7. /\ r \in Seq(Parcels) /\ Len(r) = n + 1 /\ DOMAIN r = 1 .. (n + 1) /\ r[n + 1] = m
      /\ \A i \in 1 .. n : r[i] = s[i]
  BY <1>1, <1>5, <1>6, AppendProperties, LenProperties
<1>8. /\ \A i \in 1 .. (n + 1) : i \in 1 .. n \/ i = n + 1
      /\ n + 1 \in 1 .. (n + 1) /\ n + 1 \notin 1 .. n
      /\ \A i \in 1 .. n : i \in 1 .. (n + 1) /\ i < n + 1 /\ ~(n + 1 < i)
  OBVIOUS
<1>9. /\ messageLog \in Seq(Entries) /\ messageLog' = Append(messageLog, e)
  BY <1>3 DEF Post, DeltaInv, DeltaTypes
<1>10. DeltaTypes'
  <2>1. messageLog' \in Seq(Entries)
    BY <1>5, <1>9, LogGrows
  <2>2. senderBaselines' \in [DeltaAgents -> DeltaCogons \cup {NoBaseline}]
    BY DEF DeltaInv, DeltaTypes
  <2>3. deltaMetrics' \in [total : Nat, delta : Nat, full : Nat]
    <3>1. PICK u : u = deltaMetrics'
      OBVIOUS
    <3>2. /\ deltaMetrics \in [total : Nat, delta : Nat, full : Nat]
          /\ u = Updated(TRUE) \/ u = Updated(FALSE)
      BY <3>1 DEF DeltaInv, DeltaTypes
    <3>3. CASE u = Updated(TRUE)
      <4>1. u = [deltaMetrics EXCEPT !.total = u.total, !.delta = u.delta, !.full = u.full]
        BY <3>2, <3>3 DEF Updated
      <4>2. u.total \in Nat /\ u.delta \in Nat /\ u.full \in Nat
        BY <3>2, <3>3 DEF Updated
      <4> QED BY <3>1, <3>2, <4>1, <4>2
    <3>4. CASE u = Updated(FALSE)
      <4>1. u = [deltaMetrics EXCEPT !.total = u.total, !.delta = u.delta, !.full = u.full]
        BY <3>2, <3>4 DEF Updated
      <4>2. u.total \in Nat /\ u.delta \in Nat /\ u.full \in Nat
        BY <3>2, <3>4 DEF Updated
      <4> QED BY <3>1, <3>2, <4>1, <4>2
    <3> QED BY <3>2, <3>3, <3>4
  <2>4. deltaChains' \in [DeltaAgents -> 0 .. MaxDeltaChain]
    <3>1. /\ deltaChains \in [DeltaAgents -> 0 .. MaxDeltaChain] /\ MaxDeltaChain \in Nat
          /\ deltaChains[a] \in 0 .. MaxDeltaChain /\ 0 \in 0 .. MaxDeltaChain
      BY CompressorAssumption DEF DeltaInv, DeltaTypes
    <3>2. deltaChains[a] < MaxDeltaChain => deltaChains[a] + 1 \in 0 .. MaxDeltaChain
      BY <3>1
    <3> QED BY <3>1, <3>2
  <2> QED BY <1>6, <1>7, <2>1, <2>2, <2>3, <2>4 DEF DeltaInv, DeltaTypes
<1>11. ASSUME NEW b \in DeltaAgents PROVE Chained(LogOf(b), deltaChains[b], senderBaselines[b])'
  <2>1. PICK of : of = LogOf(b)' 
    OBVIOUS
  <2>2. PICK d, base : d = deltaChains'[b] /\ base = senderBaselines'[b]
    OBVIOUS
  <2>3. Chained(LogOf(b), deltaChains[b], senderBaselines[b]) /\ LogOf(b) \in Seq(Entries)
        /\ deltaChains[b] \in 0 .. MaxDeltaChain
    BY <1>5, <1>9, LogGrows DEF DeltaInv, DeltaTypes
  <2>4. CASE b = a
    <3>1. of = Append(LogOf(b), e)
      BY <1>3, <1>5, <1>9, <2>1, <2>4, LogGrows
    <3>2. c # NoBaseline
      BY CompressorAssumption DEF DeltaCogons, NoBaseline
    <3>3. base # NoBaseline
      BY <2>2, <2>4, <3>2 DEF DeltaInv, DeltaTypes
    <3>4. \/ e.type = "FULL" /\ d = 0
          \/ senderBaselines[b] # NoBaseline /\ deltaChains[b] < MaxDeltaChain /\ d = deltaChains[b] + 1
      BY <1>3, <2>2, <2>4 DEF DeltaInv, DeltaTypes
    <3>5. Chained(of, d, base)
      BY <1>5, <2>3, <3>1, <3>3, <3>4, ChainGrows
    <3> QED BY <2>1, <2>2, <3>5 DEF Chained
  <2>5. CASE b # a
    <3>1. of = LogOf(b) /\ d = deltaChains[b] /\ base = senderBaselines[b]
      BY <1>3, <1>5, <1>9, <2>1, <2>2, <2>5, LogGrows DEF DeltaInv, DeltaTypes
    <3>2. Chained(of, d, base)
      BY <2>3, <3>1
    <3> QED BY <2>1, <2>2, <3>2 DEF Chained
  <2> QED BY <2>4, <2>5
<1>12. MetricsExact'
  <2>1. /\ deltaMetrics.total = Len(messageLog)
        /\ deltaMetrics.delta + deltaMetrics.full = deltaMetrics.total
        /\ deltaMetrics.full = Cardinality({k \in DOMAIN messageLog : messageLog[k].type = "FULL"})
        /\ deltaMetrics \in [total : Nat, delta : Nat, full : Nat]
    BY DEF DeltaInv, DeltaTypes, MetricsExact
  <2>2. /\ messageLog' \in Seq(Entries) /\ Len(messageLog') = Len(messageLog) + 1 /\ Len(messageLog) \in Nat
        /\ Cardinality({k \in DOMAIN messageLog' : messageLog'[k].type = "FULL"}) =
              Cardinality({k \in DOMAIN messageLog : messageLog[k].type = "FULL"})
                + (IF e.type = "FULL" THEN 1 ELSE 0)
    BY <1>5, <1>9, LogGrows
  <2>3. /\ deltaMetrics'.total = deltaMetrics.total + 1
        /\ deltaMetrics'.delta = deltaMetrics.delta + (IF e.type = "FULL" THEN 0 ELSE 1)
        /\ deltaMetrics'.full = deltaMetrics.full + (IF e.type = "FULL" THEN 1 ELSE 0)
    <3>1. CASE type = "FULL" /\ deltaMetrics' = Updated(FALSE)
      BY <1>3, <2>1, <3>1 DEF Updated
    <3>2. CASE type = "DELTA" /\ deltaMetrics' = Updated(TRUE)
      BY <1>3, <2>1, <3>2 DEF Updated
    <3> QED BY <3>1, <3>2
  <2>4. deltaMetrics'.total = Len(messageLog')
        /\ deltaMetrics'.delta + deltaMetrics'.full = deltaMetrics'.total
        /\ deltaMetrics'.full = Cardinality({k \in DOMAIN messageLog' : messageLog'[k].type = "FULL"})
    BY <2>1, <2>2, <2>3
  <2>5. messageLog' # <<>> /\ deltaMetrics'.total # 0
    BY <2>1, <2>2, <2>3, EmptySeq
  <2>6. ~ReportRaises'
    BY <2>5 DEF ReportRaises, Savings
  <2> QED BY <2>4, <2>5, <2>6 DEF MetricsExact
<1>13. OnTheWay'
  <2>1. PICK sb, rb, sb2 : sb = senderBaselines /\ rb = receiverBaselines /\ sb2 = senderBaselines'
                           /\ rb = receiverBaselines'
    OBVIOUS
  <2>2. /\ m.agent = a /\ m.type = type /\ m.payload = payload /\ m.sent = c
        /\ \A b \in DeltaAgents : b # a => sb2[b] = sb[b]
        /\ type = "FULL" => payload = c /\ sb2[a] = c
        /\ type = "DELTA" => /\ sb[a] # NoBaseline /\ payload = c.sem - sb[a].sem
                             /\ sb2[a] = sb[a]
    BY <1>2, <2>1 DEF DeltaInv, DeltaTypes
  <2>3. /\ \A i \in 1 .. n : s[i].type = "FULL" => s[i].payload = s[i].sent
        /\ \A b \in DeltaAgents : \A k, i \in 1 .. n :
              k < i /\ s[k].agent = b /\ s[k].type = "FULL" /\ s[i].agent = b /\ s[i].type = "DELTA"
              /\ (\A j \in 1 .. n : k < j /\ j < i => ~(s[j].agent = b /\ s[j].type = "FULL"))
                => s[i].payload = s[i].sent.sem - s[k].sent.sem
        /\ \A b \in DeltaAgents : \A i \in 1 .. n :
              s[i].agent = b /\ s[i].type = "DELTA"
              /\ (\A j \in 1 .. n : j < i => ~(s[j].agent = b /\ s[j].type = "FULL"))
                => rb[b] # NoBaseline /\ s[i].payload = s[i].sent.sem - rb[b].sem
        /\ \A b \in DeltaAgents : \A k \in 1 .. n :
              s[k].agent = b /\ s[k].type = "FULL"
              /\ (\A j \in 1 .. n : k < j => ~(s[j].agent = b /\ s[j].type = "FULL"))
                => s[k].sent = sb[b]
        /\ \A b \in DeltaAgents :
              (\A j \in 1 .. n : ~(s[j].agent = b /\ s[j].type = "FULL")) => rb[b] = sb[b]
    <3>1. Ordered(s, rb, sb) /\ DOMAIN s = 1 .. n
      BY <1>1, <2>1 DEF DeltaInv, OnTheWay
    <3> QED BY <3>1 DEF Ordered, IsFull, IsDelta
  <2>4. \A i \in 1 .. (n + 1) : r[i].type = "FULL" => r[i].payload = r[i].sent
    BY <1>7, <1>8, <2>2, <2>3
  <2>5. ASSUME NEW b \in DeltaAgents, NEW k \in 1 .. (n + 1), NEW i \in 1 .. (n + 1),
               k < i, r[k].agent = b, r[k].type = "FULL", r[i].agent = b, r[i].type = "DELTA",
               \A j \in 1 .. (n + 1) : k < j /\ j < i => ~(r[j].agent = b /\ r[j].type = "FULL")
        PROVE  r[i].payload = r[i].sent.sem - r[k].sent.sem
    <3>1. k \in 1 .. n /\ r[k] = s[k]
      BY <1>7, <2>5
    <3>2. CASE i \in 1 .. n
      <4>1. \A j \in 1 .. n : k < j /\ j < i => ~(s[j].agent = b /\ s[j].type = "FULL")
        BY <1>7, <1>8, <2>5
      <4> QED BY <1>7, <2>3, <2>5, <3>1, <3>2, <4>1
    <3>3. CASE i = n + 1
      <4>1. \A j \in 1 .. n : k < j => ~(s[j].agent = b /\ s[j].type = "FULL")
        BY <1>7, <1>8, <2>5, <3>3
      <4>2. s[k].sent = sb[b]
        BY <2>3, <2>5, <3>1, <4>1
      <4>3. b = a /\ type = "DELTA" /\ r[i].payload = payload /\ r[i].sent = c
        BY <1>7, <2>2, <2>5, <3>3
      <4> QED BY <2>2, <3>1, <4>2, <4>3
    <3> QED BY <1>8, <3>2, <3>3
  <2>6. ASSUME NEW b \in DeltaAgents, NEW i \in 1 .. (n + 1), r[i].agent = b, r[i].type = "DELTA",
               \A j \in 1 .. (n + 1) : j < i => ~(r[j].agent = b /\ r[j].type = "FULL")
        PROVE  rb[b] # NoBaseline /\ r[i].payload = r[i].sent.sem - rb[b].sem
    <3>1. \A j \in 1 .. n : j < i => ~(s[j].agent = b /\ s[j].type = "FULL")
      BY <1>7, <1>8, <2>6
    <3>2. CASE i \in 1 .. n
      BY <1>7, <2>3, <2>6, <3>1, <3>2
    <3>3. CASE i = n + 1
      <4>1. \A j \in 1 .. n : ~(s[j].agent = b /\ s[j].type = "FULL")
        BY <1>8, <3>1, <3>3
      <4>2. rb[b] = sb[b]
        BY <2>3, <4>1
      <4>3. b = a /\ type = "DELTA" /\ r[i].payload = payload /\ r[i].sent = c
        BY <1>7, <2>2, <2>6, <3>3
      <4> QED BY <2>2, <4>2, <4>3
    <3> QED BY <1>8, <3>2, <3>3
  <2>7. ASSUME NEW b \in DeltaAgents, NEW k \in 1 .. (n + 1), r[k].agent = b, r[k].type = "FULL",
               \A j \in 1 .. (n + 1) : k < j => ~(r[j].agent = b /\ r[j].type = "FULL")
        PROVE  r[k].sent = sb2[b]
    <3>1. CASE k \in 1 .. n
      <4>1. \A j \in 1 .. n : k < j => ~(s[j].agent = b /\ s[j].type = "FULL")
        BY <1>7, <1>8, <2>7
      <4>2. r[k].sent = sb[b]
        BY <1>7, <2>3, <2>7, <3>1, <4>1
      <4>3. ~(m.agent = b /\ m.type = "FULL")
        BY <1>7, <1>8, <2>7, <3>1
      <4> QED BY <2>2, <4>2, <4>3
    <3>2. CASE k = n + 1
      BY <1>7, <2>2, <2>7, <3>2
    <3> QED BY <1>8, <3>1, <3>2
  <2>8. ASSUME NEW b \in DeltaAgents, \A j \in 1 .. (n + 1) : ~(r[j].agent = b /\ r[j].type = "FULL")
        PROVE  rb[b] = sb2[b]
    <3>1. \A j \in 1 .. n : ~(s[j].agent = b /\ s[j].type = "FULL")
      BY <1>7, <1>8, <2>8
    <3>2. rb[b] = sb[b] /\ ~(m.agent = b /\ m.type = "FULL")
      BY <1>7, <1>8, <2>3, <2>8, <3>1
    <3> QED BY <2>2, <3>2
  <2>9. decompressed'.got.sem = decompressed'.sent.sem
    BY DEF DeltaInv, OnTheWay
  <2>10. /\ channel' = r /\ DOMAIN r = 1 .. (n + 1) /\ receiverBaselines' = rb /\ senderBaselines' = sb2
    BY <1>6, <1>7, <2>1
  <2>11. \A b \in DeltaAgents : \A k, i \in DOMAIN r :
           k < i /\ r[k].agent = b /\ r[k].type = "FULL" /\ r[i].agent = b /\ r[i].type = "DELTA"
           /\ (\A j \in DOMAIN r : k < j /\ j < i => ~(r[j].agent = b /\ r[j].type = "FULL"))
             => r[i].payload = r[i].sent.sem - r[k].sent.sem
    BY <2>5, <2>10
  <2>12. \A b \in DeltaAgents : \A i \in DOMAIN r :
           r[i].agent = b /\ r[i].type = "DELTA"
           /\ (\A j \in DOMAIN r : j < i => ~(r[j].agent = b /\ r[j].type = "FULL"))
             => rb[b] # NoBaseline /\ r[i].payload = r[i].sent.sem - rb[b].sem
    BY <2>6, <2>10
  <2>13. \A b \in DeltaAgents : \A k \in DOMAIN r :
           r[k].agent = b /\ r[k].type = "FULL"
           /\ (\A j \in DOMAIN r : k < j => ~(r[j].agent = b /\ r[j].type = "FULL"))
             => r[k].sent = sb2[b]
    BY <2>7, <2>10
  <2>14. \A b \in DeltaAgents :
           (\A j \in DOMAIN r : ~(r[j].agent = b /\ r[j].type = "FULL")) => rb[b] = sb2[b]
    BY <2>8, <2>10
  <2>15. Ordered(r, rb, sb2)
    BY <2>4, <2>10, <2>11, <2>12, <2>13, <2>14 DEF Ordered, IsFull, IsDelta
  <2> QED BY <2>9, <2>10, <2>15 DEF OnTheWay
<1> QED BY <1>10, <1>11, <1>12, <1>13 DEF DeltaInv

\* What arrives first takes the channel along.
LEMMA Shifted ==
  ASSUME NEW ch \in Seq(Parcels), ch # <<>>, NEW rb \in [DeltaAgents -> DeltaCogons \cup {NoBaseline}], NEW sb,
         Ordered(ch, rb, sb), NEW rb2,
         rb2 = IF Head(ch).type = "FULL" THEN [rb EXCEPT ![Head(ch).agent] = Head(ch).payload] ELSE rb
  PROVE  Ordered(Tail(ch), rb2, sb)
<1>1. PICK n \in Nat : n + 1 = Len(ch) /\ DOMAIN ch = 1 .. (n + 1)
  <2>1. Len(ch) \in Nat /\ Len(ch) # 0
    BY EmptySeq
  <2> QED BY <2>1
<1>2. PICK h \in Parcels : h = Head(ch) /\ h = ch[1]
  <2>1. 1 \in DOMAIN ch
    BY <1>1
  <2> QED BY <1>1, <2>1
<1>3. PICK t : t = Tail(ch) /\ DOMAIN t = 1 .. n /\ \A i \in 1 .. n : t[i] = ch[i + 1]
  <2>1. Tail(ch) \in Seq(Parcels) /\ Len(Tail(ch)) = n /\ \A i \in 1 .. n : Tail(ch)[i] = ch[i + 1]
    BY <1>1
  <2>2. DOMAIN Tail(ch) = 1 .. n
    BY <2>1
  <2> QED BY <2>1, <2>2
<1>4. /\ 1 \in 1 .. (n + 1)
      /\ \A i \in 1 .. n : i + 1 \in 1 .. (n + 1) /\ 1 < i + 1
      /\ \A j \in 1 .. (n + 1) : j = 1 \/ (j - 1 \in 1 .. n /\ (j - 1) + 1 = j)
  OBVIOUS
<1>5. \A j \in 1 .. (n + 1) : j # 1 => j - 1 \in 1 .. n /\ ch[j] = t[j - 1]
  BY <1>3, <1>4
<1>6. /\ \A i \in 1 .. (n + 1) : ch[i].type = "FULL" => ch[i].payload = ch[i].sent
      /\ \A b \in DeltaAgents : \A k, i \in 1 .. (n + 1) :
            k < i /\ IsFull(ch[k], b) /\ IsDelta(ch[i], b)
            /\ (\A j \in 1 .. (n + 1) : k < j /\ j < i => ~IsFull(ch[j], b))
              => ch[i].payload = ch[i].sent.sem - ch[k].sent.sem
      /\ \A b \in DeltaAgents : \A i \in 1 .. (n + 1) :
            IsDelta(ch[i], b) /\ (\A j \in 1 .. (n + 1) : j < i => ~IsFull(ch[j], b))
              => rb[b] # NoBaseline /\ ch[i].payload = ch[i].sent.sem - rb[b].sem
      /\ \A b \in DeltaAgents : \A k \in 1 .. (n + 1) :
            IsFull(ch[k], b) /\ (\A j \in 1 .. (n + 1) : k < j => ~IsFull(ch[j], b))
              => ch[k].sent = sb[b]
      /\ \A b \in DeltaAgents : (\A j \in 1 .. (n + 1) : ~IsFull(ch[j], b)) => rb[b] = sb[b]
  BY <1>1 DEF Ordered
<1>7. \A b \in DeltaAgents : IF IsFull(h, b) THEN rb2[b] = h.sent /\ h.sent # NoBaseline ELSE rb2[b] = rb[b]
  <2>1. h.type = "FULL" => h.payload = h.sent
    BY <1>2, <1>4, <1>6
  <2>2. h.sent \in DeltaCogons /\ h.agent \in DeltaAgents
    BY DEF Parcels
  <2>3. h.sent # NoBaseline
    BY <2>2, CompressorAssumption DEF DeltaCogons, NoBaseline
  <2>4. rb2 = IF h.type = "FULL" THEN [rb EXCEPT ![h.agent] = h.payload] ELSE rb
    BY <1>2
  <2> QED BY <2>1, <2>2, <2>3, <2>4 DEF IsFull
<1>8. \A i \in 1 .. n : t[i].type = "FULL" => t[i].payload = t[i].sent
  BY <1>3, <1>4, <1>6
<1>9. ASSUME NEW b \in DeltaAgents, NEW k \in 1 .. n, NEW i \in 1 .. n, k < i, IsFull(t[k], b), IsDelta(t[i], b),
             \A j \in 1 .. n : k < j /\ j < i => ~IsFull(t[j], b)
      PROVE  t[i].payload = t[i].sent.sem - t[k].sent.sem
  <2>1. \A j \in 1 .. (n + 1) : k + 1 < j /\ j < i + 1 => ~IsFull(ch[j], b)
    <3> SUFFICES ASSUME NEW j \in 1 .. (n + 1), k + 1 < j, j < i + 1 PROVE ~IsFull(ch[j], b)
      OBVIOUS
    <3>1. j # 1 /\ k < j - 1 /\ j - 1 < i
      OBVIOUS
    <3> QED BY <1>5, <1>9, <3>1
  <2>2. k + 1 \in 1 .. (n + 1) /\ i + 1 \in 1 .. (n + 1) /\ k + 1 < i + 1 /\ t[k] = ch[k + 1] /\ t[i] = ch[i + 1]
    BY <1>3, <1>9
  <2>3. PICK K, I \in 1 .. (n + 1) : K = k + 1 /\ I = i + 1
    BY <2>2
  <2>4. K < I /\ IsFull(ch[K], b) /\ IsDelta(ch[I], b) /\ \A j \in 1 .. (n + 1) : K < j /\ j < I => ~IsFull(ch[j], b)
    BY <1>9, <2>1, <2>2, <2>3
  <2>5. ch[I].payload = ch[I].sent.sem - ch[K].sent.sem
    BY <1>6, <2>4
  <2> QED BY <2>2, <2>3, <2>5
<1>10. ASSUME NEW b \in DeltaAgents, NEW i \in 1 .. n, IsDelta(t[i], b), \A j \in 1 .. n : j < i => ~IsFull(t[j], b)
       PROVE  rb2[b] # NoBaseline /\ t[i].payload = t[i].sent.sem - rb2[b].sem
  <2>1. i + 1 \in 1 .. (n + 1) /\ 1 < i + 1 /\ t[i] = ch[i + 1]
    BY <1>3
  <2>2. \A j \in 1 .. (n + 1) : 1 < j /\ j < i + 1 => ~IsFull(ch[j], b)
    <3> SUFFICES ASSUME NEW j \in 1 .. (n + 1), 1 < j, j < i + 1 PROVE ~IsFull(ch[j], b)
      OBVIOUS
    <3>1. j # 1 /\ j - 1 < i
      OBVIOUS
    <3> QED BY <1>5, <1>10, <3>1
  <2>3. CASE IsFull(h, b)
    BY <1>2, <1>4, <1>6, <1>7, <1>10, <2>1, <2>2, <2>3
  <2>4. CASE ~IsFull(h, b)
    <3>1. \A j \in 1 .. (n + 1) : j < i + 1 => ~IsFull(ch[j], b)
      <4> SUFFICES ASSUME NEW j \in 1 .. (n + 1), j < i + 1 PROVE ~IsFull(ch[j], b)
        OBVIOUS
      <4>1. j = 1 \/ 1 < j
        OBVIOUS
      <4> QED BY <1>2, <2>2, <2>4, <4>1
    <3> QED BY <1>6, <1>7, <1>10, <2>1, <2>4, <3>1
  <2> QED BY <2>3, <2>4
<1>11. ASSUME NEW b \in DeltaAgents, NEW k \in 1 .. n, IsFull(t[k], b), \A j \in 1 .. n : k < j => ~IsFull(t[j], b)
       PROVE  t[k].sent = sb[b]
  <2>1. k + 1 \in 1 .. (n + 1) /\ t[k] = ch[k + 1]
    BY <1>3
  <2>2. \A j \in 1 .. (n + 1) : k + 1 < j => ~IsFull(ch[j], b)
    <3> SUFFICES ASSUME NEW j \in 1 .. (n + 1), k + 1 < j PROVE ~IsFull(ch[j], b)
      OBVIOUS
    <3>1. j # 1 /\ k < j - 1
      OBVIOUS
    <3> QED BY <1>5, <1>11, <3>1
  <2> QED BY <1>6, <1>11, <2>1, <2>2
<1>12. ASSUME NEW b \in DeltaAgents, \A j \in 1 .. n : ~IsFull(t[j], b)
       PROVE  rb2[b] = sb[b]
  <2>1. \A j \in 1 .. (n + 1) : 1 < j => ~IsFull(ch[j], b)
    <3> SUFFICES ASSUME NEW j \in 1 .. (n + 1), 1 < j PROVE ~IsFull(ch[j], b)
      OBVIOUS
    <3>1. j # 1
      OBVIOUS
    <3> QED BY <1>5, <1>12, <3>1
  <2>2. CASE IsFull(h, b)
    BY <1>2, <1>4, <1>6, <1>7, <2>1, <2>2
  <2>3. CASE ~IsFull(h, b)
    <3>1. \A j \in 1 .. (n + 1) : ~IsFull(ch[j], b)
      <4> SUFFICES ASSUME NEW j \in 1 .. (n + 1) PROVE ~IsFull(ch[j], b)
        OBVIOUS
      <4>1. j = 1 \/ 1 < j
        OBVIOUS
      <4> QED BY <1>2, <2>1, <2>3, <4>1
    <3> QED BY <1>6, <1>7, <2>3, <3>1
  <2> QED BY <2>2, <2>3
<1>13. Ordered(t, rb2, sb)
  <2>1. \A b \in DeltaAgents : \A k, i \in DOMAIN t :
          k < i /\ IsFull(t[k], b) /\ IsDelta(t[i], b) /\ (\A j \in DOMAIN t : k < j /\ j < i => ~IsFull(t[j], b))
            => t[i].payload = t[i].sent.sem - t[k].sent.sem
    <3> SUFFICES ASSUME NEW b \in DeltaAgents, NEW k \in DOMAIN t, NEW i \in DOMAIN t, k < i,
                        IsFull(t[k], b), IsDelta(t[i], b),
                        \A j \in DOMAIN t : k < j /\ j < i => ~IsFull(t[j], b)
                 PROVE  t[i].payload = t[i].sent.sem - t[k].sent.sem
      OBVIOUS
    <3>1. k \in 1 .. n /\ i \in 1 .. n /\ \A j \in 1 .. n : k < j /\ j < i => ~IsFull(t[j], b)
      BY <1>3
    <3> QED BY <1>9, <3>1
  <2>2. \A b \in DeltaAgents : \A i \in DOMAIN t :
          IsDelta(t[i], b) /\ (\A j \in DOMAIN t : j < i => ~IsFull(t[j], b))
            => rb2[b] # NoBaseline /\ t[i].payload = t[i].sent.sem - rb2[b].sem
    BY <1>3, <1>10
  <2>3. \A b \in DeltaAgents : \A k \in DOMAIN t :
          IsFull(t[k], b) /\ (\A j \in DOMAIN t : k < j => ~IsFull(t[j], b)) => t[k].sent = sb[b]
    BY <1>3, <1>11
  <2>4. \A b \in DeltaAgents : (\A j \in DOMAIN t : ~IsFull(t[j], b)) => rb2[b] = sb[b]
    BY <1>3, <1>12
  <2>5. \A i \in DOMAIN t : t[i].type = "FULL" => t[i].payload = t[i].sent
    BY <1>3, <1>8
  <2> QED BY <2>1, <2>2, <2>3, <2>4, <2>5 DEF Ordered
<1> QED BY <1>3, <1>13

LEMMA ChainsStay ==
  ASSUME DeltaInv, UNCHANGED <<deltaChains, messageLog, senderBaselines>>
  PROVE  \A b \in DeltaAgents : Chained(LogOf(b), deltaChains[b], senderBaselines[b])'
<1> SUFFICES ASSUME NEW b \in DeltaAgents PROVE Chained(LogOf(b), deltaChains[b], senderBaselines[b])'
  OBVIOUS
<1>1. PICK of, c, base : of = LogOf(b) /\ c = deltaChains[b] /\ base = senderBaselines[b]
  OBVIOUS
<1>2. of = LogOf(b)' /\ c = deltaChains'[b] /\ base = senderBaselines'[b]
  BY <1>1 DEF LogOf
<1>3. Chained(of, c, base)
  BY <1>1 DEF DeltaInv
<1> QED BY <1>2, <1>3 DEF Chained

LEMMA Arrived ==
  ASSUME DeltaInv, ReceiveMessage
  PROVE  DeltaInv'
<1>1. PICK ch, rb, sb, m, rb2 :
        /\ ch = channel /\ rb = receiverBaselines /\ sb = senderBaselines /\ m = Head(ch) /\ rb2 = receiverBaselines'
        /\ ch \in Seq(Parcels) /\ rb \in [DeltaAgents -> DeltaCogons \cup {NoBaseline}]
  BY DEF DeltaInv, DeltaTypes
<1>2. /\ ch # <<>> /\ channel' = Tail(ch) /\ Tail(ch) \in Seq(Parcels) /\ senderBaselines' = sb
      /\ rb2 = IF m.type = "FULL" THEN [rb EXCEPT ![m.agent] = m.payload] ELSE rb
      /\ decompressed' = [sent |-> m.sent, got |-> Decompress(m)]
      /\ UNCHANGED <<deltaChains, messageLog, deltaMetrics>>
  BY <1>1 DEF ReceiveMessage
<1>3. Ordered(ch, rb, sb)
  BY <1>1 DEF DeltaInv, OnTheWay
<1>4. Ordered(Tail(ch), rb2, sb)
  BY <1>1, <1>2, <1>3, Shifted
<1>5. /\ m \in Parcels /\ 1 \in DOMAIN ch /\ m = ch[1] /\ m.agent \in DeltaAgents /\ m.sent \in DeltaCogons
      /\ m.type \in {"FULL", "DELTA"} /\ \A j \in DOMAIN ch : ~(j < 1)
  <2>1. Len(ch) \in Nat /\ Len(ch) # 0 /\ DOMAIN ch = 1 .. Len(ch)
    BY <1>2, EmptySeq
  <2>2. 1 \in DOMAIN ch /\ \A j \in DOMAIN ch : ~(j < 1)
    BY <2>1
  <2>3. m \in Parcels /\ m = ch[1]
    BY <1>1, <1>2, <2>1
  <2> QED BY <2>2, <2>3 DEF Parcels
<1>6. /\ m.type = "FULL" => Decompress(m) = m.sent /\ m.payload = m.sent
      /\ Decompress(m).sem = m.sent.sem /\ Decompress(m) \in DeltaCogons
  <2>1. CASE m.type = "FULL"
    BY <1>3, <1>5, <2>1 DEF Ordered, Decompress
  <2>2. CASE m.type = "DELTA"
    <3>1. rb[m.agent] # NoBaseline /\ m.payload = m.sent.sem - rb[m.agent].sem
      <4>1. IsDelta(m, m.agent)
        BY <2>2 DEF IsDelta
      <4> QED BY <1>3, <1>5, <4>1 DEF Ordered
    <3>2. PICK v, w \in 0 .. Axis, x \in {0, 1} :
             v = rb[m.agent].sem /\ w = m.sent.sem /\ x = rb[m.agent].unc /\ Axis \in Nat
      BY <1>1, <1>5, <3>1, CompressorAssumption DEF DeltaCogons
    <3>3. Clamped(v + (w - v)) = w
      BY <3>2 DEF Clamped
    <3>4. Decompress(m) = [sem |-> w, unc |-> x]
      BY <1>1, <2>2, <3>1, <3>2, <3>3 DEF Decompress, ApplyDelta
    <3>5. [sem |-> w, unc |-> x] \in DeltaCogons
      BY DEF DeltaCogons
    <3> QED BY <2>2, <3>2, <3>4, <3>5
  <2> QED BY <1>5, <2>1, <2>2
<1>7. rb2 \in [DeltaAgents -> DeltaCogons \cup {NoBaseline}]
  BY <1>1, <1>2, <1>5, <1>6
<1>8. DeltaTypes'
  <2>1. decompressed'.got \in DeltaCogons
    BY <1>2, <1>6
  <2> QED BY <1>1, <1>2, <1>7, <2>1 DEF DeltaInv, DeltaTypes
<1>9. OnTheWay'
  <2>1. decompressed'.got.sem = decompressed'.sent.sem
    BY <1>2, <1>6
  <2> QED BY <1>1, <1>2, <1>4, <2>1 DEF OnTheWay
<1>10. MetricsExact'
  BY <1>2 DEF DeltaInv, MetricsExact, ReportRaises, Savings
<1>11. ASSUME NEW b \in DeltaAgents PROVE Chained(LogOf(b), deltaChains[b], senderBaselines[b])'
  BY <1>1, <1>2, ChainsStay DEF DeltaInv
<1> QED BY <1>8, <1>9, <1>10, <1>11 DEF DeltaInv

LEMMA DeltaInductive ==
  ASSUME DeltaInv, [DeltaNext]_deltaVars
  PROVE  DeltaInv'
<1>1. ASSUME NEW a \in DeltaAgents, NEW c \in DeltaCogons, SendFull(a, c)
      PROVE  DeltaInv'
  BY <1>1, Posted DEF SendFull
<1>2. ASSUME NEW a \in DeltaAgents, NEW c \in DeltaCogons, SendDelta1337(a, c)
      PROVE  DeltaInv'
  <2>1. PICK payload : payload = c.sem - senderBaselines[a].sem
    OBVIOUS
  <2>2. /\ Post(a, "DELTA", c, payload) /\ UNCHANGED <<receiverBaselines, decompressed>>
        /\ senderBaselines[a] # NoBaseline /\ deltaChains[a] < MaxDeltaChain
        /\ senderBaselines' = senderBaselines
        /\ deltaChains' = [deltaChains EXCEPT ![a] = @ + 1]
        /\ deltaMetrics' = Updated(TRUE)
    BY <1>2, <2>1 DEF SendDelta1337, ShouldUseDelta, ComputeDelta, BaselineAfterDelta
  <2>3. PICK type \in {"FULL", "DELTA"} : type = "DELTA"
    OBVIOUS
  <2> QED BY <2>1, <2>2, <2>3, Posted
<1>3. CASE UNCHANGED deltaVars
  <2>1. UNCHANGED <<senderBaselines, receiverBaselines, deltaChains, channel, messageLog, deltaMetrics, decompressed>>
    BY <1>3 DEF deltaVars
  <2>2. DeltaTypes'
    BY <2>1 DEF DeltaInv, DeltaTypes
  <2>3. OnTheWay'
    <3>1. PICK ch, rb, sb : ch = channel /\ rb = receiverBaselines /\ sb = senderBaselines
      OBVIOUS
    <3>2. Ordered(ch, rb, sb) /\ ch = channel' /\ rb = receiverBaselines' /\ sb = senderBaselines'
      BY <2>1, <3>1 DEF DeltaInv, OnTheWay
    <3>3. decompressed'.got.sem = decompressed'.sent.sem
      BY <2>1 DEF DeltaInv, OnTheWay
    <3> QED BY <3>2, <3>3 DEF OnTheWay
  <2>4. MetricsExact'
    BY <2>1 DEF DeltaInv, MetricsExact, ReportRaises, Savings
  <2> QED BY <2>1, <2>2, <2>3, <2>4, ChainsStay DEF DeltaInv
<1> QED BY <1>1, <1>2, <1>3, Arrived DEF DeltaNext, SendMessage

LEMMA DeltaInvSafe ==
  ASSUME DeltaInv
  PROVE  DeltaSound
<1>1. Decodes
  <2>1. decompressed.got.sem = decompressed.sent.sem
    BY DEF DeltaInv, OnTheWay
  <2>2. ASSUME NEW i \in DOMAIN channel, channel[i].type = "DELTA",
               \A j \in 1 .. i - 1 : channel[j].agent # channel[i].agent
        PROVE  receiverBaselines[channel[i].agent] # NoBaseline
    <3>1. channel \in Seq(Parcels) /\ DOMAIN channel = 1 .. Len(channel) /\ Len(channel) \in Nat
      BY LenProperties DEF DeltaInv, DeltaTypes
    <3>2. PICK p \in Parcels : p = channel[i]
      BY <3>1
    <3>3. p.agent \in DeltaAgents
      BY DEF Parcels
    <3>4. \A j \in DOMAIN channel : j < i => ~IsFull(channel[j], channel[i].agent)
      <4> SUFFICES ASSUME NEW j \in DOMAIN channel, j < i PROVE ~IsFull(channel[j], channel[i].agent)
        OBVIOUS
      <4>1. j \in 1 .. i - 1
        BY <3>1
      <4> QED BY <2>2, <4>1 DEF IsFull
    <3> QED BY <2>2, <3>2, <3>3, <3>4 DEF DeltaInv, OnTheWay, Ordered, IsDelta
  <2> QED BY <2>1, <2>2 DEF Decodes
<1>2. ChainBounded
  BY DEF DeltaInv, Chained, LogOf, ChainBounded
<1> QED BY <1>1, <1>2 DEF DeltaInv, DeltaSound

LEMMA OneWay ==
  ASSUME [OtherProgramsNext]_programVars
  PROVE  /\ program' = program
         /\ program = "messages" => [MessageNext]_messageVars
         /\ program = "codec" => [CodecNext]_codecVars
         /\ program = "delta" => [DeltaNext]_deltaVars
<1>1. CASE UNCHANGED programVars
  BY <1>1 DEF programVars
<1>2. CASE OtherProgramsNext
  BY <1>2 DEF OtherProgramsNext, Only
<1> QED BY <1>1, <1>2

MessagesUsed ==
  /\ program = "messages" => MsgInv
  /\ program = "codec" => CodecInv
  /\ program = "delta" => DeltaInv

\* topological_order answers exactly for a DAG that has an order, and what it
\* answers is one of the nodes and edges there are, cached or not; of what
\* validate.py accepts, validate.rs rejects exactly the four kinds it looks at
\* alone or otherwise, COGON_ZERO among them; a value
\* that is passed on again and again loses less than one step of 1/255 in all;
\* no DELTA is applied to another baseline than the one it was taken against.
THEOREM MessagesAreKept == OtherProgramsSpec => []MessagesKept
<1>1. OtherProgramsInit => MessagesUsed
  BY MsgStarts, CodecStarts, DeltaStarts DEF OtherProgramsInit, MessagesUsed
<1>2. MessagesUsed /\ [OtherProgramsNext]_programVars => MessagesUsed'
  <2> SUFFICES ASSUME MessagesUsed, [OtherProgramsNext]_programVars PROVE MessagesUsed'
    OBVIOUS
  <2>1. program' = program
    BY OneWay
  <2>2. CASE program = "messages"
    BY <2>1, <2>2, OneWay, MsgInductive DEF MessagesUsed
  <2>3. CASE program = "codec"
    BY <2>1, <2>3, OneWay, CodecInductive DEF MessagesUsed
  <2>4. CASE program = "delta"
    BY <2>1, <2>4, OneWay, DeltaInductive DEF MessagesUsed
  <2> QED BY <2>1, <2>2, <2>3, <2>4 DEF MessagesUsed
<1>3. MessagesUsed => MessagesKept
  BY MsgInvSafe, CodecInvSafe, DeltaInvSafe DEF MessagesUsed, MessagesKept
<1> QED BY <1>1, <1>2, <1>3, PTL DEF OtherProgramsSpec

=============================================================================
