------------------------- MODULE PythonClients_proofs -------------------------
(***************************************************************************)
(* Proofs about the connections of the Python SDK, for any number of       *)
(* clients, tasks, connections and messages: the pool's rotation, the one  *)
(* connection of a WebSocket client and its close(), the manager's table,  *)
(* and the replies and messages of ZeroMQ.                                 *)
(***************************************************************************)
EXTENDS PythonClients, FiniteSetTheorems, SequenceTheorems, TLAPS

(***************************************************************************)
(* The pool.  Only a pool that runs has a health loop, a loop that asks    *)
(* has somebody to ask, and a client that is open is one of the pool.      *)
(***************************************************************************)
Rotation ==
  /\ Len(pool) <= PoolSize /\ Len(members) <= MaxMembers
  /\ poolPhase = "down" => pool = <<>>
  /\ poolPhase = "starting" =>
       Len(pool) < PoolSize /\ Len(members) + PoolSize <= MaxMembers + Len(pool)
  /\ poolPhase # "running" => health = NoHealthTask
  /\ health # NoHealthTask => pool # <<>>
  /\ \A m \in DOMAIN members : members[m].open => m \in Range(pool)

PoolInv == PoolTypeOK /\ FailuresTrip /\ Rotation

Member == [url : Urls, healthy : BOOLEAN, failures : Nat, open : BOOLEAN]
Hold == [member : 0 .. Len(members), key : PoolKeys \cup {"none"}]

\* The parts of PoolInv, with the facts on sequences that every step needs.
LEMMA PoolFacts ==
  ASSUME PoolInv
  PROVE  /\ members \in Seq(Member) /\ Len(members) \in Nat /\ DOMAIN members = 1 .. Len(members)
         /\ pool \in Seq(1 .. Len(members)) /\ Len(pool) \in Nat /\ DOMAIN pool = 1 .. Len(pool)
         /\ \A m \in 1 .. Len(members) : members[m] \in Member
         /\ \A i \in 1 .. Len(pool) : pool[i] \in 1 .. Len(members)
         /\ Range(pool) = {pool[i] : i \in 1 .. Len(pool)}
         /\ PoolSize \in Nat \ {0} /\ MaxFailures \in Nat \ {0} /\ MaxMembers \in Nat
         /\ NoHealthTask \in Nat /\ NoHealthTask > PoolSize + MaxMembers
         /\ IndexCycle \in Nat \ {0}
<1>1. members \in Seq(Member) /\ pool \in Seq(DOMAIN members)
  BY DEF PoolInv, PoolTypeOK, Member
<1>2. Len(members) \in Nat /\ DOMAIN members = 1 .. Len(members)
  BY <1>1, LenProperties
<1>3. Len(pool) \in Nat /\ DOMAIN pool = 1 .. Len(pool)
  BY <1>1, LenProperties
<1>4. PoolSize \in Nat \ {0} /\ MaxFailures \in Nat \ {0} /\ MaxMembers \in Nat /\ IndexCycle \in Nat \ {0}
  BY PoolAssumption
<1>5. \A m \in 1 .. Len(members) : members[m] \in Member
  BY <1>1, <1>2, ElementOfSeq
<1>6. \A i \in 1 .. Len(pool) : pool[i] \in 1 .. Len(members)
  BY <1>1, <1>2, <1>3, ElementOfSeq
<1>7. Range(pool) = {pool[i] : i \in 1 .. Len(pool)}
  BY <1>3 DEF Range
<1>8. NoHealthTask \in Nat /\ NoHealthTask > PoolSize + MaxMembers
  BY <1>4 DEF NoHealthTask
<1> QED BY <1>1, <1>2, <1>3, <1>4, <1>5, <1>6, <1>7, <1>8

\* A step that changes some clients and keeps the pool, its phase, and who
\* is open or closes some, keeps the invariant as far as it is about clients.
LEMMA ClientsChange ==
  ASSUME PoolInv,
         DOMAIN members' = DOMAIN members, members' \in Seq(Member), Len(members') = Len(members),
         \A m \in DOMAIN members :
           /\ members'[m].open => members[m].open
           /\ members'[m].failures >= MaxFailures => ~members'[m].healthy,
         UNCHANGED <<poolKind, poolPhase, pool, poolIndex, up>>,
         health' \in {Asleep, NoHealthTask} \cup DOMAIN pool,
         health' # NoHealthTask => health # NoHealthTask,
         poolPhase # "running" => health' = NoHealthTask,
         sticky' \in [PoolKeys -> 0 .. Len(members)],
         holding' \in [PoolTasks -> Hold]
  PROVE  PoolInv'
<1>1. PoolTypeOK'
  BY PoolFacts DEF PoolInv, PoolTypeOK, Member, Hold
<1>2. FailuresTrip'
  BY DEF FailuresTrip
<1>3. Rotation'
  BY PoolFacts DEF PoolInv, PoolTypeOK, Rotation, NoHealthTask
<1> QED BY <1>1, <1>2, <1>3 DEF PoolInv

\* So does a step that changes no client.
LEMMA ClientsStay ==
  ASSUME PoolInv, UNCHANGED <<poolKind, poolPhase, members, pool>>,
         poolIndex' \in 0 .. IndexCycle - 1, up' \subseteq Urls,
         health' \in {Asleep, NoHealthTask} \cup DOMAIN pool,
         health' # NoHealthTask => health # NoHealthTask,
         poolPhase # "running" => health' = NoHealthTask,
         sticky' \in [PoolKeys -> 0 .. Len(members)],
         holding' \in [PoolTasks -> Hold]
  PROVE  PoolInv'
<1>1. PoolTypeOK'
  BY PoolFacts DEF PoolInv, PoolTypeOK, Member, Hold
<1>2. FailuresTrip'
  BY DEF PoolInv, FailuresTrip
<1>3. Rotation'
  BY PoolFacts DEF PoolInv, PoolTypeOK, Rotation, NoHealthTask
<1> QED BY <1>1, <1>2, <1>3 DEF PoolInv

\* start(), client by client, and where it fails.
LEMMA PoolStarting ==
  ASSUME PoolInv, PoolStart \/ PoolConnect \/ PoolStartFails
  PROVE  PoolInv'
<1> USE PoolFacts
<1>1. CASE PoolStart
  <2>1. PoolTypeOK' /\ FailuresTrip'
    BY <1>1 DEF PoolInv, PoolTypeOK, PoolStart, FailuresTrip
  <2>2. Rotation'
    <3>1. Len(pool) = 0
      BY <1>1 DEF PoolInv, Rotation, PoolStart
    <3> QED BY <1>1, <3>1 DEF PoolInv, Rotation, PoolStart, NoHealthTask
  <2> QED BY <2>1, <2>2 DEF PoolInv
<1>2. CASE PoolConnect
  <2> DEFINE c == [url |-> Started, healthy |-> TRUE, failures |-> 0, open |-> TRUE]
             n == Len(members) + 1
  <2>1. /\ poolPhase = "starting" /\ Len(pool) < PoolSize
        /\ Len(members) + PoolSize <= MaxMembers + Len(pool)
        /\ health = NoHealthTask
    BY <1>2 DEF PoolConnect, PoolInv, Rotation
  <2>2. c \in Member /\ c.failures = 0
    BY <2>1 DEF Member, Started, Urls
  <2>3. members' = Append(members, c) /\ pool' = Append(pool, n)
    BY <1>2 DEF PoolConnect
  <2>4. /\ members' \in Seq(Member) /\ Len(members') = n
        /\ \A m \in 1 .. Len(members) : members'[m] = members[m]
        /\ members'[n] = c
    BY <2>2, <2>3, AppendProperties
  <2>5. pool \in Seq(1 .. n) /\ n \in 1 .. n
    BY SeqMonotonic
  <2>6. /\ pool' \in Seq(1 .. n) /\ Len(pool') = Len(pool) + 1
        /\ \A i \in 1 .. Len(pool) : pool'[i] = pool[i]
        /\ pool'[Len(pool) + 1] = n /\ pool' # <<>>
    BY <2>3, <2>5, AppendProperties
  <2>7. DOMAIN members' = 1 .. n /\ DOMAIN pool' = 1 .. Len(pool) + 1
    BY <2>4, <2>6, LenProperties
  <2>8. \/ poolPhase' = "running" /\ health' = Asleep
        \/ poolPhase' = "starting" /\ health' = NoHealthTask /\ Len(pool) + 1 < PoolSize
    BY <1>2, <2>1 DEF PoolConnect, Started
  <2>9. UNCHANGED <<poolKind, poolIndex, sticky, holding, up>>
    BY <1>2 DEF PoolConnect
  <2>10. PoolTypeOK'
    <3>1. sticky' \in [PoolKeys -> 0 .. n]
      BY <2>9 DEF PoolInv, PoolTypeOK
    <3>2. holding' \in [PoolTasks -> [member : 0 .. n, key : PoolKeys \cup {"none"}]]
      BY <2>9 DEF PoolInv, PoolTypeOK
    <3>3. members' \in Seq(Member) /\ pool' \in Seq(DOMAIN members')
      BY <2>4, <2>6, <2>7
    <3> QED BY <2>4, <2>8, <2>9, <3>1, <3>2, <3>3 DEF PoolInv, PoolTypeOK, Member
  <2>11. FailuresTrip'
    <3> HIDE DEF c
    <3>1. \A m \in 1 .. n : m = n \/ m \in 1 .. Len(members)
      OBVIOUS
    <3> QED BY <2>2, <2>4, <2>7, <3>1 DEF PoolInv, FailuresTrip
  <2>12. Rotation'
    <3>1. Range(pool') = Range(pool) \cup {n}
      <4>1. Range(pool') = {pool'[i] : i \in 1 .. Len(pool) + 1}
        BY <2>7 DEF Range
      <4>2. 1 .. Len(pool) + 1 = (1 .. Len(pool)) \cup {Len(pool) + 1}
        OBVIOUS
      <4>3. Range(pool') = {pool'[i] : i \in 1 .. Len(pool)} \cup {pool'[Len(pool) + 1]}
        BY <4>1, <4>2
      <4>4. {pool'[i] : i \in 1 .. Len(pool)} = {pool[i] : i \in 1 .. Len(pool)}
        BY ONLY <2>6
      <4> QED BY <2>6, <4>3, <4>4
    <3>2. \A m \in DOMAIN members' : members'[m].open => m \in Range(pool')
      BY <2>4, <2>7, <3>1 DEF PoolInv, Rotation
    <3>3. Len(pool') <= PoolSize /\ Len(members') <= MaxMembers
      BY <2>1, <2>4, <2>6
    <3>4. poolPhase' = "starting" =>
            Len(pool') < PoolSize /\ Len(members') + PoolSize <= MaxMembers + Len(pool')
      <4>1. Len(members') = Len(members) + 1 /\ Len(pool') = Len(pool) + 1
        BY <2>4, <2>6
      <4>2. poolPhase' = "starting" => Len(pool) + 1 < PoolSize
        BY ONLY <2>8
      <4> QED BY ONLY <2>1, <4>1, <4>2, PoolSize \in Nat, MaxMembers \in Nat, Len(pool) \in Nat,
              Len(members) \in Nat
    <3>5. /\ poolPhase' # "down" /\ pool' # <<>>
          /\ poolPhase' # "running" => health' = NoHealthTask
      BY ONLY <2>6, <2>8
    <3> QED BY ONLY <3>2, <3>3, <3>4, <3>5 DEF Rotation
  <2> QED BY <2>10, <2>11, <2>12 DEF PoolInv
<1>3. CASE PoolStartFails
  BY <1>3 DEF PoolInv, PoolTypeOK, PoolStartFails, FailuresTrip, Rotation
<1> QED BY <1>1, <1>2, <1>3

\* stop(), from the health loop to the last close.
LEMMA PoolStopping ==
  ASSUME PoolInv, PoolStop \/ PoolClose \/ PoolStopped
  PROVE  PoolInv'
<1> USE PoolFacts
<1>1. CASE PoolStop
  BY <1>1 DEF PoolInv, PoolTypeOK, PoolStop, FailuresTrip, Rotation
<1>2. CASE PoolClose
  <2>1. PICK m \in Range(pool) : members' = [members EXCEPT ![m].open = FALSE]
    BY <1>2 DEF PoolClose, StillOpen
  <2>2. m \in 1 .. Len(members)
    BY <2>1
  <2> DEFINE c == [members[m] EXCEPT !.open = FALSE]
  <2>3. c \in Member /\ c.failures = members[m].failures /\ c.healthy = members[m].healthy /\ ~c.open
    BY <2>2 DEF Member
  <2>4. members' = [members EXCEPT ![m] = c]
    BY <2>1
  <2>5. /\ members' \in Seq(Member) /\ Len(members') = Len(members)
        /\ \A k \in 1 .. Len(members) : members'[k] = IF k = m THEN c ELSE members[k]
    <3> HIDE DEF c
    <3> QED BY <2>2, <2>3, <2>4, ExceptSeq
  <2>6. DOMAIN members' = DOMAIN members
    BY <2>5, LenProperties
  <2>7. \A k \in DOMAIN members :
          /\ members'[k].open => members[k].open
          /\ members'[k].failures >= MaxFailures => ~members'[k].healthy
    <3> HIDE DEF c
    <3> QED BY <2>2, <2>3, <2>5 DEF PoolInv, FailuresTrip
  <2> QED BY <1>2, <2>5, <2>6, <2>7, ClientsChange
          DEF PoolClose, PoolInv, PoolTypeOK, Rotation, Hold
<1>3. CASE PoolStopped
  <2>1. \A m \in DOMAIN members : ~members[m].open
    BY <1>3 DEF PoolStopped, StillOpen, PoolInv, Rotation
  <2>2. pool' = <<>> /\ health = NoHealthTask /\ pool' \in Seq(DOMAIN members') /\ Len(pool') = 0
    BY <1>3 DEF PoolStopped, Cleared, PoolInv, Rotation
  <2> QED BY <1>3, <2>1, <2>2 DEF PoolInv, PoolTypeOK, PoolStopped, FailuresTrip, Rotation
<1> QED BY <1>1, <1>2, <1>3

\* A client that failed is out of the rotation if it has too many failures.
LEMMA FailedClient ==
  ASSUME NEW c \in Member, MaxFailures \in Nat \ {0}
  PROVE  /\ Failed(c) \in Member /\ Failed(c).open = c.open
         /\ Failed(c).failures >= MaxFailures => ~Failed(c).healthy
<1> DEFINE f == IF c.failures < MaxFailures THEN c.failures + 1 ELSE c.failures
           h == c.healthy /\ c.failures + 1 < MaxFailures
<1>1. c.failures \in Nat
  BY DEF Member
<1>2. Failed(c) = [c EXCEPT !.failures = f, !.healthy = h]
  BY DEF Failed
<1>3. f \in Nat /\ h \in BOOLEAN /\ (f >= MaxFailures => ~h)
  BY <1>1
<1> HIDE DEF f, h
<1>4. /\ Failed(c) \in Member /\ Failed(c).open = c.open
      /\ Failed(c).failures = f /\ Failed(c).healthy = h
  BY <1>2, <1>3 DEF Member
<1> QED BY <1>3, <1>4

\* The requests of a task.
LEMMA PoolRequests ==
  ASSUME PoolInv, NEW t \in PoolTasks,
         Acquire(t) \/ Release(t) \/ RequestFails(t) \/ \E k \in PoolKeys : AcquireSticky(t, k)
  PROVE  PoolInv'
<1> USE PoolFacts
<1>0. holding \in [PoolTasks -> Hold] /\ sticky \in [PoolKeys -> 0 .. Len(members)]
      /\ poolIndex \in 0 .. IndexCycle - 1 /\ up \subseteq Urls
      /\ health \in {Asleep, NoHealthTask} \cup DOMAIN pool
      /\ (poolPhase # "running" => health = NoHealthTask)
  BY DEF PoolInv, PoolTypeOK, Hold, Rotation
<1>1. CASE Acquire(t)
  <2>1. PICK m \in NextClient : holding' = [holding EXCEPT ![t] = [member |-> m, key |-> "none"]]
    BY <1>1 DEF Acquire
  <2>2. m \in 1 .. Len(members)
    BY <2>1 DEF NextClient, Healthy
  <2>3. holding' \in [PoolTasks -> Hold]
    BY <1>0, <2>1, <2>2 DEF Hold
  <2>4. poolIndex' \in 0 .. IndexCycle - 1
    BY <1>0, <1>1 DEF Acquire
  <2> QED BY <1>0, <1>1, <2>3, <2>4, ClientsStay DEF Acquire
<1>2. CASE \E k \in PoolKeys : AcquireSticky(t, k)
  <2>0. PICK k \in PoolKeys : AcquireSticky(t, k)
    BY <1>2
  <2>1. PICK m \in ClientsForKey(k) :
          /\ sticky' = [sticky EXCEPT ![k] = m]
          /\ holding' = [holding EXCEPT ![t] = [member |-> m, key |-> k]]
    BY <2>0 DEF AcquireSticky
  <2>2. m \in 0 .. Len(members)
    BY <1>0, <2>1 DEF ClientsForKey, Healthy
  <2>3. holding' \in [PoolTasks -> Hold] /\ sticky' \in [PoolKeys -> 0 .. Len(members)]
    BY <1>0, <2>1, <2>2 DEF Hold
  <2> QED BY <1>0, <2>0, <2>3, ClientsStay DEF AcquireSticky
<1>3. CASE Release(t)
  <2>1. holding' \in [PoolTasks -> Hold]
    BY <1>0, <1>3 DEF Release, Hold, NoClient
  <2> QED BY <1>0, <1>3, <2>1, ClientsStay DEF Release
<1>4. CASE RequestFails(t)
  <2> DEFINE m == holding[t].member
             c == members[m]
             d == Failed(c)
  <2>1. m \in 1 .. Len(members)
    <3>1. m \in 0 .. Len(members) /\ m # 0
      BY <1>0, <1>4 DEF RequestFails, Hold
    <3> QED BY <3>1
  <2>2. c \in Member
    BY <2>1
  <2>3. members' = [members EXCEPT ![m] = d]
    BY <1>4 DEF RequestFails
  <2>4. /\ d \in Member /\ d.open = c.open
        /\ d.failures >= MaxFailures => ~d.healthy
    <3> HIDE DEF c
    <3> QED BY <2>2, FailedClient
  <2>5. /\ members' \in Seq(Member) /\ Len(members') = Len(members)
        /\ \A j \in 1 .. Len(members) : members'[j] = IF j = m THEN d ELSE members[j]
    <3> HIDE DEF d, m
    <3> QED BY <2>1, <2>3, <2>4, ExceptSeq
  <2>6. DOMAIN members' = DOMAIN members
    BY <2>5, LenProperties
  <2>7. \A j \in DOMAIN members :
          /\ members'[j].open => members[j].open
          /\ members'[j].failures >= MaxFailures => ~members'[j].healthy
    <3> HIDE DEF d
    <3> QED BY <2>1, <2>4, <2>5 DEF PoolInv, FailuresTrip
  <2>8. holding' \in [PoolTasks -> Hold]
    BY <1>0, <1>4 DEF RequestFails, Hold, NoClient
  <2>9. sticky' \in [PoolKeys -> 0 .. Len(members)]
    BY <1>0, <1>4 DEF RequestFails, StickyAfter
  <2> QED BY <1>0, <1>4, <2>5, <2>6, <2>7, <2>8, <2>9, ClientsChange DEF RequestFails
<1> QED BY <1>1, <1>2, <1>3, <1>4

\* A client that was checked, with any answer, is out of the rotation if it has
\* too many failures.
LEMMA CheckedClient ==
  ASSUME NEW c \in Member, NEW ok \in BOOLEAN, MaxFailures \in Nat \ {0},
         c.failures >= MaxFailures => ~c.healthy
  PROVE  /\ Checked(c, ok) \in Member /\ Checked(c, ok).open = c.open
         /\ Checked(c, ok).failures >= MaxFailures => ~Checked(c, ok).healthy
<1>1. CASE ok
  <2>1. Checked(c, ok) = [c EXCEPT !.healthy = TRUE, !.failures = 0]
    BY <1>1 DEF Checked
  <2>2. c = [url |-> c.url, healthy |-> c.healthy, failures |-> c.failures, open |-> c.open]
        /\ c.url \in Urls /\ c.open \in BOOLEAN
    BY DEF Member
  <2>3. Checked(c, ok) = [url |-> c.url, healthy |-> TRUE, failures |-> 0, open |-> c.open]
    BY <2>1, <2>2
  <2> QED BY <2>2, <2>3 DEF Member
<1>2. CASE ~ok
  <2>1. Checked(c, ok) = [c EXCEPT !.healthy = FALSE]
    BY <1>2 DEF Checked
  <2> QED BY <2>1 DEF Member
<1> QED BY <1>1, <1>2

\* The health loop.
LEMMA PoolHealth ==
  ASSUME PoolInv, HealthWakes \/ HealthAnswers
  PROVE  PoolInv'
<1> USE PoolFacts
<1>0. holding \in [PoolTasks -> Hold] /\ sticky \in [PoolKeys -> 0 .. Len(members)]
      /\ poolIndex \in 0 .. IndexCycle - 1 /\ up \subseteq Urls
      /\ health \in {Asleep, NoHealthTask} \cup DOMAIN pool
      /\ (poolPhase # "running" => health = NoHealthTask) /\ Len(pool) <= PoolSize
      /\ (health # NoHealthTask => pool # <<>>)
      /\ \A m \in DOMAIN members : members[m].failures >= MaxFailures => ~members[m].healthy
  BY DEF PoolInv, PoolTypeOK, Hold, Rotation, FailuresTrip
<1>1. CASE HealthWakes /\ poolKind = "zmq"
  <2>1. members' = [m \in DOMAIN members |->
                      IF m \in Range(pool) THEN Checked(members[m], TRUE) ELSE members[m]]
    BY <1>1 DEF HealthWakes
  <2>2. \A m \in 1 .. Len(members) :
          /\ members'[m] \in Member /\ members'[m].open = members[m].open
          /\ members'[m].failures >= MaxFailures => ~members'[m].healthy
    BY <1>0, <2>1, CheckedClient
  <2>3. members' \in [1 .. Len(members) -> Member]
    BY <2>1, <2>2
  <2>4. members' \in Seq(Member) /\ Len(members') = Len(members) /\ DOMAIN members' = DOMAIN members
    <3>1. Len(members) \in Nat /\ DOMAIN members = 1 .. Len(members)
      OBVIOUS
    <3> QED BY ONLY <2>3, <3>1
  <2> QED BY <1>0, <1>1, <2>2, <2>4, ClientsChange DEF HealthWakes
<1>2. CASE HealthWakes /\ poolKind # "zmq"
  <2>1. health' = 1 /\ health = Asleep /\ UNCHANGED members
    BY <1>2 DEF HealthWakes
  <2>2. health # NoHealthTask
    BY <2>1 DEF Asleep
  <2>3. Len(pool) # 0
    BY <1>0, <2>2, EmptySeq
  <2>4. 1 \in DOMAIN pool
    BY <2>3
  <2> QED BY <1>0, <1>2, <2>1, <2>2, <2>4, ClientsStay DEF HealthWakes
<1>3. CASE HealthAnswers
  <2> DEFINE m == pool[health]
             d == Checked(members[m], members[m].url \in up)
  <2>1. health \in 1 .. Len(pool) /\ m \in 1 .. Len(members)
    BY <1>3 DEF HealthAnswers
  <2>2. /\ d \in Member /\ d.open = members[m].open
        /\ d.failures >= MaxFailures => ~d.healthy
    <3>1. members[m] \in Member /\ (members[m].url \in up) \in BOOLEAN
          /\ (members[m].failures >= MaxFailures => ~members[m].healthy)
      BY <1>0, <2>1
    <3> HIDE DEF m
    <3> QED BY <3>1, CheckedClient
  <2>3. members' = [members EXCEPT ![m] = d]
    BY <1>3 DEF HealthAnswers
  <2>4. /\ members' \in Seq(Member) /\ Len(members') = Len(members)
        /\ \A j \in 1 .. Len(members) : members'[j] = IF j = m THEN d ELSE members[j]
    <3> HIDE DEF d, m
    <3> QED BY <2>1, <2>2, <2>3, ExceptSeq
  <2>5. DOMAIN members' = DOMAIN members
    BY <2>4, LenProperties
  <2>6. \A j \in DOMAIN members :
          /\ members'[j].open => members[j].open
          /\ members'[j].failures >= MaxFailures => ~members'[j].healthy
    <3> HIDE DEF d
    <3> QED BY <1>0, <2>1, <2>2, <2>4
  <2>7. health' \in {Asleep} \cup DOMAIN pool /\ health # NoHealthTask
    BY <1>0, <1>3, <2>1 DEF HealthAnswers, Asleep
  <2> QED BY <1>0, <1>3, <2>4, <2>5, <2>6, <2>7, ClientsChange DEF HealthAnswers
<1> QED BY <1>1, <1>2, <1>3 DEF HealthWakes

LEMMA PoolInductive ==
  /\ PoolInit => PoolInv
  /\ PoolInv /\ [PoolNext]_poolVars => PoolInv'
<1>1. ASSUME PoolInit PROVE PoolInv
  <2>1. members = <<>> /\ pool = <<>> /\ Len(members) = 0 /\ Len(pool) = 0
        /\ DOMAIN members = {}
    BY <1>1 DEF PoolInit
  <2>2. PoolTypeOK
    BY <1>1, <2>1, PoolAssumption DEF PoolInit, PoolTypeOK, NoClient, NoHealthTask
  <2> QED BY <1>1, <2>1, <2>2, PoolAssumption DEF PoolInv, PoolInit, FailuresTrip, Rotation
<1>2. ASSUME PoolInv, [PoolNext]_poolVars PROVE PoolInv'
  <2>1. CASE \E u \in Urls : ServerTurns(u)
    <3>1. up' \subseteq Urls
      BY <1>2, <2>1 DEF ServerTurns, PoolInv, PoolTypeOK
    <3> QED BY <1>2, <2>1, <3>1, ClientsStay DEF ServerTurns, PoolInv, PoolTypeOK, Hold, Rotation
  <2>2. CASE UNCHANGED poolVars
    BY <1>2, <2>2 DEF poolVars, PoolInv, PoolTypeOK, FailuresTrip, Rotation
  <2>3. CASE \E t \in PoolTasks :
               \/ Acquire(t) \/ Release(t) \/ RequestFails(t)
               \/ \E k \in PoolKeys : AcquireSticky(t, k)
    BY <1>2, <2>3, PoolRequests
  <2> QED BY <1>2, <2>1, <2>2, <2>3, PoolStarting, PoolStopping, PoolHealth DEF PoolNext
<1> QED BY <1>1, <1>2

LEMMA PoolInvSafe ==
  PoolInv => PoolTypeOK /\ FailuresTrip /\ DownMeansClosed
<1>1. ASSUME PoolInv PROVE DownMeansClosed
  <2> SUFFICES ASSUME poolPhase = "down", NEW m \in DOMAIN members, members[m].open PROVE FALSE
    BY DEF DownMeansClosed
  <2>1. m \in Range(pool) /\ pool = <<>>
    BY <1>1 DEF PoolInv, Rotation
  <2> QED BY <2>1 DEF Range
<1> QED BY <1>1 DEF PoolInv

(***************************************************************************)
(* The WebSocket client.                                                   *)
(***************************************************************************)
Trying == {p \in WsTasks : at[p] \in {"sleep", "dial"}}
Reading(n) == at[Receiver(n)] = "recv"

\* Connections are numbered as they are made, and every attempt was allowed:
\* the first by connect(), the others by the count of reconnections.
Numbered ==
  /\ websocket \in Nat /\ Opened = 1 .. websocket
  /\ Cardinality(Trying) \in Nat
  /\ websocket + Cardinality(Trying) <= reconnects + (IF at[Caller] = "none" THEN 0 ELSE 1)
  /\ at[Caller] = "none" => Opened = {} /\ closing = "none" /\ \A p \in WsTasks : at[p] = "none"

\* No two loops read one connection.
Apart ==
  /\ \A n \in Connection : Reading(n) => on[Receiver(n)] \in Opened
  /\ \A m, n \in Connection :
       Reading(m) /\ Reading(n) /\ on[Receiver(m)] = on[Receiver(n)] => m = n

\* As long as no two tasks reconnect at once, the newest connection alone is
\* open and read, and whoever dials has waited until all loops had ended.
Single ==
  ~overlap =>
    /\ \A p, q \in Reconnecting : p = q
    /\ \A n \in Connection : sockets[n] = "open" => n = websocket /\ Trying = {}
    /\ \A n \in Connection : Reading(n) =>
         n = websocket /\ on[Receiver(n)] = websocket /\ \A p \in WsTasks : at[p] # "dial"
    /\ ~Spinning

\* What close() has ended by the time it is at a point.
Quiet ==
  ~overlap /\ ~astray /\ closing # "none" =>
    /\ wsState = "CLOSED" /\ Reconnecting = {}
    /\ closing # "heartbeat" => \A n \in Connection : ~Reading(n)
    /\ closing \in {"socket", "returned"} => \A n \in Connection : at[Heartbeat(n)] # "ping"

\* As long as no two tasks reconnect at once, the connection that is being
\* closed is the newest; and nobody waits for a PONG without a connection.
Shutting ==
  /\ ~overlap => \A p \in WsTasks : at[p] = "closing" => shuts[p] = websocket
  /\ websocket = 0 => \A n \in Connection : at[Heartbeat(n)] # "ping"
  /\ at[Caller] # "closing"

WsInv == WsTypeOK /\ Numbered /\ Apart /\ Single /\ Quiet /\ Shutting

Places == {"none", "recv", "spin", "nap", "ping", "closing", "sleep", "dial", "done"}
WsStates == {"DISCONNECTED", "CONNECTING", "CONNECTED", "RECONNECTING", "CLOSED"}
Closings == {"none", "heartbeat", "receive", "socket", "returned"}
Loops == Receivers \cup Heartbeats

\* The tasks: the caller, and two loops for each connection.
LEMMA TaskNames ==
  /\ Caller \in WsTasks /\ Loops \subseteq WsTasks /\ Caller \notin Loops
  /\ \A n \in Connection : Receiver(n) \in Loops /\ Heartbeat(n) \in Heartbeats
  /\ Heartbeats \subseteq Loops
  /\ \A n \in Connection : Receiver(n) \in Receivers /\ Receiver(n) \notin Heartbeats
  /\ \A m, n \in Connection :
       (Receiver(m) = Receiver(n) => m = n) /\ (Heartbeat(m) = Heartbeat(n) => m = n)
BY DEF WsTasks, Loops, Receivers, Heartbeats, Caller, Receiver, Heartbeat

LEMMA TasksFinite == IsFiniteSet(WsTasks)
<1>1. IsFiniteSet(Connection)
  BY WsAssumption, FS_Interval DEF Connection
<1>2. IsFiniteSet(Receivers)
  <2> DEFINE f == [n \in Connection |-> Receiver(n)]
  <2>1. f \in Surjection(Connection, Receivers)
    BY DEF Receivers, Surjection
  <2> QED BY <1>1, <2>1, FS_Surjection
<1>3. IsFiniteSet(Heartbeats)
  <2> DEFINE f == [n \in Connection |-> Heartbeat(n)]
  <2>1. f \in Surjection(Connection, Heartbeats)
    BY DEF Heartbeats, Surjection
  <2> QED BY <1>1, <2>1, FS_Surjection
<1>4. IsFiniteSet({Caller} \cup Receivers)
  BY <1>2, FS_Singleton, FS_Union
<1> QED BY <1>3, <1>4, FS_Union DEF WsTasks

\* A set of tasks that has not more than one member.
LEMMA AtMostOne ==
  ASSUME NEW B \in SUBSET WsTasks, ~(Cardinality(B) > 1), NEW p \in B, NEW q \in B
  PROVE  p = q
<1> SUFFICES ASSUME p # q PROVE FALSE
  OBVIOUS
<1>1. IsFiniteSet(B) /\ Cardinality(B) \in Nat
  BY TasksFinite, FS_Subset, FS_CardinalityType
<1>2. IsFiniteSet({p}) /\ Cardinality({p}) = 1
  BY FS_Singleton
<1>3. Cardinality({p} \cup {q}) = 2
  <2>1. Cardinality({p} \cup {q}) = IF q \in {p} THEN Cardinality({p}) ELSE Cardinality({p}) + 1
    BY <1>2, FS_AddElement
  <2> QED BY <1>2, <2>1
<1>4. {p} \cup {q} \in SUBSET B
  OBVIOUS
<1>5. Cardinality({p} \cup {q}) <= Cardinality(B)
  BY <1>1, <1>4, FS_Subset
<1> QED BY <1>1, <1>3, <1>5

\* What the history variables say of a step.
LEMMA HistorySays ==
  ASSUME overlap \in BOOLEAN, astray \in BOOLEAN, WsHistory
  PROVE  /\ overlap' \in BOOLEAN /\ astray' \in BOOLEAN
         /\ ~overlap' => ~overlap /\ \A p, q \in Reconnecting' : p = q
         /\ ~astray' => /\ ~astray
                        /\ closing' # "none" /\ closing # "returned" => Reconnecting' = {}
<1> DEFINE busy == {p \in WsTasks : at'[p] \in {"closing", "sleep", "dial"}}
<1>1. /\ overlap' = (overlap \/ Cardinality(busy) > 1)
      /\ astray' = (astray \/ (closing' # "none" /\ closing # "returned" /\ busy # {}))
  BY DEF WsHistory
<1>2. Reconnecting' = busy
  BY DEF Reconnecting
<1>3. busy \in SUBSET WsTasks
  OBVIOUS
<1> HIDE DEF busy
<1>4. ~(Cardinality(busy) > 1) => \A p, q \in busy : p = q
  BY <1>3, AtMostOne
<1> QED BY <1>1, <1>2, <1>4

\* How the attempts that are under way count.
LEMMA TryingCounts ==
  /\ Cardinality(Trying) \in Nat /\ Cardinality(Trying') \in Nat
  /\ Trying' \subseteq Trying => Cardinality(Trying') <= Cardinality(Trying)
  /\ \A p : Trying' \subseteq Trying \cup {p} => Cardinality(Trying') <= Cardinality(Trying) + 1
  /\ \A p \in Trying : Trying' \subseteq Trying \ {p} => Cardinality(Trying') + 1 <= Cardinality(Trying)
<1>1. Trying \in SUBSET WsTasks /\ Trying' \in SUBSET WsTasks
  BY DEF Trying
<1>2. /\ IsFiniteSet(Trying) /\ Cardinality(Trying) \in Nat
      /\ IsFiniteSet(Trying') /\ Cardinality(Trying') \in Nat
  BY <1>1, TasksFinite, FS_Subset, FS_CardinalityType
<1>3. ASSUME Trying' \subseteq Trying PROVE Cardinality(Trying') <= Cardinality(Trying)
  BY <1>2, <1>3, FS_Subset
<1>4. ASSUME NEW p, Trying' \subseteq Trying \cup {p}
      PROVE  Cardinality(Trying') <= Cardinality(Trying) + 1
  <2>1. /\ IsFiniteSet(Trying \cup {p})
        /\ Cardinality(Trying \cup {p}) = IF p \in Trying THEN Cardinality(Trying) ELSE Cardinality(Trying) + 1
    BY <1>2, FS_AddElement
  <2>2. Cardinality(Trying') <= Cardinality(Trying \cup {p})
    BY <1>4, <2>1, FS_Subset
  <2> QED BY <1>2, <2>1, <2>2
<1>5. ASSUME NEW p \in Trying, Trying' \subseteq Trying \ {p}
      PROVE  Cardinality(Trying') + 1 <= Cardinality(Trying)
  <2>1. IsFiniteSet(Trying \ {p}) /\ Cardinality(Trying \ {p}) = Cardinality(Trying) - 1
    BY <1>2, FS_RemoveElement
  <2>2. Cardinality(Trying') <= Cardinality(Trying \ {p})
    BY <1>5, <2>1, FS_Subset
  <2> QED BY <1>2, <2>1, <2>2
<1> QED BY <1>2, <1>3, <1>4, <1>5

\* The parts of WsInv that are of use to every step.
LEMMA WsFacts ==
  ASSUME WsInv
  PROVE  /\ MaxReconnects \in Nat /\ reconnects \in 0 .. MaxReconnects
         /\ wsState \in WsStates /\ closing \in Closings /\ awaited \subseteq Loops
         /\ sockets \in [Connection -> {"none", "open", "lost", "closed"}]
         /\ at \in [WsTasks -> Places] /\ on \in [Loops -> {0} \cup Connection]
         /\ shuts \in [WsTasks -> {0} \cup Connection]
         /\ overlap \in BOOLEAN /\ astray \in BOOLEAN
         /\ websocket \in Nat /\ Opened = 1 .. websocket /\ websocket \in {0} \cup Connection
         /\ \A n \in Connection : n \in Opened <=> sockets[n] # "none"
<1>1. Opened \subseteq Connection
  BY DEF Opened
<1> QED BY <1>1, WsAssumption
        DEF WsInv, WsTypeOK, Numbered, WsStates, Closings, Loops, Places, Opened

\* A step that opens no connection, starts no attempt and lets no loop read,
\* after the first dial.
LEMMA WsCalm ==
  ASSUME WsInv, WsHistory, ~Spinning, at[Caller] # "none", at'[Caller] # "none",
         wsState' \in WsStates, closing' \in Closings, awaited' \subseteq Loops,
         at' \in [WsTasks -> Places], on' \in [Loops -> {0} \cup Connection],
         shuts' \in [WsTasks -> {0} \cup Connection],
         UNCHANGED <<websocket, reconnects>>,
         sockets' \in [Connection -> {"none", "open", "lost", "closed"}],
         \A n \in Connection :
           /\ sockets'[n] = "none" <=> sockets[n] = "none"
           /\ sockets'[n] = "open" => sockets[n] = "open",
         \A p \in WsTasks : at'[p] = at[p] \/ at'[p] \notin {"sleep", "dial", "recv", "spin"},
         \A n \in Connection : Reading(n)' => on'[Receiver(n)] = on[Receiver(n)]
  PROVE  WsTypeOK' /\ Numbered' /\ Apart' /\ Single'
<1> USE WsFacts
<1>1. Opened' = Opened
  BY DEF Opened
<1>2. Trying' \subseteq Trying
  BY DEF Trying
<1>3. \A n \in Connection : Reading(n)' => Reading(n)
  BY TaskNames DEF Reading
<1>4. WsTypeOK'
  BY <1>1, HistorySays DEF WsInv, WsTypeOK, WsStates, Closings, Loops, Places
<1>5. Numbered'
  BY <1>1, <1>2, TryingCounts DEF WsInv, Numbered
<1>6. Apart'
  BY <1>1, <1>3 DEF WsInv, Apart
<1>7. Single'
  <2> SUFFICES ASSUME ~overlap' PROVE Single'
    BY DEF Single
  <2>1. ~overlap /\ \A p, q \in Reconnecting' : p = q
    BY HistorySays
  <2>2. \A n \in Connection : sockets'[n] = "open" => n = websocket' /\ Trying' = {}
    BY <1>2, <2>1 DEF WsInv, Single
  <2>3. \A n \in Connection : Reading(n)' =>
          n = websocket' /\ on'[Receiver(n)] = websocket' /\ \A p \in WsTasks : at'[p] # "dial"
    BY <1>3, <2>1 DEF WsInv, Single
  <2>4. ~Spinning'
    BY DEF Spinning
  <2> QED BY <2>1, <2>2, <2>3, <2>4 DEF Single
<1> QED BY <1>4, <1>5, <1>6, <1>7

\* A step that replaces no connection: what is closed is the newest still.
LEMMA WsShutting ==
  ASSUME WsInv, WsHistory, UNCHANGED websocket,
         \A p \in WsTasks : at'[p] = "closing" =>
           (p # Caller /\ shuts'[p] = websocket) \/ (at[p] = "closing" /\ shuts'[p] = shuts[p]),
         \A n \in Connection : at'[Heartbeat(n)] = "ping" => at[Heartbeat(n)] = "ping" \/ Connected
  PROVE  Shutting'
<1>1. ~overlap' => ~overlap
  BY WsFacts, HistorySays
<1>2. ~overlap' => \A p \in WsTasks : at'[p] = "closing" => shuts'[p] = websocket'
  BY <1>1 DEF WsInv, Shutting
<1>3. websocket' = 0 => \A n \in Connection : at'[Heartbeat(n)] # "ping"
  BY DEF WsInv, Shutting, Connected
<1>4. at'[Caller] # "closing"
  BY TaskNames DEF WsInv, Shutting
<1> QED BY <1>2, <1>3, <1>4 DEF Shutting

\* A step beside close(): it tells a closed client nothing new.
LEMMA WsQuiet ==
  ASSUME WsInv, WsHistory, UNCHANGED closing,
         \/ wsState' = wsState
         \/ Reconnecting' # {},
         \A n \in Connection : Reading(n)' => Reading(n),
         \A n \in Connection : at'[Heartbeat(n)] = "ping" => at[Heartbeat(n)] = "ping" \/ Connected,
         closing = "returned" /\ ~overlap /\ ~astray => Reconnecting' = {}
  PROVE  Quiet'
<1> SUFFICES ASSUME ~overlap', ~astray', closing # "none" PROVE Quiet'
  BY DEF Quiet
<1>1. /\ ~overlap /\ ~astray /\ closing \in Closings
      /\ closing' # "none" /\ closing # "returned" => Reconnecting' = {}
  BY HistorySays, WsFacts
<1>2. Reconnecting' = {}
  BY <1>1 DEF Closings
<1>3. wsState = "CLOSED" /\ ~Connected
  BY <1>1 DEF WsInv, Quiet, Connected
<1> QED BY <1>1, <1>2, <1>3 DEF WsInv, Quiet

\* Once anything has begun the caller has dialed.
LEMMA Begun ==
  ASSUME WsInv,
         \/ closing # "none"
         \/ \E p \in WsTasks : at[p] # "none"
         \/ \E n \in Connection : sockets[n] # "none"
  PROVE  at[Caller] # "none"
BY DEF WsInv, Numbered, Opened

\* The steps of a loop that goes on to no other connection.
LEMMA WsLoops ==
  ASSUME WsInv, ~Spinning, NEW n \in Connection,
         ReceiveClosed(n) \/ ReceiveLost(n) \/ Ping(n) \/ Pong(n) \/ PingTimesOut(n)
  PROVE  WsInv'
<1> USE WsFacts
<1>1. CASE ReceiveClosed(n) \/ ReceiveLost(n)
  <2> DEFINE p == Receiver(n)
  <2>1. /\ at[p] = "recv" /\ p \in WsTasks /\ p \in Loops /\ p # Caller
        /\ UNCHANGED <<websocket, sockets, reconnects, closing, awaited>> /\ WsHistory
        /\ on' = [on EXCEPT ![p] = 0]
    BY <1>1, TaskNames DEF ReceiveClosed, ReceiveLost
  <2>2. \/ wsState' = wsState /\ at' = [at EXCEPT ![p] = "done"] /\ shuts' = shuts
        \/ /\ wsState' = "RECONNECTING" /\ at' = [at EXCEPT ![p] = "closing"]
           /\ shuts' = [shuts EXCEPT ![p] = websocket]
    BY <1>1 DEF ReceiveClosed, ReceiveLost, Reconnect
  <2>3. at[Caller] # "none" /\ at'[Caller] # "none"
    BY <2>1, <2>2, TaskNames, Begun
  <2>0. shuts' \in [WsTasks -> {0} \cup Connection]
    BY <2>1, <2>2
  <2>12. \A q \in WsTasks : at'[q] = "closing" =>
           (q # Caller /\ shuts'[q] = websocket) \/ (at[q] = "closing" /\ shuts'[q] = shuts[q])
    BY <2>1, <2>2
  <2>4. /\ at' \in [WsTasks -> Places] /\ on' \in [Loops -> {0} \cup Connection] /\ wsState' \in WsStates
        /\ \A q \in WsTasks : at'[q] = at[q] \/ at'[q] \notin {"sleep", "dial", "recv", "spin"}
    BY <2>1, <2>2 DEF Places, WsStates
  <2>5. \A m \in Connection : Reading(m)' => Reading(m) /\ m # n
    BY <2>1, <2>2, TaskNames DEF Reading
  <2>6. \A m \in Connection : Reading(m)' => on'[Receiver(m)] = on[Receiver(m)]
    BY <2>1, <2>5, TaskNames
  <2>7. WsTypeOK' /\ Numbered' /\ Apart' /\ Single'
    BY <2>0, <2>1, <2>3, <2>4, <2>6, WsCalm
  <2>8. \A m \in Connection : at'[Heartbeat(m)] = "ping" => at[Heartbeat(m)] = "ping"
    BY <2>1, <2>2, TaskNames
  <2>9. wsState' = wsState \/ Reconnecting' # {}
    BY <2>1, <2>2 DEF Reconnecting
  <2>10. ~(closing = "returned" /\ ~overlap /\ ~astray)
    BY <2>1 DEF WsInv, Quiet, Reading
  <2>11. Quiet'
    BY <2>1, <2>5, <2>8, <2>9, <2>10, WsQuiet
  <2>13. Shutting'
    BY <2>1, <2>8, <2>12, WsShutting
  <2> QED BY <2>7, <2>11, <2>13 DEF WsInv
<1>2. CASE Ping(n) \/ Pong(n) \/ PingTimesOut(n)
  <2> DEFINE p == Heartbeat(n)
  <2>1. /\ at[p] \in {"nap", "ping"} /\ p \in WsTasks /\ p \in Loops /\ p # Caller
        /\ UNCHANGED <<websocket, sockets, reconnects, closing, awaited>> /\ WsHistory
        /\ \E o \in {0} \cup Connection : on' = [on EXCEPT ![p] = o]
    BY <1>2, TaskNames DEF Ping, Pong, PingTimesOut
  <2>2. \/ /\ wsState' = wsState
           /\ \E w \in {"done", "nap", "ping"} :
                at' = [at EXCEPT ![p] = w] /\ (w = "ping" => Connected)
           /\ shuts' = shuts
        \/ /\ wsState' = "RECONNECTING" /\ at' = [at EXCEPT ![p] = "closing"] /\ at[p] = "ping"
           /\ shuts' = [shuts EXCEPT ![p] = websocket]
    BY <1>2 DEF Ping, Pong, PingTimesOut, Reconnect
  <2>3. at[Caller] # "none" /\ at'[Caller] # "none"
    BY <2>1, <2>2, TaskNames, Begun
  <2>0. shuts' \in [WsTasks -> {0} \cup Connection]
    BY <2>1, <2>2
  <2>12. \A q \in WsTasks : at'[q] = "closing" =>
           (q # Caller /\ shuts'[q] = websocket) \/ (at[q] = "closing" /\ shuts'[q] = shuts[q])
    BY <2>1, <2>2
  <2>4. /\ at' \in [WsTasks -> Places] /\ on' \in [Loops -> {0} \cup Connection] /\ wsState' \in WsStates
        /\ \A q \in WsTasks : at'[q] = at[q] \/ at'[q] \notin {"sleep", "dial", "recv", "spin"}
    BY <2>1, <2>2 DEF Places, WsStates
  <2>5. \A m \in Connection : Receiver(m) # p /\ at'[Receiver(m)] = at[Receiver(m)]
    BY <2>1, <2>2, TaskNames
  <2>6. \A m \in Connection : Reading(m)' => Reading(m) /\ on'[Receiver(m)] = on[Receiver(m)]
    BY <2>1, <2>5, TaskNames DEF Reading
  <2>7. WsTypeOK' /\ Numbered' /\ Apart' /\ Single'
    BY <2>0, <2>1, <2>3, <2>4, <2>6, WsCalm
  <2>8. \A m \in Connection : at'[Heartbeat(m)] = "ping" => at[Heartbeat(m)] = "ping" \/ Connected
    BY <2>1, <2>2, TaskNames
  <2>9. wsState' = wsState \/ Reconnecting' # {}
    BY <2>1, <2>2 DEF Reconnecting
  <2>10. closing = "returned" /\ ~overlap /\ ~astray => Reconnecting' = {}
    <3> SUFFICES ASSUME closing = "returned", ~overlap, ~astray PROVE Reconnecting' = {}
      OBVIOUS
    <3>1. Reconnecting = {} /\ at[p] # "ping"
      BY DEF WsInv, Quiet
    <3>2. PICK w \in {"done", "nap", "ping"} : at' = [at EXCEPT ![p] = w]
      BY <2>2, <3>1
    <3> QED BY <3>1, <3>2 DEF Reconnecting
  <2>11. Quiet'
    BY <2>1, <2>6, <2>8, <2>9, <2>10, WsQuiet
  <2>13. Shutting'
    BY <2>1, <2>8, <2>12, WsShutting
  <2> QED BY <2>7, <2>11, <2>13 DEF WsInv
<1> QED BY <1>1, <1>2

\* The network ends a connection.
LEMMA WsLose ==
  ASSUME WsInv, ~Spinning, NEW n \in Connection, NEW how \in {"lost", "closed"}, Lose(n, how)
  PROVE  WsInv'
<1> USE WsFacts
<1>1. /\ sockets[n] = "open" /\ sockets' = [sockets EXCEPT ![n] = how]
      /\ UNCHANGED <<wsState, websocket, at, on, shuts, reconnects, closing, awaited>> /\ WsHistory
  BY DEF Lose
<1>2. at[Caller] # "none" /\ at'[Caller] # "none"
  BY <1>1, Begun
<1>3. /\ sockets' \in [Connection -> {"none", "open", "lost", "closed"}]
      /\ \A m \in Connection :
           /\ sockets'[m] = "none" <=> sockets[m] = "none"
           /\ sockets'[m] = "open" => sockets[m] = "open"
  BY <1>1
<1>4. \A m \in Connection : Reading(m)' => Reading(m)
  BY <1>1 DEF Reading
<1>5. ~Spinning'
  BY <1>1 DEF Spinning
<1>6. WsTypeOK' /\ Numbered' /\ Apart' /\ Single'
  BY <1>1, <1>2, <1>3, <1>4, WsCalm
<1>7. closing = "returned" /\ ~overlap /\ ~astray => Reconnecting' = {}
  BY <1>1 DEF WsInv, Quiet, Reconnecting
<1>8. Quiet'
  BY <1>1, <1>4, <1>7, WsQuiet
<1>9. Shutting'
  BY <1>1, WsShutting
<1> QED BY <1>6, <1>8, <1>9 DEF WsInv

\* Cancelling tasks ends them, and starts nothing.
LEMMA Cancelled ==
  ASSUME WsInv, NEW tasks \in SUBSET Loops, Cancel(tasks)
  PROVE  /\ at' \in [WsTasks -> Places] /\ awaited' \subseteq Loops
         /\ \A p \in WsTasks : at'[p] = at[p] \/ at'[p] \notin {"sleep", "dial", "recv", "spin"}
         /\ \A n \in Connection : Reading(n)' => Reading(n)
         /\ \A n \in Connection : at'[Heartbeat(n)] = "ping" => at[Heartbeat(n)] = "ping"
         /\ \A p \in tasks : at[p] # "closing" => at'[p] = "done"
         /\ \A p \in WsTasks : p \notin tasks => at'[p] = at[p]
         /\ Reconnecting' \subseteq Reconnecting
         /\ \A p \in WsTasks : at'[p] = "closing" => at[p] = "closing"
<1> USE WsFacts, TaskNames
<1>1. /\ \A p \in WsTasks : at'[p] = IF p \in tasks /\ at[p] # "closing" THEN "done" ELSE at[p]
      /\ at' = [p \in WsTasks |-> IF p \in tasks /\ at[p] # "closing" THEN "done" ELSE at[p]]
      /\ awaited' = tasks
  BY DEF Cancel
<1>2. \A n \in Connection : Reading(n)' => Reading(n)
  BY <1>1 DEF Reading
<1>3. Reconnecting' \subseteq Reconnecting
  BY <1>1 DEF Reconnecting
<1>4. at' \in [WsTasks -> Places]
  BY <1>1 DEF Places
<1> QED BY <1>1, <1>2, <1>3, <1>4

\* The newest connection has the last number.
LEMMA NewestIsLast ==
  ASSUME WsInv
  PROVE  Cardinality(Opened) = websocket
<1>1. websocket \in Nat /\ Opened = 1 .. websocket
  BY WsFacts
<1>2. Cardinality(1 .. websocket) = IF 1 > websocket THEN 0 ELSE websocket - 1 + 1
  BY <1>1, FS_Interval
<1> QED BY <1>1, <1>2

\* The tasks that close() knows of are loops of the newest connection.
LEMMA KnownLoops ==
  ASSUME WsInv
  PROVE  /\ Known(Heartbeat) \subseteq Loops /\ Known(Receiver) \subseteq Loops
         /\ \A n \in Connection : n = websocket => Receiver(n) \in Known(Receiver)
<1> USE WsFacts
<1>1. websocket = 0 => Opened = {}
  OBVIOUS
<1>2. Cardinality(Opened) = websocket
  BY NewestIsLast
<1>5. websocket # 0 => websocket \in Opened /\ websocket \in Connection
  OBVIOUS
<1>3. CASE websocket = 0
  BY <1>1, <1>3 DEF Known, Connection
<1>4. CASE websocket # 0
  <2>1. Known(Heartbeat) = {Heartbeat(websocket)} /\ Known(Receiver) = {Receiver(websocket)}
    BY <1>2, <1>4, <1>5 DEF Known
  <2>2. Receiver(websocket) \in Loops /\ Heartbeat(websocket) \in Loops
    BY <1>4, <1>5, TaskNames
  <2> QED BY <2>1, <2>2
<1> QED BY <1>3, <1>4

\* The four steps of close().
LEMMA WsClosing ==
  ASSUME WsInv, ~Spinning, Close \/ CloseReceive \/ CloseSocket \/ CloseReturns
  PROVE  WsInv'
<1> USE WsFacts
<1>1. at[Caller] # "none" /\ WsHistory
  BY Begun DEF Close, CloseReceive, CloseSocket, CloseReturns
<1>2. CASE Close
  <2>1. /\ closing = "none" /\ wsState' = "CLOSED"
        /\ closing' = IF websocket = 0 THEN "returned" ELSE "heartbeat"
        /\ Cancel(Known(Heartbeat))
        /\ UNCHANGED <<websocket, sockets, on, shuts, reconnects>>
    BY <1>2 DEF Close
  <2>2. at'[Caller] # "none" /\ wsState' \in WsStates /\ closing' \in Closings
    BY <1>1, <2>1, TaskNames, KnownLoops, Cancelled DEF WsStates, Closings
  <2>3. WsTypeOK' /\ Numbered' /\ Apart' /\ Single'
    BY <1>1, <2>1, <2>2, KnownLoops, Cancelled, WsCalm
  <2>5. Shutting'
    BY <1>1, <2>1, KnownLoops, Cancelled, WsShutting
  <2>4. Quiet'
    <3> SUFFICES ASSUME ~overlap', ~astray' PROVE Quiet'
      BY DEF Quiet
    <3>1. Reconnecting' = {}
      BY <1>1, <2>1, HistorySays
    <3>2. websocket = 0 => \A n \in Connection : ~Reading(n)'
      <4> SUFFICES ASSUME websocket = 0, NEW n \in Connection, Reading(n)' PROVE FALSE
        OBVIOUS
      <4>1. on[Receiver(n)] \in 1 .. 0
        BY <2>1, KnownLoops, Cancelled DEF WsInv, Apart
      <4> QED BY <4>1
    <3> QED BY <2>1, <2>5, <3>1, <3>2 DEF Quiet, Shutting
  <2> QED BY <2>3, <2>4, <2>5 DEF WsInv
<1>3. CASE CloseReceive
  <2>1. /\ closing = "heartbeat" /\ closing' = "receive"
        /\ Cancel(Known(Receiver))
        /\ UNCHANGED <<wsState, websocket, sockets, on, shuts, reconnects>>
    BY <1>3 DEF CloseReceive
  <2>2. at'[Caller] # "none" /\ wsState' \in WsStates /\ closing' \in Closings
    BY <1>1, <2>1, TaskNames, KnownLoops, Cancelled DEF WsStates, Closings
  <2>3. WsTypeOK' /\ Numbered' /\ Apart' /\ Single'
    BY <1>1, <2>1, <2>2, KnownLoops, Cancelled, WsCalm
  <2>4. Quiet'
    <3> SUFFICES ASSUME ~overlap', ~astray' PROVE Quiet'
      BY DEF Quiet
    <3>1. ~overlap /\ ~astray /\ Reconnecting' = {}
      BY <1>1, <2>1, HistorySays
    <3>2. wsState' = "CLOSED"
      BY <2>1, <3>1 DEF WsInv, Quiet
    <3>3. \A n \in Connection : ~Reading(n)'
      <4> SUFFICES ASSUME NEW n \in Connection, Reading(n)' PROVE FALSE
        OBVIOUS
      <4>1. Reading(n)
        BY <2>1, KnownLoops, Cancelled
      <4>2. n = websocket
        BY <3>1, <4>1 DEF WsInv, Single
      <4>3. Receiver(n) \in Known(Receiver) /\ at[Receiver(n)] = "recv"
        BY <4>1, <4>2, KnownLoops DEF Reading
      <4>4. at'[Receiver(n)] = "done"
        BY <2>1, <4>3, KnownLoops, Cancelled
      <4> QED BY <4>4 DEF Reading
    <3> QED BY <2>1, <3>1, <3>2, <3>3 DEF Quiet
  <2>5. Shutting'
    BY <1>1, <2>1, KnownLoops, Cancelled, WsShutting
  <2> QED BY <2>3, <2>4, <2>5 DEF WsInv
<1>4. CASE CloseSocket
  <2>1. /\ closing = "receive" /\ closing' = "socket"
        /\ Cancel(Pending) /\ shuts' = [shuts EXCEPT ![Caller] = websocket]
        /\ UNCHANGED <<wsState, websocket, sockets, on, reconnects>>
    BY <1>4 DEF CloseSocket
  <2>0. Pending \subseteq Loops
    BY TaskNames DEF Pending
  <2>2. at'[Caller] # "none" /\ wsState' \in WsStates /\ closing' \in Closings
    BY <1>1, <2>0, <2>1, TaskNames, Cancelled DEF WsStates, Closings
  <2>6. shuts' \in [WsTasks -> {0} \cup Connection]
    BY <2>1
  <2>3. WsTypeOK' /\ Numbered' /\ Apart' /\ Single'
    BY <1>1, <2>0, <2>1, <2>2, <2>6, Cancelled, WsCalm
  <2>7. \A p \in WsTasks : p # Caller => shuts'[p] = shuts[p]
    BY <2>1
  <2>8. at[Caller] # "closing"
    BY DEF WsInv, Shutting
  <2>5. Shutting'
    BY <1>1, <2>0, <2>1, <2>7, <2>8, Cancelled, WsShutting
  <2>4. Quiet'
    <3> SUFFICES ASSUME ~overlap', ~astray' PROVE Quiet'
      BY DEF Quiet
    <3>1. ~overlap /\ ~astray /\ Reconnecting' = {}
      BY <1>1, <2>1, HistorySays
    <3>2. wsState' = "CLOSED" /\ \A n \in Connection : ~Reading(n)'
      BY <2>0, <2>1, <3>1, Cancelled DEF WsInv, Quiet
    <3>3. \A n \in Connection : at'[Heartbeat(n)] # "ping"
      <4> SUFFICES ASSUME NEW n \in Connection, at'[Heartbeat(n)] = "ping" PROVE FALSE
        OBVIOUS
      <4>1. at[Heartbeat(n)] = "ping" /\ Heartbeat(n) \in Pending
        BY <2>0, <2>1, Cancelled, TaskNames DEF Pending
      <4>2. at'[Heartbeat(n)] = "done"
        BY <2>0, <2>1, <4>1, Cancelled
      <4> QED BY <4>2
    <3> QED BY <2>1, <3>1, <3>2, <3>3 DEF Quiet
  <2> QED BY <2>3, <2>4, <2>5 DEF WsInv
<1>5. CASE CloseReturns
  <2>1. /\ closing = "socket" /\ closing' = "returned" /\ sockets' = Shut(shuts[Caller])
        /\ shuts' = [shuts EXCEPT ![Caller] = 0]
        /\ UNCHANGED <<wsState, websocket, at, on, reconnects, awaited>>
    BY <1>5 DEF CloseReturns
  <2>2. /\ sockets' \in [Connection -> {"none", "open", "lost", "closed"}]
        /\ \A m \in Connection :
             /\ sockets'[m] = "none" <=> sockets[m] = "none"
             /\ sockets'[m] = "open" => sockets[m] = "open"
    BY <2>1 DEF Shut
  <2>6. shuts' \in [WsTasks -> {0} \cup Connection]
    BY <2>1
  <2>3. WsTypeOK' /\ Numbered' /\ Apart' /\ Single'
    BY <1>1, <2>1, <2>2, <2>6, WsCalm DEF Closings
  <2>7. \A p \in WsTasks : p # Caller => shuts'[p] = shuts[p]
    BY <2>1
  <2>8. at[Caller] # "closing"
    BY DEF WsInv, Shutting
  <2>5. Shutting'
    BY <1>1, <2>1, <2>7, <2>8, WsShutting
  <2>4. Quiet'
    <3> SUFFICES ASSUME ~overlap', ~astray' PROVE Quiet'
      BY DEF Quiet
    <3>1. ~overlap /\ ~astray
      BY <1>1, HistorySays
    <3> QED BY <2>1, <3>1 DEF WsInv, Quiet, Reconnecting, Reading
  <2> QED BY <2>3, <2>4, <2>5 DEF WsInv
<1> QED BY <1>2, <1>3, <1>4, <1>5


\* A step of a task that reconnects is no step after an orderly close().
LEMMA WsBusy ==
  ASSUME WsInv, WsHistory, UNCHANGED closing, Reconnecting # {}
  PROVE  Quiet'
<1>1. ~overlap' => ~overlap
  BY WsFacts, HistorySays
<1>2. ~astray' => ~astray
  BY WsFacts, HistorySays
<1> QED BY <1>1, <1>2 DEF WsInv, Quiet

LEMMA WsConnect ==
  ASSUME WsInv, ~Spinning, Connect
  PROVE  WsInv'
<1> USE WsFacts
<1>1. /\ at[Caller] = "none" /\ wsState' = "CONNECTING" /\ at' = [at EXCEPT ![Caller] = "dial"]
      /\ UNCHANGED <<websocket, sockets, on, shuts, reconnects, closing, awaited>> /\ WsHistory
  BY DEF Connect
<1>2. Opened = {} /\ closing = "none" /\ \A p \in WsTasks : at[p] = "none"
  BY <1>1 DEF WsInv, Numbered
<1>3. at' \in [WsTasks -> Places] /\ at'[Caller] = "dial"
  BY <1>1, TaskNames DEF Places
<1>4. Opened' = Opened /\ \A n \in Connection : sockets'[n] # "open"
  BY <1>1, <1>2 DEF Opened
<1>5. Trying' \subseteq Trying \cup {Caller}
  BY <1>1 DEF Trying
<1>6. \A n \in Connection : ~Reading(n)'
  BY <1>1, <1>2, TaskNames DEF Reading
<1>7. ~Spinning'
  BY <1>1, <1>2 DEF Spinning
<1>8. WsTypeOK'
  BY <1>1, <1>3, <1>4, HistorySays DEF WsInv, WsTypeOK, WsStates, Loops, Places
<1>9. Numbered'
  <2>1. Cardinality(Trying') <= Cardinality(Trying) + 1
    BY <1>5, TryingCounts
  <2> QED BY <1>1, <1>3, <1>4, <2>1, TryingCounts DEF WsInv, Numbered
<1>10. Single'
  BY <1>1, <1>4, <1>6, <1>7, HistorySays DEF Single
<1>11. Shutting'
  BY <1>1, <1>2, TaskNames, WsShutting
<1> QED BY <1>1, <1>2, <1>6, <1>8, <1>9, <1>10, <1>11 DEF WsInv, Apart, Quiet

\* A new connection: nobody else was open or read, and it has a number of its own.
LEMMA WsDials ==
  ASSUME WsInv, ~Spinning, NEW p \in WsTasks, DialSucceeds(p)
  PROVE  WsInv'
<1> DEFINE n == Cardinality(Opened) + 1
<1> USE WsFacts
<1>1. /\ at[p] = "dial" /\ wsState' = "CONNECTED" /\ websocket' = n
      /\ sockets' = [sockets EXCEPT ![n] = "open"]
      /\ at' = [at EXCEPT ![p] = "done", ![Receiver(n)] = "recv", ![Heartbeat(n)] = "nap"]
      /\ on' = [on EXCEPT ![Receiver(n)] = n]
      /\ UNCHANGED <<shuts, reconnects, closing, awaited>> /\ WsHistory
  BY DEF DialSucceeds
<1>2. n = websocket + 1
  BY NewestIsLast
<1> HIDE DEF n
<1>3. at[Caller] # "none" /\ p \in Trying /\ p \in Reconnecting
  BY <1>1, Begun DEF Trying, Reconnecting
<1>4. Trying' \subseteq Trying \ {p}
  BY <1>1 DEF Trying
<1>5. Cardinality(Trying') + 1 <= Cardinality(Trying)
  BY <1>3, <1>4, TryingCounts
<1>6. n \in Connection /\ n \notin Opened
  <2>1. websocket + Cardinality(Trying) <= reconnects + 1
    BY <1>3 DEF WsInv, Numbered
  <2>2. websocket + 1 <= MaxReconnects + 1
    BY <1>5, <2>1, TryingCounts
  <2> QED BY <1>2, <2>2 DEF Connection
<1>7. /\ Receiver(n) \in Loops /\ Heartbeat(n) \in Loops /\ Receiver(n) # Heartbeat(n)
      /\ Receiver(n) # Caller /\ Heartbeat(n) # Caller
  BY <1>6, TaskNames
<1>8. /\ at' \in [WsTasks -> Places] /\ on' \in [Loops -> {0} \cup Connection]
      /\ sockets' \in [Connection -> {"none", "open", "lost", "closed"}]
  BY <1>1, <1>6, <1>7, TaskNames DEF Places
<1>9. at'[Caller] # "none"
  BY <1>1, <1>3, <1>7, TaskNames
<1>10. Opened' = Opened \cup {n}
  BY <1>1, <1>6 DEF Opened
<1>11. Opened' = 1 .. websocket' /\ websocket' \in Opened' /\ websocket' \in Nat
  BY <1>1, <1>2, <1>10
<1>12. \A m \in Connection : Reading(m)' => (m = n \/ Reading(m))
  BY <1>1, <1>6, TaskNames DEF Reading
<1>13. /\ on'[Receiver(n)] = n
       /\ \A m \in Connection : m # n => on'[Receiver(m)] = on[Receiver(m)]
  BY <1>1, <1>6, <1>7, TaskNames
<1>14. WsTypeOK'
  BY <1>1, <1>8, <1>11, HistorySays DEF WsInv, WsTypeOK, WsStates, Loops, Places
<1>15. Numbered'
  BY <1>1, <1>2, <1>5, <1>9, <1>11, <1>3, TryingCounts DEF WsInv, Numbered
<1>16. Apart'
  <2>1. \A m \in Connection : Reading(m)' /\ m # n => on'[Receiver(m)] \in Opened
    BY <1>12, <1>13 DEF WsInv, Apart
  <2>2. \A m \in Connection : Reading(m)' => on'[Receiver(m)] \in Opened'
    BY <1>10, <1>13, <2>1
  <2>3. \A k, m \in Connection :
          Reading(k)' /\ Reading(m)' /\ on'[Receiver(k)] = on'[Receiver(m)] => k = m
    BY <1>6, <1>12, <1>13, <2>1 DEF WsInv, Apart
  <2> QED BY <2>2, <2>3 DEF Apart
<1>17. Single'
  <2> SUFFICES ASSUME ~overlap' PROVE Single'
    BY DEF Single
  <2>1. ~overlap /\ \A q, r \in Reconnecting' : q = r
    BY <1>1, HistorySays
  <2>2. /\ \A q \in Reconnecting : q = p
        /\ \A m \in Connection : sockets[m] # "open" /\ ~Reading(m)
    BY <1>1, <1>3, <2>1 DEF WsInv, Single
  <2>3. \A q \in WsTasks : at'[q] \notin {"closing", "sleep", "dial"}
    BY <1>1, <2>2 DEF Reconnecting
  <2>4. Trying' = {}
    BY <2>3 DEF Trying
  <2>5. \A m \in Connection : sockets'[m] = "open" => m = n
    BY <1>1, <2>2
  <2>6. ~Spinning'
    BY <1>1 DEF Spinning
  <2> QED BY <1>1, <1>12, <1>13, <2>1, <2>2, <2>3, <2>4, <2>5, <2>6 DEF Single
<1>18. Quiet'
  BY <1>1, <1>3, WsBusy
<1>19. Shutting'
  <2>1. ASSUME ~overlap', NEW q \in WsTasks, at'[q] = "closing" PROVE FALSE
    <3>1. ~overlap
      BY <1>1, <2>1, HistorySays
    <3>2. q \in Reconnecting /\ q # p
      BY <1>1, <2>1 DEF Reconnecting
    <3> QED BY <1>3, <3>1, <3>2 DEF WsInv, Single
  <2>2. websocket' # 0
    BY <1>1, <1>2
  <2>3. at'[Caller] # "closing"
    BY <1>1, <1>7, TaskNames DEF WsInv, Shutting
  <2> QED BY <2>1, <2>2, <2>3 DEF Shutting
<1> QED BY <1>14, <1>15, <1>16, <1>17, <1>18, <1>19 DEF WsInv

\* A dial that fails, and the end of a pause between two dials.
LEMMA WsTries ==
  ASSUME WsInv, ~Spinning, NEW p \in WsTasks, DialFails(p) \/ SleepEnds(p)
  PROVE  WsInv'
<1> USE WsFacts
<1>1. /\ at[p] \in {"sleep", "dial"} /\ wsState' \in WsStates
      /\ UNCHANGED <<websocket, sockets, on, shuts, closing, awaited>> /\ WsHistory
      /\ reconnects' \in 0 .. MaxReconnects /\ reconnects <= reconnects'
  BY DEF DialFails, SleepEnds, WsStates
<1>2. PICK w \in {"sleep", "dial", "done"} :
        at' = [at EXCEPT ![p] = w] /\ (w = "dial" => Noticed) /\ (w # "dial" => at[p] = "dial")
  BY DEF DialFails, SleepEnds
<1>3. at[Caller] # "none" /\ p \in Trying /\ p \in Reconnecting
  BY <1>1, Begun DEF Trying, Reconnecting
<1>4. at' \in [WsTasks -> Places] /\ at'[Caller] # "none"
  BY <1>2, <1>3 DEF Places
<1>5. Trying' \subseteq Trying
  BY <1>2, <1>3 DEF Trying
<1>6. Opened' = Opened
  BY <1>1 DEF Opened
<1>7. \A n \in Connection : Reading(n)' => Reading(n)
  BY <1>2, TaskNames DEF Reading
<1>8. WsTypeOK'
  BY <1>1, <1>4, <1>6, HistorySays DEF WsInv, WsTypeOK, WsStates, Loops, Places
<1>9. Numbered'
  BY <1>1, <1>3, <1>4, <1>5, <1>6, TryingCounts DEF WsInv, Numbered
<1>10. Apart'
  BY <1>1, <1>6, <1>7 DEF WsInv, Apart
<1>11. Single'
  <2> SUFFICES ASSUME ~overlap' PROVE Single'
    BY DEF Single
  <2>1. ~overlap /\ \A q, r \in Reconnecting' : q = r
    BY <1>1, HistorySays
  <2>2. \A n \in Connection : sockets[n] # "open"
    BY <1>3, <2>1 DEF WsInv, Single
  <2>3. \A n \in Connection : ~Reading(n)
    <3> SUFFICES ASSUME NEW n \in Connection, Reading(n) PROVE FALSE
      OBVIOUS
    <3>1. at[p] # "dial"
      BY <2>1 DEF WsInv, Single
    <3>2. on[Receiver(n)] \in Connection /\ sockets[on[Receiver(n)]] = "open"
      BY <1>2, <3>1 DEF Noticed, Reading, WsInv, Apart, Opened
    <3> QED BY <2>2, <3>2
  <2>4. ~Spinning'
    BY <1>2 DEF Spinning
  <2> QED BY <1>1, <1>7, <2>1, <2>2, <2>3, <2>4 DEF Single
<1>12. Quiet'
  BY <1>1, <1>3, WsBusy
<1>13. Shutting'
  BY <1>1, <1>2, WsShutting
<1> QED BY <1>8, <1>9, <1>10, <1>11, <1>12, <1>13 DEF WsInv

\* _reconnect closes the socket, and then counts or gives up.
LEMMA WsGoesOn ==
  ASSUME WsInv, ~Spinning, NEW p \in WsTasks, ReconnectGoesOn(p)
  PROVE  WsInv'
<1> USE WsFacts
<1>1. /\ at[p] = "closing" /\ wsState' \in WsStates /\ sockets' = Shut(shuts[p])
      /\ shuts' = [shuts EXCEPT ![p] = 0]
      /\ UNCHANGED <<websocket, on, closing, awaited>> /\ WsHistory
  BY DEF ReconnectGoesOn, WsStates
<1>2. \/ /\ reconnects' = reconnects + 1 /\ reconnects' \in 0 .. MaxReconnects
         /\ at' = [at EXCEPT ![p] = "sleep"]
      \/ reconnects' = reconnects /\ at' = [at EXCEPT ![p] = "done"]
  BY DEF ReconnectGoesOn, Budget
<1>3. at[Caller] # "none" /\ p \in Reconnecting
  BY <1>1, Begun DEF Reconnecting
<1>4. at' \in [WsTasks -> Places] /\ at'[Caller] # "none" /\ reconnects' \in 0 .. MaxReconnects
  <2>1. at'[Caller] \in {at[Caller], "sleep", "done"}
    BY <1>2, TaskNames
  <2>2. at' \in [WsTasks -> Places]
    BY <1>2 DEF Places
  <2>3. reconnects' \in 0 .. MaxReconnects
    BY <1>2
  <2> QED BY <1>3, <2>1, <2>2, <2>3
<1>5. /\ sockets' \in [Connection -> {"none", "open", "lost", "closed"}]
      /\ \A n \in Connection :
           /\ sockets'[n] = "none" <=> sockets[n] = "none"
           /\ sockets'[n] = "open" => sockets[n] = "open" /\ n # shuts[p]
  BY <1>1 DEF Shut
<1>6. Opened' = Opened
  BY <1>5 DEF Opened
<1>7. \A n \in Connection : Reading(n)' => Reading(n)
  BY <1>2, TaskNames DEF Reading
<1>8. WsTypeOK'
  BY <1>1, <1>4, <1>5, <1>6, HistorySays DEF WsInv, WsTypeOK, WsStates, Loops, Places
<1>9. Numbered'
  <2>1. CASE reconnects' = reconnects + 1 /\ at' = [at EXCEPT ![p] = "sleep"]
    <3>1. Trying' \subseteq Trying \cup {p}
      BY <2>1 DEF Trying
    <3>2. Cardinality(Trying') <= Cardinality(Trying) + 1
      BY <3>1, TryingCounts
    <3> QED BY <1>1, <1>3, <1>4, <1>6, <2>1, <3>2, TryingCounts DEF WsInv, Numbered
  <2>2. CASE reconnects' = reconnects /\ at' = [at EXCEPT ![p] = "done"]
    <3>1. Trying' \subseteq Trying
      BY <2>2 DEF Trying
    <3> QED BY <1>1, <1>3, <1>4, <1>6, <2>2, <3>1, TryingCounts DEF WsInv, Numbered
  <2> QED BY <1>2, <2>1, <2>2
<1>10. Apart'
  BY <1>1, <1>6, <1>7 DEF WsInv, Apart
<1>11. Single'
  <2> SUFFICES ASSUME ~overlap' PROVE Single'
    BY DEF Single
  <2>1. ~overlap /\ \A q, r \in Reconnecting' : q = r
    BY <1>1, HistorySays
  <2>0. shuts[p] = websocket
    BY <1>1, <2>1 DEF WsInv, Shutting
  <2>2. \A n \in Connection : sockets'[n] # "open"
    BY <1>5, <2>0, <2>1 DEF WsInv, Single
  <2>3. \A n \in Connection : Reading(n) =>
          n = websocket /\ on[Receiver(n)] = websocket /\ \A q \in WsTasks : at'[q] # "dial"
    BY <1>2, <2>1 DEF WsInv, Single
  <2>4. ~Spinning'
    BY <1>2 DEF Spinning
  <2> QED BY <1>1, <1>7, <2>1, <2>2, <2>3, <2>4 DEF Single
<1>12. Quiet'
  BY <1>1, <1>3, WsBusy
<1>13. Shutting'
  <2>1. \A q \in WsTasks : at'[q] = "closing" => at[q] = "closing" /\ shuts'[q] = shuts[q]
    BY <1>1, <1>2
  <2>2. \A n \in Connection : at'[Heartbeat(n)] = "ping" => at[Heartbeat(n)] = "ping"
    BY <1>2, TaskNames
  <2> QED BY <1>1, <2>1, <2>2, WsShutting
<1> QED BY <1>8, <1>9, <1>10, <1>11, <1>12, <1>13 DEF WsInv

\* A message arrives, and the loop reads on from the newest connection.
LEMMA WsReceives ==
  ASSUME WsInv, ~Spinning, NEW n \in Connection, Receive(n)
  PROVE  WsInv'
<1> DEFINE p == Receiver(n)
<1> USE WsFacts
<1>1. /\ at[p] = "recv" /\ sockets[on[p]] = "open" /\ p \in Loops /\ p \in WsTasks /\ p # Caller
      /\ on' = [on EXCEPT ![p] = IF Connected THEN websocket ELSE 0]
      /\ UNCHANGED <<wsState, websocket, sockets, shuts, reconnects, closing, awaited>> /\ WsHistory
  BY TaskNames DEF Receive
<1>2. PICK w \in {"done", "spin", "recv"} :
        /\ at' = [at EXCEPT ![p] = w]
        /\ w = "spin" => Connected /\ Reads(n, websocket)
        /\ w = "recv" => Connected /\ ~Reads(n, websocket)
  BY DEF Receive
<1>3. at[Caller] # "none"
  BY <1>1, Begun
<1>4. /\ at' \in [WsTasks -> Places] /\ on' \in [Loops -> {0} \cup Connection]
      /\ at'[Caller] # "none"
  BY <1>1, <1>2, <1>3 DEF Places
<1>5. Trying' \subseteq Trying /\ Opened' = Opened
  BY <1>1, <1>2 DEF Trying, Opened
<1>6. /\ Reading(n)
      /\ \A m \in Connection : Reading(m)' => Reading(m)
      /\ \A m \in Connection : m # n => on'[Receiver(m)] = on[Receiver(m)] /\ at'[Receiver(m)] = at[Receiver(m)]
  BY <1>1, <1>2, TaskNames DEF Reading
<1>7. Reading(n)' => on'[p] = websocket /\ websocket \in Opened /\ ~Reads(n, websocket)
  BY <1>1, <1>2 DEF Reading, Connected
<1>8. WsTypeOK'
  BY <1>1, <1>4, <1>5, HistorySays DEF WsInv, WsTypeOK, WsStates, Loops, Places
<1>9. Numbered'
  BY <1>1, <1>3, <1>4, <1>5, TryingCounts DEF WsInv, Numbered
<1>10. Apart'
  <2>1. \A m \in Connection : Reading(m)' => on'[Receiver(m)] \in Opened'
    BY <1>5, <1>6, <1>7 DEF WsInv, Apart
  <2>2. \A m \in Connection : Reading(n)' /\ Reading(m)' /\ m # n => on'[Receiver(m)] # websocket
    BY <1>6, <1>7 DEF Reads, Reading
  <2>3. \A k, m \in Connection :
          Reading(k)' /\ Reading(m)' /\ on'[Receiver(k)] = on'[Receiver(m)] => k = m
    <3> TAKE k, m \in Connection
    <3>1. CASE k # n /\ m # n
      BY <1>6, <3>1 DEF WsInv, Apart
    <3>2. CASE k = n \/ m = n
      BY <1>7, <2>2, <3>2
    <3> QED BY <3>1, <3>2
  <2> QED BY <2>1, <2>3 DEF Apart
<1>11. Single'
  <2> SUFFICES ASSUME ~overlap' PROVE Single'
    BY DEF Single
  <2>1. ~overlap /\ \A q, r \in Reconnecting' : q = r
    BY <1>1, HistorySays
  <2>2. /\ n = websocket /\ on[p] = websocket
        /\ \A m \in Connection : Reading(m) => m = n /\ \A q \in WsTasks : at[q] # "dial"
        /\ \A m \in Connection : sockets[m] = "open" => m = websocket /\ Trying = {}
    BY <1>6, <2>1 DEF WsInv, Single
  <2>3. ~Reads(n, websocket)
    BY <1>6, <2>2 DEF Reads, Reading
  <2>4. ~Spinning'
    BY <1>2, <2>3 DEF Spinning
  <2>5. \A m \in Connection : Reading(m)' =>
          m = websocket /\ on'[Receiver(m)] = websocket /\ \A q \in WsTasks : at'[q] # "dial"
    BY <1>2, <1>6, <1>7, <2>2
  <2>6. \A m \in Connection : sockets'[m] = "open" => m = websocket' /\ Trying' = {}
    BY <1>1, <1>5, <2>2
  <2> QED BY <1>1, <2>1, <2>4, <2>5, <2>6 DEF Single
<1>12. Quiet'
  <2>1. \A m \in Connection : at'[Heartbeat(m)] = "ping" => at[Heartbeat(m)] = "ping" \/ Connected
    BY <1>2, TaskNames
  <2>2. ~(closing = "returned" /\ ~overlap /\ ~astray)
    BY <1>6 DEF WsInv, Quiet
  <2> QED BY <1>1, <1>6, <2>1, <2>2, WsQuiet
<1>13. Shutting'
  BY <1>1, <1>2, TaskNames, WsShutting
<1> QED BY <1>8, <1>9, <1>10, <1>11, <1>12, <1>13 DEF WsInv

LEMMA WsStarts ==
  ASSUME WsInit
  PROVE  WsInv
<1>1. Opened = {} /\ Trying = {} /\ Reconnecting = {}
  BY DEF WsInit, Opened, Trying, Reconnecting
<1>2. Cardinality(Trying) = 0
  BY <1>1, FS_EmptySet
<1>3. WsTypeOK
  <2>1. websocket \in {0} \cup Opened /\ awaited \subseteq Loops
    BY DEF WsInit
  <2>2. sockets \in [Connection -> {"none", "open", "lost", "closed"}]
    BY DEF WsInit
  <2>3. at \in [WsTasks -> Places]
    BY DEF WsInit, Places
  <2>4. on \in [Loops -> {0} \cup Connection]
    BY DEF WsInit, Loops
  <2>5. wsState \in WsStates /\ closing \in Closings /\ overlap \in BOOLEAN /\ astray \in BOOLEAN
    BY DEF WsInit, WsStates, Closings
  <2>6. reconnects \in 0 .. MaxReconnects
    BY WsAssumption DEF WsInit
  <2>7. shuts \in [WsTasks -> {0} \cup Connection]
    BY DEF WsInit
  <2> QED BY <2>1, <2>2, <2>3, <2>4, <2>5, <2>6, <2>7 DEF WsTypeOK, WsStates, Closings, Places, Loops
<1>4. Numbered
  BY <1>1, <1>2, TaskNames DEF WsInit, Numbered
<1>5. \A n \in Connection : ~Reading(n) /\ sockets[n] # "open"
  BY TaskNames DEF WsInit, Reading
<1>6. ~Spinning
  BY DEF WsInit, Spinning
<1>7. Shutting
  BY TaskNames DEF WsInit, Shutting
<1> QED BY <1>1, <1>3, <1>4, <1>5, <1>6, <1>7 DEF WsInv, Apart, Single, Quiet, WsInit

LEMMA WsInductive ==
  ASSUME WsInv, [WsNext]_wsVars
  PROVE  WsInv'
<1>1. CASE UNCHANGED wsVars
  BY <1>1 DEF wsVars, WsInv, WsTypeOK, Numbered, Apart, Single, Quiet, Shutting, Opened, Trying,
              Reading, Reconnecting, Spinning
<1>2. CASE WsNext
  BY <1>2, WsConnect, WsDials, WsTries, WsGoesOn, WsReceives, WsLoops, WsLose, WsClosing
  DEF WsNext, WsStep, WsLoop
<1> QED BY <1>1, <1>2

\* A set whose members are all the same has at most one.
LEMMA OneAtMost ==
  ASSUME NEW S, NEW x, \A y \in S : y = x
  PROVE  Cardinality(S) <= 1
<1>1. S = {} \/ S = {x}
  OBVIOUS
<1>2. CASE S = {}
  BY <1>2, FS_EmptySet
<1>3. CASE S = {x}
  BY <1>3, FS_Singleton
<1> QED BY <1>1, <1>2, <1>3

LEMMA WsInvSafe ==
  ASSUME WsInv
  PROVE  WsTypeOK /\ OneConnection /\ StaysClosed
<1>1. OneConnection
  <2> SUFFICES ASSUME ~overlap PROVE OneConnection
    BY DEF OneConnection
  <2>1. \A n \in {m \in Connection : sockets[m] = "open"} : n = websocket
    BY DEF WsInv, Single
  <2>2. \A n \in {m \in Connection : at[Receiver(m)] = "recv" /\ sockets[on[Receiver(m)]] = "open"} : n = websocket
    BY DEF WsInv, Single, Reading
  <2> QED BY <2>1, <2>2, OneAtMost DEF OneConnection, WsInv, Single
<1>2. StaysClosed
  BY DEF StaysClosed, WsInv, Quiet
<1> QED BY <1>1, <1>2 DEF WsInv
(***************************************************************************)
(* The manager.  A client is in one place: in the table, or with the call  *)
(* that connects or closes it.                                             *)
(***************************************************************************)
Carries(t) == jobs[t].pc \in {"connecting", "closing"}

Placed ==
  /\ Len(table) <= made
  /\ \A i \in DOMAIN table : table[i].client \in 1 .. made
  /\ \A i, j \in DOMAIN table : table[i].client = table[j].client => i = j
  /\ \A t \in ManagerTasks : Carries(t) =>
       /\ jobs[t].client \in 1 .. made /\ jobs[t].id \in Ids
       /\ \A i \in DOMAIN table : table[i].client # jobs[t].client
       /\ \A u \in ManagerTasks : Carries(u) /\ jobs[u].client = jobs[t].client => u = t

Underway ==
  \A t \in ManagerTasks :
    /\ jobs[t].pc = "closing all" => jobs[t].left # <<>>
    /\ jobs[t].pc = "sending" => jobs[t].id \in Nat /\ jobs[t].id < jobs[t].size /\ jobs[t].size <= MaxConnects

\* A default that is not registered is about to be replaced.
Replaced ==
  \/ default \in Registered
  \/ default = None /\ table = <<>>
  \/ \E t \in ManagerTasks :
       \/ jobs[t].pc = "closing" /\ jobs[t].id = default
       \/ jobs[t].pc = "closing all"

\* As long as calls did not overlap there is at most one, and the clients of
\* the table are open unless it is closing them all.
Alone ==
  ~overlaps =>
    /\ \A t, u \in Busy : t = u
    /\ (\A t \in ManagerTasks : jobs[t].pc # "closing all") =>
         \A i \in DOMAIN table : table[i].client \in open

ManagerInv == ManagerTypeOK /\ Placed /\ Underway /\ Replaced /\ Alone

Entries == [id : Ids, client : Clients]

LEMMA ManagerFacts ==
  ASSUME ManagerInv
  PROVE  /\ MaxConnects \in Nat /\ table \in Seq(Entries) /\ Len(table) \in Nat
         /\ DOMAIN table = 1 .. Len(table)
         /\ \A i \in DOMAIN table : table[i] \in Entries
         /\ \A i, j \in DOMAIN table : table[i].id = table[j].id => i = j
         /\ default \in Ids \cup {None} /\ open \subseteq Clients
         /\ made \in Nat /\ made <= MaxConnects /\ made \in 0 .. MaxConnects
         /\ jobs \in [ManagerTasks -> Jobs] /\ overlaps \in BOOLEAN
<1>1. table \in Seq(Entries) /\ IsInjective([i \in DOMAIN table |-> table[i].id])
  BY DEF ManagerInv, ManagerTypeOK, Entries
<1>2. /\ Len(table) \in Nat /\ DOMAIN table = 1 .. Len(table)
      /\ \A i \in DOMAIN table : table[i] \in Entries
  BY <1>1, LenProperties, ElementOfSeq
<1>3. \A i, j \in DOMAIN table : table[i].id = table[j].id => i = j
  BY <1>1 DEF IsInjective
<1> QED BY <1>1, <1>2, <1>3, ManagerAssumption DEF ManagerInv, ManagerTypeOK

\* Distinct clients are no more than those that were made.
LEMMA NoMoreThanMade ==
  ASSUME NEW s \in Seq(Entries), NEW m \in Nat,
         \A i \in DOMAIN s : s[i].client \in 1 .. m,
         \A i, j \in DOMAIN s : s[i].client = s[j].client => i = j
  PROVE  Len(s) <= m
<1> DEFINE f == [i \in 1 .. Len(s) |-> s[i].client]
<1>1. Len(s) \in Nat /\ DOMAIN s = 1 .. Len(s)
  BY LenProperties
<1>2. f \in Injection(1 .. Len(s), 1 .. m)
  BY <1>1 DEF Injection, IsInjective
<1>3. /\ IsFiniteSet(1 .. m) /\ Cardinality(1 .. m) = IF 1 > m THEN 0 ELSE m - 1 + 1
      /\ Cardinality(1 .. Len(s)) = IF 1 > Len(s) THEN 0 ELSE Len(s) - 1 + 1
  BY <1>1, FS_Interval
<1>4. Cardinality(1 .. Len(s)) <= Cardinality(1 .. m)
  BY <1>2, <1>3, FS_Injection
<1> QED BY <1>1, <1>3, <1>4

\* A dict with an entry set: an id that is there keeps its place.
LEMMA WithSays ==
  ASSUME ManagerInv, NEW id \in Ids, NEW c \in Clients
  PROVE  LET W == With(id, c) IN
         /\ W \in Seq(Entries)
         /\ \A j, k \in DOMAIN W : W[j].id = W[k].id => j = k
         /\ \A j \in DOMAIN W : \/ W[j] = [id |-> id, client |-> c]
                                \/ j \in DOMAIN table /\ W[j] = table[j]
         /\ \A x : x \in Registered \cup {id} <=> \E j \in DOMAIN W : W[j].id = x
<1> DEFINE e == [id |-> id, client |-> c]
           W == With(id, c)
           n == Len(table)
<1>1. /\ n \in Nat /\ DOMAIN table = 1 .. n
      /\ \A i \in 1 .. n : table[i] \in Entries
      /\ \A i, j \in 1 .. n : table[i].id = table[j].id => i = j
  BY ManagerFacts
<1>2. e \in Entries /\ e.id = id
  BY DEF Entries
<1> HIDE DEF e
<1>3. CASE id \in Registered
  <2>1. W = [i \in 1 .. n |-> IF table[i].id = id THEN e ELSE table[i]]
    BY <1>1, <1>3 DEF With, e
  <2> HIDE DEF W, n
  <2>2. DOMAIN W = 1 .. n /\ \A i \in 1 .. n : W[i] = IF table[i].id = id THEN e ELSE table[i]
    BY <2>1
  <2>3. \A i \in 1 .. n : W[i] \in Entries /\ W[i].id = table[i].id
    BY <1>1, <1>2, <2>2
  <2>4. W \in Seq(Entries)
    BY <1>1, <2>1, <2>3, IsASeq
  <2>5. {W[j].id : j \in DOMAIN W} = Registered
    BY <1>1, <2>2, <2>3 DEF Registered
  <2> QED BY <1>1, <1>3, <2>2, <2>3, <2>4, <2>5 DEF e, W
<1>4. CASE id \notin Registered
  <2>1. W = Append(table, e)
    BY <1>4 DEF With, e
  <2>2. /\ W \in Seq(Entries) /\ DOMAIN W = 1 .. n + 1
        /\ \A i \in 1 .. n : W[i] = table[i]
        /\ W[n + 1] = e
    BY <1>1, <1>2, <2>1, ManagerFacts, AppendProperties, LenProperties
  <2> HIDE DEF W, n
  <2>3. \A i \in 1 .. n + 1 : i \in 1 .. n \/ i = n + 1
    BY <1>1
  <2>4. \A i \in 1 .. n : table[i].id # id
    BY <1>1, <1>4 DEF Registered
  <2>5. \A j, k \in DOMAIN W : W[j].id = W[k].id => j = k
    BY <1>1, <1>2, <2>2, <2>3, <2>4
  <2>6. {W[j].id : j \in DOMAIN W} = Registered \cup {id}
    BY <1>1, <1>2, <2>2, <2>3 DEF Registered
  <2>7. \A j \in DOMAIN W : W[j] = e \/ (j \in DOMAIN table /\ W[j] = table[j])
    BY <1>1, <2>2, <2>3
  <2> QED BY <2>2, <2>5, <2>6, <2>7 DEF e, W
<1> QED BY <1>3, <1>4

\* A dict without one of its entries: the others keep their order.
LEMMA WithoutSays ==
  ASSUME ManagerInv, NEW i \in DOMAIN table
  PROVE  LET W == RemoveAt(table, i) IN
         /\ W \in Seq(Entries)
         /\ \A j, k \in DOMAIN W : W[j].id = W[k].id => j = k
         /\ \A j, k \in DOMAIN W : W[j].client = W[k].client /\
              (\A l, m \in DOMAIN table : table[l].client = table[m].client => l = m) => j = k
         /\ \A j \in DOMAIN W : \E k \in DOMAIN table : k # i /\ W[j] = table[k]
         /\ \A k \in DOMAIN table : k # i => \E j \in DOMAIN W : W[j] = table[k]
<1> DEFINE n == Len(table)
           u == SubSeq(table, 1, i - 1)
           v == SubSeq(table, i + 1, n)
           W == RemoveAt(table, i)
<1>1. n \in Nat /\ DOMAIN table = 1 .. n /\ i \in 1 .. n /\ \A j \in 1 .. n : table[j] \in Entries
  BY ManagerFacts
<1>0. table \in Seq(Entries) /\ \A k, l \in 1 .. n : table[k].id = table[l].id => k = l
  BY ManagerFacts
<1>2. u \in Seq(Entries) /\ Len(u) = i - 1 /\ \A j \in 1 .. i - 1 : u[j] = table[j]
  BY <1>0, <1>1
<1>3. v \in Seq(Entries) /\ Len(v) = n - i /\ \A j \in 1 .. n - i : v[j] = table[i + j]
  <2> HIDE DEF n
  <2>1. i + 1 \in Int /\ n \in Int /\ \A j \in i + 1 .. n : table[j] \in Entries
    BY <1>1
  <2>2. /\ v \in Seq(Entries) /\ Len(v) = IF i + 1 <= n THEN n - (i + 1) + 1 ELSE 0
        /\ \A j \in 1 .. n - (i + 1) + 1 : v[j] = table[(i + 1) + j - 1]
    BY <2>1, SubSeqProperties
  <2> HIDE DEF v
  <2>3. Len(v) = n - i
    BY <1>1, <2>2
  <2>4. ASSUME NEW j \in 1 .. n - i PROVE v[j] = table[i + j]
    <3>1. (i + 1) + j - 1 = i + j /\ j \in 1 .. n - (i + 1) + 1
      BY <1>1
    <3> QED BY <2>2, <3>1
  <2> QED BY <2>2, <2>3, <2>4
<1>4. W = u \o v
  BY DEF RemoveAt
<1> HIDE DEF n, u, v, W
<1>5. /\ W \in Seq(Entries) /\ DOMAIN W = 1 .. n - 1
      /\ \A j \in 1 .. n - 1 : W[j] = IF j < i THEN table[j] ELSE table[j + 1]
  <2>0. Len(u) + Len(v) = n - 1
    BY <1>1, <1>2, <1>3
  <2>1. /\ u \o v \in Seq(Entries) /\ Len(u \o v) = n - 1
        /\ \A j \in 1 .. n - 1 : (u \o v)[j] = IF j <= i - 1 THEN u[j] ELSE v[j - (i - 1)]
    <3>1. /\ u \o v \in Seq(Entries) /\ Len(u \o v) = Len(u) + Len(v)
          /\ \A j \in 1 .. Len(u) + Len(v) : (u \o v)[j] = IF j <= Len(u) THEN u[j] ELSE v[j - Len(u)]
      BY <1>2, <1>3, ConcatProperties, Zenon
    <3> QED BY <1>2, <2>0, <3>1
  <2>2. ASSUME NEW j \in 1 .. n - 1, ~(j < i) PROVE v[j - (i - 1)] = table[j + 1]
    <3>1. j - (i - 1) \in 1 .. n - i /\ i + (j - (i - 1)) = j + 1
      BY <1>1, <2>2
    <3> QED BY <1>3, <3>1
  <2>3. W \in Seq(Entries) /\ DOMAIN W = 1 .. n - 1
    BY <1>4, <2>1, LenProperties
  <2>4. ASSUME NEW j \in 1 .. n - 1 PROVE W[j] = IF j < i THEN table[j] ELSE table[j + 1]
    <3>1. CASE j < i
      <4>1. j <= i - 1 /\ j \in 1 .. i - 1
        BY <1>1, <3>1
      <4> QED BY <1>2, <1>4, <2>1, <3>1, <4>1
    <3>2. CASE ~(j < i)
      <4>1. ~(j <= i - 1)
        BY <1>1, <3>2
      <4> QED BY <1>4, <2>1, <2>2, <3>2, <4>1
    <3> QED BY <3>1, <3>2
  <2> QED BY <2>3, <2>4
<1> DEFINE At(j) == IF j < i THEN j ELSE j + 1
<1>6. /\ \A j \in 1 .. n - 1 : At(j) \in (1 .. n) \ {i} /\ W[j] = table[At(j)]
      /\ \A j, k \in 1 .. n - 1 : At(j) = At(k) => j = k
  BY <1>1, <1>5
<1>7. \A k \in 1 .. n : k # i => \E j \in 1 .. n - 1 : At(j) = k
  <2>1. SUFFICES ASSUME NEW k \in 1 .. n, k # i PROVE \E j \in 1 .. n - 1 : At(j) = k
    OBVIOUS
  <2>2. CASE k < i
    BY <1>1, <2>2
  <2>3. CASE k > i
    <3>1. k - 1 \in 1 .. n - 1 /\ At(k - 1) = k
      BY <1>1, <2>3
    <3> QED BY <3>1
  <2> QED BY <1>1, <2>1, <2>2, <2>3
<1> HIDE DEF At
<1>8. \A j, k \in DOMAIN W : W[j].id = W[k].id => j = k
  BY <1>0, <1>5, <1>6
<1>9. \A j, k \in DOMAIN W : W[j].client = W[k].client /\
        (\A l, m \in DOMAIN table : table[l].client = table[m].client => l = m) => j = k
  BY <1>1, <1>5, <1>6
<1>10. \A j \in DOMAIN W : \E k \in DOMAIN table : k # i /\ W[j] = table[k]
  BY <1>1, <1>5, <1>6
<1>11. \A k \in DOMAIN table : k # i => \E j \in DOMAIN W : W[j] = table[k]
  BY <1>1, <1>5, <1>6, <1>7
<1> QED BY <1>5, <1>8, <1>9, <1>10, <1>11 DEF W

-----------------------------------------------------------------------------
\* A call goes on from one place to another, and the others are where they were.
LEMMA JobSays ==
  ASSUME ManagerInv, NEW t \in ManagerTasks, NEW job \in Jobs, Set(t, job)
  PROVE  /\ jobs' \in [ManagerTasks -> Jobs] /\ jobs'[t] = job
         /\ \A u \in ManagerTasks : u # t => jobs'[u] = jobs[u]
BY ManagerFacts DEF Set

JobKinds(id, c, s, n) ==
  /\ NoJob \in Jobs /\ NoJob.pc = "idle"
  /\ [NoJob EXCEPT !.pc = "connecting", !.id = id, !.client = c] \in Jobs
  /\ [NoJob EXCEPT !.pc = "connecting", !.id = id, !.client = c].pc = "connecting"
  /\ [NoJob EXCEPT !.pc = "connecting", !.id = id, !.client = c].id = id
  /\ [NoJob EXCEPT !.pc = "connecting", !.id = id, !.client = c].client = c
  /\ [NoJob EXCEPT !.pc = "closing", !.id = id, !.client = c] \in Jobs
  /\ [NoJob EXCEPT !.pc = "closing", !.id = id, !.client = c].pc = "closing"
  /\ [NoJob EXCEPT !.pc = "closing", !.id = id, !.client = c].id = id
  /\ [NoJob EXCEPT !.pc = "closing", !.id = id, !.client = c].client = c
  /\ [NoJob EXCEPT !.pc = "closing all", !.left = s] \in Jobs
  /\ [NoJob EXCEPT !.pc = "closing all", !.left = s].pc = "closing all"
  /\ [NoJob EXCEPT !.pc = "closing all", !.left = s].left = s
  /\ [NoJob EXCEPT !.pc = "sending", !.size = n, !.id = 0] \in Jobs
  /\ [NoJob EXCEPT !.pc = "sending", !.size = n, !.id = 0].pc = "sending"
  /\ [NoJob EXCEPT !.pc = "sending", !.size = n, !.id = 0].size = n
  /\ [NoJob EXCEPT !.pc = "sending", !.size = n, !.id = 0].id = 0

LEMMA JobsAre ==
  ASSUME NEW id \in Ids, NEW c \in Clients, NEW s \in Seq(Clients), NEW n \in Nat
  PROVE  JobKinds(id, c, s, n)
<1>1. <<>> \in Seq(Clients) /\ 0 \in Ids /\ MaxConnects \in Nat
  BY EmptySeq, ManagerAssumption DEF Ids
<1>2. NoJob \in Jobs /\ [NoJob EXCEPT !.pc = "connecting", !.id = id, !.client = c] \in Jobs
  BY <1>1 DEF NoJob, Jobs
<1>3. [NoJob EXCEPT !.pc = "closing", !.id = id, !.client = c] \in Jobs
  BY <1>1 DEF NoJob, Jobs
<1>4. [NoJob EXCEPT !.pc = "closing all", !.left = s] \in Jobs
  BY <1>1 DEF NoJob, Jobs
<1>5. [NoJob EXCEPT !.pc = "sending", !.size = n, !.id = 0] \in Jobs
  BY <1>1 DEF NoJob, Jobs
<1> QED BY <1>2, <1>3, <1>4, <1>5 DEF JobKinds, NoJob

LEMMA EmptyTable ==
  ASSUME NEW s, s = <<>>
  PROVE  s \in Seq(Entries) /\ DOMAIN s = {}
<1>1. <<>> \in Seq(Entries) /\ Len(<<>>) = 0
  BY EmptySeq
<1>2. DOMAIN s = 1 .. 0
  BY <1>1, LenProperties
<1> QED BY <1>1, <1>2

LEMMA Idle == NoJob \in Jobs /\ NoJob.pc = "idle"
<1>1. <<>> \in Seq(Clients)
  BY EmptySeq
<1> QED BY <1>1 DEF NoJob, Jobs

LEMMA ManagerTypes ==
  ASSUME ManagerInv, NEW t \in ManagerTasks, NEW job \in Jobs, Set(t, job),
         table' \in Seq(Entries), \A i, j \in DOMAIN table' : table'[i].id = table'[j].id => i = j,
         default' \in Ids \cup {None}, open' \subseteq Clients,
         made' \in 0 .. MaxConnects, overlaps' \in BOOLEAN
  PROVE  ManagerTypeOK'
<1>1. IsInjective([i \in DOMAIN table' |-> table'[i].id])
  BY DEF IsInjective
<1> QED BY <1>1, JobSays DEF ManagerTypeOK, Entries

\* A step that adds no client to the table, and after which the call has none.
LEMMA NoClientMoves ==
  ASSUME ManagerInv, NEW t \in ManagerTasks, NEW job \in Jobs, Set(t, job),
         table' \in Seq(Entries), made' = made,
         \A i, j \in DOMAIN table' : table'[i].client = table'[j].client => i = j,
         \A j \in DOMAIN table' : \E k \in DOMAIN table : table'[j] = table[k],
         job.pc \notin {"connecting", "closing"}
  PROVE  Placed'
<1>1. \A i \in DOMAIN table' : table'[i].client \in 1 .. made
  BY DEF ManagerInv, Placed
<1>2. Len(table') <= made
  BY <1>1, NoMoreThanMade, ManagerFacts
<1>3. \A u \in ManagerTasks : Carries(u)' => Carries(u) /\ jobs'[u] = jobs[u]
  BY JobSays DEF Carries
<1>4. ASSUME NEW u \in ManagerTasks, Carries(u)'
      PROVE  /\ jobs'[u].client \in 1 .. made /\ jobs'[u].id \in Ids
             /\ \A i \in DOMAIN table' : table'[i].client # jobs'[u].client
             /\ \A w \in ManagerTasks : Carries(w)' /\ jobs'[w].client = jobs'[u].client => w = u
  BY <1>3, <1>4 DEF ManagerInv, Placed
<1> QED BY <1>1, <1>2, <1>4 DEF Placed

\* While no two calls are away, a step is the step of the only one.
LEMMA OnlyCall ==
  ASSUME ManagerInv, NEW t \in ManagerTasks, NEW job \in Jobs, Set(t, job),
         Goes(t) \/ (overlaps' = overlaps /\ jobs[t].pc # "idle")
  PROVE  /\ overlaps' \in BOOLEAN
         /\ ~overlaps' => /\ ~overlaps
                          /\ \A u \in ManagerTasks \ {t} : jobs[u].pc = "idle" /\ jobs'[u].pc = "idle"
                          /\ \A u, w \in Busy' : u = w
<1>1. overlaps' \in BOOLEAN /\ (~overlaps' => ~overlaps)
  <2>1. overlaps \in BOOLEAN
    BY ManagerFacts
  <2>2. CASE Goes(t)
    BY <2>1, <2>2 DEF Goes
  <2> QED BY <2>1, <2>2
<1>2. ASSUME ~overlaps' PROVE \A u \in ManagerTasks \ {t} : jobs[u].pc = "idle"
  BY <1>1, <1>2 DEF Goes, Busy, ManagerInv, Alone
<1>3. ASSUME ~overlaps' PROVE \A u \in ManagerTasks \ {t} : jobs'[u].pc = "idle"
  BY <1>2, <1>3, JobSays
<1>4. ASSUME ~overlaps' PROVE \A u, w \in Busy' : u = w
  BY <1>3, <1>4 DEF Busy
<1> QED BY <1>1, <1>2, <1>3, <1>4

LEMMA ManagerConnects ==
  ASSUME ManagerInv, NEW t \in ManagerTasks, BeginConnect(t)
  PROVE  ManagerInv'
<1> USE ManagerFacts
<1>0. PICK id \in {NewId} \cup GivenIds :
        Set(t, [NoJob EXCEPT !.pc = "connecting", !.id = id, !.client = made + 1])
  BY DEF BeginConnect
<1> DEFINE job == [NoJob EXCEPT !.pc = "connecting", !.id = id, !.client = made + 1]
<1>1. /\ jobs[t].pc = "idle" /\ made < MaxConnects /\ made' = made + 1
      /\ Set(t, job) /\ Goes(t) /\ UNCHANGED <<table, default, open>>
  BY <1>0 DEF BeginConnect
<1>2. id \in Ids /\ made + 1 \in Clients /\ made + 1 \in 0 .. MaxConnects
  <2>1. Len(table) <= made
    BY DEF ManagerInv, Placed
  <2>2. GivenIds \subseteq Ids
    BY ManagerAssumption DEF Ids
  <2> QED BY <1>0, <1>1, <2>1, <2>2 DEF Ids, Clients, NewId
<1>3. job \in Jobs /\ job.pc = "connecting" /\ job.id = id /\ job.client = made + 1
  <2>1. JobKinds(id, made + 1, <<>>, 0)
    BY <1>2, EmptySeq, JobsAre
  <2> QED BY <2>1 DEF JobKinds
<1> HIDE DEF job
<1>4. jobs'[t] = job /\ \A u \in ManagerTasks : u # t => jobs'[u] = jobs[u]
  BY <1>1, <1>3, JobSays
<1>5. ManagerTypeOK'
  BY <1>1, <1>2, <1>3, OnlyCall, ManagerTypes
<1>6. Placed'
  <2>1. \A k \in 1 .. made : k \in 1 .. made' /\ k # made + 1
    BY <1>1
  <2>2. made + 1 \in 1 .. made' /\ Len(table) <= made'
    BY <1>1 DEF ManagerInv, Placed
  <2>3. \A u \in ManagerTasks : Carries(u)' => (u = t /\ jobs'[u] = job) \/ (u # t /\ Carries(u) /\ jobs'[u] = jobs[u])
    BY <1>4 DEF Carries
  <2>4. ASSUME NEW u \in ManagerTasks, Carries(u)'
        PROVE  /\ jobs'[u].client \in 1 .. made' /\ jobs'[u].id \in Ids
               /\ \A i \in DOMAIN table' : table'[i].client # jobs'[u].client
               /\ \A w \in ManagerTasks : Carries(w)' /\ jobs'[w].client = jobs'[u].client => w = u
    <3>1. jobs'[u].client \in 1 .. made' /\ jobs'[u].id \in Ids
      BY <1>2, <1>3, <2>1, <2>2, <2>3, <2>4 DEF ManagerInv, Placed
    <3>2. \A i \in DOMAIN table' : table'[i].client # jobs'[u].client
      BY <1>1, <1>3, <2>1, <2>3, <2>4 DEF ManagerInv, Placed
    <3>3. ASSUME NEW w \in ManagerTasks, Carries(w)', jobs'[w].client = jobs'[u].client PROVE w = u
      BY <1>3, <2>1, <2>3, <2>4, <3>3 DEF ManagerInv, Placed
    <3> QED BY <3>1, <3>2, <3>3
  <2> QED BY <1>1, <2>1, <2>2, <2>4 DEF ManagerInv, Placed
<1>7. Underway'
  BY <1>3, <1>4 DEF ManagerInv, Underway
<1>8. Replaced'
  BY <1>1, <1>4 DEF ManagerInv, Replaced, Registered
<1>9. Alone'
  BY <1>1, <1>3, <1>4, OnlyCall DEF ManagerInv, Alone
<1> QED BY <1>5, <1>6, <1>7, <1>8, <1>9 DEF ManagerInv

LEMMA ManagerRegisters ==
  ASSUME ManagerInv, NEW t \in ManagerTasks, Registers(t)
  PROVE  ManagerInv'
<1> DEFINE id == jobs[t].id
           c == jobs[t].client
<1> USE ManagerFacts
<1>1. /\ jobs[t].pc = "connecting" /\ open' = open \cup {c} /\ table' = With(id, c)
      /\ default' = Default(id) /\ Set(t, NoJob) /\ UNCHANGED <<made, overlaps>>
  BY DEF Registers
<1>2. /\ Carries(t) /\ id \in Ids /\ c \in 1 .. made /\ c \in Clients
      /\ \A i \in DOMAIN table : table[i].client # c
  <2>1. Carries(t)
    BY <1>1 DEF Carries
  <2> QED BY <2>1 DEF ManagerInv, Placed, Clients
<1>3. /\ table' \in Seq(Entries)
      /\ \A j, k \in DOMAIN table' : table'[j].id = table'[k].id => j = k
      /\ \A j \in DOMAIN table' : \/ table'[j] = [id |-> id, client |-> c]
                                  \/ j \in DOMAIN table /\ table'[j] = table[j]
      /\ Registered' = Registered \cup {id}
  <2> HIDE DEF id, c
  <2>1. /\ With(id, c) \in Seq(Entries)
        /\ \A j, k \in DOMAIN With(id, c) : With(id, c)[j].id = With(id, c)[k].id => j = k
        /\ \A j \in DOMAIN With(id, c) :
             \/ With(id, c)[j] = [id |-> id, client |-> c]
             \/ j \in DOMAIN table /\ With(id, c)[j] = table[j]
        /\ \A x : x \in Registered \cup {id} <=> \E j \in DOMAIN With(id, c) : With(id, c)[j].id = x
    BY <1>2, WithSays
  <2>2. \A x : x \in Registered' <=> \E j \in DOMAIN table' : table'[j].id = x
    BY DEF Registered
  <2>3. table' = With(id, c)
    BY <1>1
  <2>4. \A x : x \in Registered' <=> x \in Registered \cup {id}
    BY <2>1, <2>2, <2>3
  <2> HIDE DEF Registered
  <2>5. Registered' = Registered \cup {id}
    BY <2>4
  <2>6. /\ table' \in Seq(Entries)
        /\ \A j, k \in DOMAIN table' : table'[j].id = table'[k].id => j = k
    BY <2>1, <2>3
  <2>7. \A j \in DOMAIN table' :
             \/ table'[j] = [id |-> id, client |-> c]
             \/ j \in DOMAIN table /\ table'[j] = table[j]
    BY <2>1, <2>3
  <2> QED BY <2>5, <2>6, <2>7
<1>4. NoJob \in Jobs /\ NoJob.pc = "idle"
  BY Idle
<1>5. jobs'[t] = NoJob /\ \A u \in ManagerTasks : u # t => jobs'[u] = jobs[u]
  BY <1>1, <1>4, JobSays
<1>6. ManagerTypeOK'
  BY <1>1, <1>2, <1>3, <1>4, OnlyCall, ManagerTypes DEF Default
<1>7. Placed'
  <2>1. \A i \in DOMAIN table' : table'[i].client \in 1 .. made
    BY <1>2, <1>3 DEF ManagerInv, Placed
  <2>2. \A i, j \in DOMAIN table' : table'[i].client = table'[j].client => i = j
    <3> TAKE i, j \in DOMAIN table'
    <3>1. CASE table'[i] = [id |-> id, client |-> c] /\ table'[j] = [id |-> id, client |-> c]
      BY <1>3, <3>1
    <3>2. CASE table'[i] = [id |-> id, client |-> c] /\ j \in DOMAIN table /\ table'[j] = table[j]
      BY <1>2, <3>2
    <3>3. CASE table'[j] = [id |-> id, client |-> c] /\ i \in DOMAIN table /\ table'[i] = table[i]
      BY <1>2, <3>3
    <3>4. CASE i \in DOMAIN table /\ table'[i] = table[i] /\ j \in DOMAIN table /\ table'[j] = table[j]
      BY <3>4 DEF ManagerInv, Placed
    <3> QED BY <1>3, <3>1, <3>2, <3>3, <3>4
  <2>3. Len(table') <= made
    BY <1>3, <2>1, <2>2, NoMoreThanMade
  <2>4. \A u \in ManagerTasks : Carries(u)' => u # t /\ Carries(u) /\ jobs'[u] = jobs[u]
    BY <1>4, <1>5 DEF Carries
  <2>5. ASSUME NEW u \in ManagerTasks, Carries(u)'
        PROVE  /\ jobs'[u].client \in 1 .. made /\ jobs'[u].id \in Ids
               /\ \A i \in DOMAIN table' : table'[i].client # jobs'[u].client
               /\ \A w \in ManagerTasks : Carries(w)' /\ jobs'[w].client = jobs'[u].client => w = u
    <3>1. jobs[u].client # c
      BY <1>2, <2>4, <2>5 DEF ManagerInv, Placed
    <3>2. \A i \in DOMAIN table' : table'[i].client # jobs'[u].client
      BY <1>3, <2>4, <2>5, <3>1 DEF ManagerInv, Placed
    <3> QED BY <2>4, <2>5, <3>2 DEF ManagerInv, Placed
  <2> QED BY <1>1, <2>1, <2>2, <2>3, <2>5 DEF Placed
<1>8. Underway'
  BY <1>4, <1>5 DEF ManagerInv, Underway
<1>9. Replaced'
  <2>1. CASE default = None
    BY <1>1, <1>3, <2>1 DEF Default, Replaced
  <2>2. CASE default # None /\ default \in Registered
    BY <1>1, <1>3, <2>2 DEF Default, Replaced
  <2>3. ASSUME default # None,
               NEW u \in ManagerTasks,
               \/ jobs[u].pc = "closing" /\ jobs[u].id = default
               \/ jobs[u].pc = "closing all"
        PROVE  Replaced'
    <3>1. u # t /\ jobs'[u] = jobs[u] /\ default' = default
      BY <1>1, <1>5, <2>3 DEF Default
    <3> QED BY <2>3, <3>1 DEF Replaced
  <2> QED BY <2>1, <2>2, <2>3 DEF ManagerInv, Replaced
<1>10. Alone'
  <2> SUFFICES ASSUME ~overlaps' PROVE Alone'
    BY DEF Alone
  <2>1. /\ ~overlaps /\ \A u, w \in Busy' : u = w
        /\ \A u \in ManagerTasks : jobs[u].pc # "closing all"
    BY <1>1, <1>4, OnlyCall
  <2>2. \A i \in DOMAIN table : table[i].client \in open
    BY <2>1 DEF ManagerInv, Alone
  <2>3. \A i \in DOMAIN table' : table'[i].client \in open'
    BY <1>1, <1>3, <2>2
  <2> QED BY <2>1, <2>3 DEF Alone
<1> QED BY <1>6, <1>7, <1>8, <1>9, <1>10 DEF ManagerInv

LEMMA ManagerConnectFails ==
  ASSUME ManagerInv, NEW t \in ManagerTasks, ConnectFails(t)
  PROVE  ManagerInv'
<1> USE ManagerFacts
<1>1. /\ jobs[t].pc = "connecting" /\ Set(t, NoJob)
      /\ UNCHANGED <<table, default, open, made, overlaps>>
  BY DEF ConnectFails
<1>2. NoJob \in Jobs /\ NoJob.pc = "idle"
  BY Idle
<1>3. jobs'[t] = NoJob /\ \A u \in ManagerTasks : u # t => jobs'[u] = jobs[u]
  BY <1>1, <1>2, JobSays
<1>4. ManagerTypeOK'
  BY <1>1, <1>2, ManagerTypes
<1>5. Placed'
  BY <1>1, <1>2, NoClientMoves DEF ManagerInv, Placed
<1>6. Underway'
  BY <1>2, <1>3 DEF ManagerInv, Underway
<1>7. Replaced'
  BY <1>1, <1>3 DEF ManagerInv, Replaced, Registered
<1>8. Alone'
  BY <1>1, <1>2, OnlyCall DEF ManagerInv, Alone
<1> QED BY <1>4, <1>5, <1>6, <1>7, <1>8 DEF ManagerInv

LEMMA ManagerDisconnects ==
  ASSUME ManagerInv, NEW t \in ManagerTasks, Disconnect(t)
  PROVE  ManagerInv'
<1> USE ManagerFacts
<1>1. PICK i \in DOMAIN table :
        /\ table' = RemoveAt(table, i)
        /\ Set(t, [NoJob EXCEPT !.pc = "closing", !.id = table[i].id, !.client = table[i].client])
  BY DEF Disconnect
<1> DEFINE id == table[i].id
           c == table[i].client
           job == [NoJob EXCEPT !.pc = "closing", !.id = id, !.client = c]
<1>2. jobs[t].pc = "idle" /\ Goes(t) /\ UNCHANGED <<default, open, made>> /\ Set(t, job)
  BY <1>1 DEF Disconnect
<1>3. id \in Ids /\ c \in Clients /\ c \in 1 .. made
  BY DEF Entries, ManagerInv, Placed
<1> HIDE DEF id, c
<1>4. job \in Jobs /\ job.pc = "closing" /\ job.id = id /\ job.client = c
  <2>1. JobKinds(id, c, <<>>, 0)
    BY <1>3, EmptySeq, JobsAre
  <2> QED BY <2>1 DEF JobKinds
<1> HIDE DEF job
<1>5. jobs'[t] = job /\ \A u \in ManagerTasks : u # t => jobs'[u] = jobs[u]
  BY <1>2, <1>4, JobSays
<1>6. /\ table' \in Seq(Entries)
      /\ \A j, k \in DOMAIN table' : table'[j].id = table'[k].id => j = k
      /\ \A j \in DOMAIN table' : \E k \in DOMAIN table : k # i /\ table'[j] = table[k]
      /\ \A k \in DOMAIN table : k # i => \E j \in DOMAIN table' : table'[j] = table[k]
      /\ \A j, k \in DOMAIN table' : table'[j].client = table'[k].client => j = k
  <2>1. \A l, m \in DOMAIN table : table[l].client = table[m].client => l = m
    BY DEF ManagerInv, Placed
  <2>2. /\ RemoveAt(table, i) \in Seq(Entries)
        /\ \A j, k \in DOMAIN RemoveAt(table, i) :
             RemoveAt(table, i)[j].id = RemoveAt(table, i)[k].id => j = k
        /\ \A j \in DOMAIN RemoveAt(table, i) : \E k \in DOMAIN table : k # i /\ RemoveAt(table, i)[j] = table[k]
        /\ \A k \in DOMAIN table : k # i => \E j \in DOMAIN RemoveAt(table, i) : RemoveAt(table, i)[j] = table[k]
        /\ \A j, k \in DOMAIN RemoveAt(table, i) :
             RemoveAt(table, i)[j].client = RemoveAt(table, i)[k].client => j = k
    BY <2>1, WithoutSays
  <2> QED BY <1>1, <2>2
<1>7. ManagerTypeOK'
  BY <1>2, <1>4, <1>6, OnlyCall, ManagerTypes
<1>8. Placed'
  <2>1. \A j \in DOMAIN table' : table'[j].client \in 1 .. made /\ table'[j].client # c
    BY <1>6 DEF ManagerInv, Placed, c
  <2>2. Len(table') <= made
    BY <1>6, <2>1, NoMoreThanMade
  <2>3. \A u \in ManagerTasks : Carries(u)' =>
          (u = t /\ jobs'[u] = job) \/ (u # t /\ Carries(u) /\ jobs'[u] = jobs[u] /\ jobs[u].client # c)
    BY <1>5 DEF Carries, ManagerInv, Placed, c
  <2>4. ASSUME NEW u \in ManagerTasks, Carries(u)'
        PROVE  /\ jobs'[u].client \in 1 .. made /\ jobs'[u].id \in Ids
               /\ \A j \in DOMAIN table' : table'[j].client # jobs'[u].client
               /\ \A w \in ManagerTasks : Carries(w)' /\ jobs'[w].client = jobs'[u].client => w = u
    <3>1. jobs'[u].client \in 1 .. made /\ jobs'[u].id \in Ids
      BY <1>3, <1>4, <2>3, <2>4 DEF ManagerInv, Placed
    <3>2. \A j \in DOMAIN table' : table'[j].client # jobs'[u].client
      <4>1. CASE u = t
        BY <1>4, <1>5, <2>1, <4>1
      <4>2. CASE u # t
        <5>1. Carries(u) /\ jobs'[u] = jobs[u]
          BY <2>3, <2>4, <4>2
        <5>2. \A k \in DOMAIN table : table[k].client # jobs[u].client
          BY <5>1 DEF ManagerInv, Placed
        <5>3. \A j \in DOMAIN table' : \E k \in DOMAIN table : table'[j] = table[k]
          BY <1>6
        <5> QED BY <5>1, <5>2, <5>3
      <4> QED BY <4>1, <4>2
    <3>3. ASSUME NEW w \in ManagerTasks, Carries(w)', jobs'[w].client = jobs'[u].client PROVE w = u
      BY <1>4, <2>3, <2>4, <3>3 DEF ManagerInv, Placed
    <3> QED BY <3>1, <3>2, <3>3
  <2> QED BY <1>2, <1>6, <2>1, <2>2, <2>4 DEF Placed
<1>9. Underway'
  BY <1>4, <1>5 DEF ManagerInv, Underway
<1>10. Replaced'
  <2>1. CASE default = id
    BY <1>2, <1>4, <1>5, <2>1 DEF Replaced
  <2>2. CASE default # id /\ default \in Registered
    <3>1. PICK k \in DOMAIN table : table[k].id = default
      BY <2>2 DEF Registered
    <3>2. k # i
      BY <2>2, <3>1 DEF id
    <3> QED BY <1>2, <1>6, <3>1, <3>2 DEF Replaced, Registered
  <2>3. ASSUME NEW u \in ManagerTasks,
               \/ jobs[u].pc = "closing" /\ jobs[u].id = default
               \/ jobs[u].pc = "closing all"
        PROVE  Replaced'
    <3>1. u # t /\ jobs'[u] = jobs[u] /\ default' = default
      BY <1>2, <1>5, <2>3
    <3> QED BY <2>3, <3>1 DEF Replaced
  <2>4. table # <<>>
    OBVIOUS
  <2> QED BY <2>1, <2>2, <2>3, <2>4 DEF ManagerInv, Replaced
<1>11. Alone'
  <2> SUFFICES ASSUME ~overlaps' PROVE Alone'
    BY DEF Alone
  <2>1. /\ ~overlaps /\ \A u, w \in Busy' : u = w
        /\ \A u \in ManagerTasks : jobs[u].pc # "closing all"
    BY <1>2, <1>4, OnlyCall
  <2>2. \A j \in DOMAIN table : table[j].client \in open
    BY <2>1 DEF ManagerInv, Alone
  <2>3. \A j \in DOMAIN table' : table'[j].client \in open'
    BY <1>2, <1>6, <2>2
  <2> QED BY <2>1, <2>3 DEF Alone
<1> QED BY <1>7, <1>8, <1>9, <1>10, <1>11 DEF ManagerInv

LEMMA ManagerDisconnected ==
  ASSUME ManagerInv, NEW t \in ManagerTasks, Disconnected(t)
  PROVE  ManagerInv'
<1> USE ManagerFacts
<1>1. /\ jobs[t].pc = "closing" /\ open' = open \ {jobs[t].client}
      /\ default' = DefaultWithout(jobs[t].id)
      /\ Set(t, NoJob) /\ UNCHANGED <<table, made, overlaps>>
  BY DEF Disconnected
<1>2. NoJob \in Jobs /\ NoJob.pc = "idle"
  BY Idle
<1>3. jobs'[t] = NoJob /\ \A u \in ManagerTasks : u # t => jobs'[u] = jobs[u]
  BY <1>1, <1>2, JobSays
<1>4. \/ default' = default /\ default # jobs[t].id
      \/ default' = None /\ table = <<>>
      \/ default' \in Registered /\ default' \in Ids
  <2>1. table # <<>> => 1 \in DOMAIN table
    OBVIOUS
  <2>2. table # <<>> => table[1].id \in Registered /\ table[1].id \in Ids
    BY <2>1 DEF Registered, Entries
  <2> QED BY <1>1, <2>2 DEF DefaultWithout
<1>5. ManagerTypeOK'
  BY <1>1, <1>2, <1>4, ManagerTypes
<1>6. Placed'
  BY <1>1, <1>2, NoClientMoves DEF ManagerInv, Placed
<1>7. Underway'
  BY <1>2, <1>3 DEF ManagerInv, Underway
<1>8. Replaced'
  <2>1. CASE default' = default /\ default # jobs[t].id
    <3>1. ASSUME NEW u \in ManagerTasks,
                 \/ jobs[u].pc = "closing" /\ jobs[u].id = default
                 \/ jobs[u].pc = "closing all"
          PROVE  Replaced'
      <4>1. u # t /\ jobs'[u] = jobs[u]
        BY <1>1, <1>3, <2>1, <3>1
      <4> QED BY <2>1, <3>1, <4>1 DEF Replaced
    <3>2. default \in Registered \/ (default = None /\ table = <<>>) => Replaced'
      BY <1>1, <2>1 DEF Replaced, Registered
    <3> QED BY <3>1, <3>2 DEF ManagerInv, Replaced
  <2>2. CASE default' = None /\ table = <<>>
    BY <1>1, <2>2 DEF Replaced
  <2>3. CASE default' \in Registered
    BY <1>1, <2>3 DEF Replaced, Registered
  <2> QED BY <1>4, <2>1, <2>2, <2>3
<1>9. Alone'
  <2> SUFFICES ASSUME ~overlaps' PROVE Alone'
    BY DEF Alone
  <2>1. /\ ~overlaps /\ \A u, w \in Busy' : u = w
        /\ \A u \in ManagerTasks : jobs[u].pc # "closing all"
    BY <1>1, <1>2, OnlyCall
  <2>2. \A i \in DOMAIN table : table[i].client \in open /\ table[i].client # jobs[t].client
    BY <1>1, <2>1 DEF ManagerInv, Alone, Placed, Carries
  <2>3. \A i \in DOMAIN table' : table'[i].client \in open'
    BY <1>1, <2>2
  <2> QED BY <2>1, <2>3 DEF Alone
<1> QED BY <1>5, <1>6, <1>7, <1>8, <1>9 DEF ManagerInv

\* A disconnect that finds no client: the default is replaced at once.
LEMMA ManagerDisconnectsNone ==
  ASSUME ManagerInv, NEW t \in ManagerTasks, DisconnectNone(t)
  PROVE  ManagerInv'
<1> USE ManagerFacts
<1>1. /\ default' = DefaultWithout(default)
      /\ UNCHANGED <<table, open, made, jobs, overlaps>>
  BY DEF DisconnectNone
<1>2. \/ default' = None /\ table = <<>>
      \/ default' \in Registered /\ default' \in Ids
  <2>1. table # <<>> => 1 \in DOMAIN table
    OBVIOUS
  <2>2. table # <<>> => table[1].id \in Registered /\ table[1].id \in Ids
    BY <2>1 DEF Registered, Entries
  <2> QED BY <1>1, <2>2 DEF DefaultWithout
<1>3. ManagerTypeOK'
  BY <1>1, <1>2 DEF ManagerInv, ManagerTypeOK
<1>4. Replaced'
  BY <1>1, <1>2 DEF Replaced, Registered
<1> QED BY <1>1, <1>3, <1>4 DEF ManagerInv, Placed, Underway, Alone, Carries, Busy

\* disconnect() of all of them: from the first close to the clear.
LEMMA ManagerClosesAll ==
  ASSUME ManagerInv, NEW t \in ManagerTasks, DisconnectAll(t)
  PROVE  ManagerInv'
<1> DEFINE s == [i \in DOMAIN table |-> table[i].client]
           job == [NoJob EXCEPT !.pc = "closing all", !.left = s]
<1> USE ManagerFacts
<1>1. /\ jobs[t].pc = "idle" /\ table # <<>> /\ Set(t, job) /\ Goes(t)
      /\ UNCHANGED <<table, default, open, made>>
  BY DEF DisconnectAll
<1>2. s \in Seq(Clients) /\ s # <<>>
  <2>1. \A i \in 1 .. Len(table) : table[i].client \in Clients
    BY DEF Entries
  <2>2. s = [i \in 1 .. Len(table) |-> table[i].client]
    OBVIOUS
  <2>3. s \in Seq(Clients)
    BY <2>1, <2>2, IsASeq
  <2>4. 1 \in DOMAIN s
    BY <1>1
  <2> QED BY <2>3, <2>4
<1> HIDE DEF s
<1>3. job \in Jobs /\ job.pc = "closing all" /\ job.left = s
  <2>0. 0 \in Nat
    OBVIOUS
  <2>1. [NoJob EXCEPT !.pc = "closing all", !.left = s] \in Jobs
    <3>1. MaxConnects + 1 \in Ids \cup {None}
      BY DEF None
    <3> QED BY <1>2, <3>1 DEF NoJob, Jobs, None
  <2> QED BY <2>1 DEF NoJob
<1> HIDE DEF job
<1>4. jobs'[t] = job /\ \A u \in ManagerTasks : u # t => jobs'[u] = jobs[u]
  BY <1>1, <1>3, JobSays
<1>5. ManagerTypeOK'
  <2>1. overlaps' \in BOOLEAN
    BY <1>1, <1>3, OnlyCall
  <2> QED BY <1>1, <1>3, <2>1, ManagerTypes
<1>6. Placed'
  BY <1>1, <1>3, NoClientMoves DEF ManagerInv, Placed
<1>7. Underway'
  BY <1>2, <1>3, <1>4 DEF ManagerInv, Underway
<1>8. Replaced'
  BY <1>3, <1>4 DEF Replaced
<1>9. Alone'
  BY <1>1, <1>3, <1>4, OnlyCall DEF Alone
<1> QED BY <1>5, <1>6, <1>7, <1>8, <1>9 DEF ManagerInv

LEMMA ManagerClosesOne ==
  ASSUME ManagerInv, NEW t \in ManagerTasks, ClosesOne(t)
  PROVE  ManagerInv'
<1> DEFINE s == jobs[t].left
           job == IF Len(s) > 1 THEN [jobs[t] EXCEPT !.left = Tail(s)] ELSE NoJob
<1> USE ManagerFacts
<1>1. /\ jobs[t].pc = "closing all" /\ open' = open \ {Head(s)} /\ Set(t, job)
      /\ IF Len(s) > 1 THEN UNCHANGED <<table, default>> ELSE table' = <<>> /\ default' = None
      /\ UNCHANGED <<made, overlaps>>
  BY DEF ClosesOne
<1>2. s \in Seq(Clients) /\ s # <<>>
  BY <1>1 DEF Jobs, ManagerInv, Underway
<1>3. Len(s) > 1 => Tail(s) \in Seq(Clients) /\ Tail(s) # <<>>
  BY <1>2
<1>4. /\ job \in Jobs
      /\ Len(s) > 1 => job.pc = "closing all" /\ job.left # <<>>
      /\ ~(Len(s) > 1) => job.pc = "idle"
  <2>1. CASE Len(s) > 1
    <3>1. Tail(s) \in Seq(Clients) /\ jobs[t] \in Jobs
      BY <1>3, <2>1
    <3>2. [jobs[t] EXCEPT !.left = Tail(s)] \in Jobs
      BY <3>1 DEF Jobs
    <3>3. /\ [jobs[t] EXCEPT !.left = Tail(s)].pc = jobs[t].pc
          /\ [jobs[t] EXCEPT !.left = Tail(s)].left = Tail(s)
      BY <3>1 DEF Jobs
    <3> QED BY <1>1, <1>3, <2>1, <3>2, <3>3
  <2>2. CASE ~(Len(s) > 1)
    BY <2>2, Idle
  <2> QED BY <2>1, <2>2
<1> HIDE DEF job
<1>5. jobs'[t] = job /\ \A u \in ManagerTasks : u # t => jobs'[u] = jobs[u]
  BY <1>1, <1>4, JobSays
<1>6. /\ table' \in Seq(Entries)
      /\ \A j, k \in DOMAIN table' : table'[j].id = table'[k].id => j = k
      /\ \A j, k \in DOMAIN table' : table'[j].client = table'[k].client => j = k
      /\ \A j \in DOMAIN table' : j \in DOMAIN table /\ table'[j] = table[j]
      /\ default' \in Ids \cup {None}
  <2>1. CASE Len(s) > 1
    BY <1>1, <2>1 DEF ManagerInv, Placed
  <2>2. CASE ~(Len(s) > 1)
    <3>1. table' = <<>> /\ default' = None
      BY <1>1, <2>2
    <3> QED BY <3>1, EmptyTable
  <2> QED BY <2>1, <2>2
<1>7. ManagerTypeOK'
  <2>1. open' \subseteq Clients /\ made' \in 0 .. MaxConnects /\ overlaps' \in BOOLEAN /\ Set(t, job)
    BY <1>1
  <2> QED BY <1>4, <1>6, <2>1, ManagerTypes
<1>8. Placed'
  <2>1. job.pc \notin {"connecting", "closing"}
    BY <1>4
  <2> QED BY <1>1, <1>4, <1>6, <2>1, NoClientMoves
<1>9. Underway'
  <2>1. job.pc = "closing all" => job.left # <<>>
    BY <1>4
  <2>2. job.pc # "sending"
    BY <1>4
  <2> QED BY <1>5, <2>1, <2>2 DEF ManagerInv, Underway
<1>10. Replaced'
  <2>1. CASE Len(s) > 1
    BY <1>4, <1>5, <2>1 DEF Replaced
  <2>2. CASE ~(Len(s) > 1)
    BY <1>1, <2>2 DEF Replaced
  <2> QED BY <2>1, <2>2
<1>11. Alone'
  <2>1. overlaps' = overlaps /\ jobs[t].pc # "idle"
    BY <1>1
  <2>2. ~overlaps' => \A u, w \in Busy' : u = w
    BY <1>1, <1>4, <2>1, OnlyCall
  <2>3. CASE Len(s) > 1
    BY <1>4, <1>5, <2>2, <2>3 DEF Alone
  <2>4. CASE ~(Len(s) > 1)
    <3>0. table' = <<>>
      BY <1>1, <2>4
    <3>1. DOMAIN table' = {}
      BY <3>0, EmptyTable
    <3> QED BY <2>2, <3>1 DEF Alone
  <2> QED BY <2>3, <2>4
<1> QED BY <1>7, <1>8, <1>9, <1>10, <1>11 DEF ManagerInv

\* broadcast(): the size it took is never more than the clients made.
LEMMA ManagerBroadcasts ==
  ASSUME ManagerInv, NEW t \in ManagerTasks, Broadcast(t)
  PROVE  ManagerInv'
<1> DEFINE job == [NoJob EXCEPT !.pc = "sending", !.size = Len(table), !.id = 0]
<1> USE ManagerFacts
<1>1. /\ jobs[t].pc = "idle" /\ table # <<>> /\ Set(t, job) /\ Goes(t)
      /\ UNCHANGED <<table, default, open, made>>
  BY DEF Broadcast
<1>2. Len(table) <= MaxConnects /\ 0 < Len(table)
  BY <1>1 DEF ManagerInv, Placed
<1>3. job \in Jobs
  <2>1. <<>> \in Seq(Clients) /\ 0 \in Ids
    BY EmptySeq DEF Ids
  <2> QED BY <2>1 DEF NoJob, Jobs
<1>4. job.pc = "sending" /\ job.size = Len(table) /\ job.id = 0
  BY DEF NoJob
<1> HIDE DEF job
<1>5. jobs'[t] = job /\ \A u \in ManagerTasks : u # t => jobs'[u] = jobs[u]
  BY <1>1, <1>3, JobSays
<1>6. ManagerTypeOK'
  BY <1>1, <1>3, OnlyCall, ManagerTypes
<1>7. Placed'
  BY <1>1, <1>3, <1>4, NoClientMoves DEF ManagerInv, Placed
<1>8. Underway'
  <2>1. job.pc # "closing all" /\ job.id \in Nat /\ job.id < job.size /\ job.size <= MaxConnects
    BY <1>2, <1>4
  <2> QED BY <1>5, <2>1 DEF ManagerInv, Underway
<1>9. Replaced'
  BY <1>1, <1>5 DEF ManagerInv, Replaced, Registered
<1>10. Alone'
  BY <1>1, <1>3, OnlyCall DEF ManagerInv, Alone
<1> QED BY <1>6, <1>7, <1>8, <1>9, <1>10 DEF ManagerInv

LEMMA ManagerSends ==
  ASSUME ManagerInv, NEW t \in ManagerTasks, SendsOne(t)
  PROVE  ManagerInv'
<1> DEFINE over == Len(table) # jobs[t].size \/ jobs[t].id + 1 >= jobs[t].size
           job == IF over THEN NoJob ELSE [jobs[t] EXCEPT !.id = jobs[t].id + 1]
<1> USE ManagerFacts
<1>1. /\ jobs[t].pc = "sending" /\ Set(t, job)
      /\ UNCHANGED <<table, default, open, made, overlaps>>
  BY DEF SendsOne
<1>2. /\ jobs[t].id \in Nat /\ jobs[t].size \in Nat /\ jobs[t].size <= MaxConnects
      /\ jobs[t] \in Jobs
  BY <1>1 DEF ManagerInv, Underway, Jobs
<1>3. /\ job \in Jobs
      /\ \/ job.pc = "idle"
         \/ job.pc = "sending" /\ job.id \in Nat /\ job.id < job.size /\ job.size <= MaxConnects
  <2>1. CASE over
    BY <2>1, Idle
  <2>2. CASE ~over
    <3>1. jobs[t].id + 1 \in Ids /\ jobs[t].id + 1 < jobs[t].size
      BY <1>2, <2>2 DEF Ids
    <3>2. [jobs[t] EXCEPT !.id = jobs[t].id + 1] \in Jobs
      BY <1>2, <3>1 DEF Jobs
    <3>3. /\ [jobs[t] EXCEPT !.id = jobs[t].id + 1].pc = "sending"
          /\ [jobs[t] EXCEPT !.id = jobs[t].id + 1].id = jobs[t].id + 1
          /\ [jobs[t] EXCEPT !.id = jobs[t].id + 1].size = jobs[t].size
      BY <1>1, <1>2 DEF Jobs
    <3> HIDE DEF over
    <3> QED BY <1>2, <2>2, <3>1, <3>2, <3>3
  <2> QED BY <2>1, <2>2
<1> HIDE DEF job
<1>4. jobs'[t] = job /\ \A u \in ManagerTasks : u # t => jobs'[u] = jobs[u]
  BY <1>1, <1>3, JobSays
<1>5. ManagerTypeOK'
  BY <1>1, <1>3, ManagerTypes
<1>6. Placed'
  <2>1. job.pc \notin {"connecting", "closing"}
    BY <1>3
  <2> QED BY <1>1, <1>3, <2>1, NoClientMoves DEF ManagerInv, Placed
<1>7. Underway'
  BY <1>3, <1>4 DEF ManagerInv, Underway
<1>8. Replaced'
  BY <1>1, <1>4 DEF ManagerInv, Replaced, Registered
<1>9. Alone'
  BY <1>1, <1>3, OnlyCall DEF ManagerInv, Alone
<1> QED BY <1>5, <1>6, <1>7, <1>8, <1>9 DEF ManagerInv

LEMMA ManagerStarts ==
  ASSUME ManagerInit
  PROVE  ManagerInv
<1> USE ManagerAssumption
<1>1. /\ table = <<>> /\ default = None /\ open = {} /\ made = 0 /\ overlaps = FALSE
      /\ jobs = [t \in ManagerTasks |-> NoJob]
  BY DEF ManagerInit
<1>2. NoJob \in Jobs /\ \A t \in ManagerTasks : jobs[t] = NoJob /\ jobs[t].pc = "idle"
  BY <1>1, Idle
<1>3. /\ table \in Seq(Entries) /\ DOMAIN table = {} /\ Len(table) = 0
  BY <1>1, EmptySeq
<1>4. ManagerTypeOK
  <2>1. IsInjective([i \in DOMAIN table |-> table[i].id])
    BY <1>3 DEF IsInjective
  <2>2. jobs \in [ManagerTasks -> Jobs]
    BY <1>1, <1>2
  <2>3. default \in Ids \cup {None} /\ open \subseteq Clients
    BY <1>1
  <2>4. made \in 0 .. MaxConnects
    BY <1>1
  <2>5. overlaps \in BOOLEAN
    BY <1>1
  <2> QED BY <1>3, <2>1, <2>2, <2>3, <2>4, <2>5 DEF ManagerTypeOK, Entries
<1>5. Placed
  <2>1. \A t \in ManagerTasks : ~Carries(t)
    BY <1>2 DEF Carries
  <2> QED BY <1>1, <1>3, <2>1 DEF Placed
<1>8. Underway
  BY <1>2 DEF Underway
<1>6. Replaced
  BY <1>1 DEF Replaced
<1>7. Busy = {}
  BY <1>2 DEF Busy
<1> QED BY <1>3, <1>4, <1>5, <1>6, <1>7, <1>8 DEF ManagerInv, Alone

LEMMA ManagerInductive ==
  ASSUME ManagerInv, [ManagerNext]_managerVars
  PROVE  ManagerInv'
<1>1. CASE UNCHANGED managerVars
  BY <1>1 DEF managerVars, ManagerInv, ManagerTypeOK, Placed, Underway, Replaced, Alone,
              Carries, Registered, Busy
<1>2. CASE ManagerNext
  BY <1>2, ManagerConnects, ManagerRegisters, ManagerConnectFails, ManagerDisconnects,
     ManagerDisconnected, ManagerDisconnectsNone, ManagerClosesAll, ManagerClosesOne, ManagerBroadcasts, ManagerSends
  DEF ManagerNext
<1> QED BY <1>1, <1>2

LEMMA ManagerInvSafe ==
  ASSUME ManagerInv
  PROVE  ManagerTypeOK /\ ManagerSound
<1>1. Busy = {} => \A t \in ManagerTasks : jobs[t].pc = "idle"
  BY DEF Busy
<1>2. DefaultRegistered
  BY <1>1 DEF DefaultRegistered, ManagerInv, Replaced
<1>3. TableIsOpen
  BY <1>1, ManagerFacts DEF TableIsOpen, ManagerInv, Alone
<1> QED BY <1>2, <1>3 DEF ManagerSound, ManagerInv

(***************************************************************************)
(* ZeroMQ.  Only the request of now is on its way, either way, and only    *)
(* while the socket waits; what was received is older than what is in the  *)
(* inbox.                                                                  *)
(***************************************************************************)
OnTheWay ==
  \/ atServer = <<>> /\ replies = <<>>
  \/ exchange = "waits" /\ asked > 0 /\ atServer = <<asked>> /\ replies = <<>>
  \/ exchange = "waits" /\ asked > 0 /\ atServer = <<>> /\ replies = <<asked>>

Rising(s) == \A i, j \in DOMAIN s : i < j => s[i] < s[j]

Delivery ==
  /\ Rising(inbox) /\ \A x \in ToSet(inbox) : x <= sent
  /\ \A x \in ToSet(heard) \cup ToSet(read) : x <= sent /\ \A y \in ToSet(inbox) : x < y

ZmqInv ==
  /\ ZmqTypeOK /\ loops <= zmqStarts
  /\ OnTheWay /\ RepliesMatch
  /\ Delivery /\ OneReceiver

Numbers == 1 .. MaxZmqSent

LEMMA RisingAppend ==
  ASSUME NEW s \in Seq(Numbers), NEW e \in Numbers
  PROVE  /\ Append(s, e) \in Seq(Numbers)
         /\ ToSet(Append(s, e)) = ToSet(s) \cup {e}
         /\ Rising(s) /\ (\A x \in ToSet(s) : x < e) => Rising(Append(s, e))
<1>1. /\ Len(s) \in Nat /\ DOMAIN s = 1 .. Len(s) /\ DOMAIN Append(s, e) = 1 .. Len(s) + 1
      /\ \A i \in 1 .. Len(s) : Append(s, e)[i] = s[i]
      /\ Append(s, e)[Len(s) + 1] = e /\ Append(s, e) \in Seq(Numbers)
  BY AppendProperties, LenProperties
<1>2. \A i \in 1 .. Len(s) + 1 : i \in 1 .. Len(s) \/ i = Len(s) + 1
  BY <1>1
<1>3. \A x : x \in ToSet(Append(s, e)) <=> x \in ToSet(s) \cup {e}
  BY <1>1, <1>2 DEF ToSet
<1>4. ASSUME Rising(s), \A x \in ToSet(s) : x < e PROVE Rising(Append(s, e))
  <2>1. SUFFICES ASSUME NEW i \in 1 .. Len(s) + 1, NEW j \in 1 .. Len(s) + 1, i < j
                 PROVE  Append(s, e)[i] < Append(s, e)[j]
    BY <1>1 DEF Rising
  <2>2. i \in 1 .. Len(s) /\ s[i] < e
    BY <1>1, <1>4, <2>1 DEF ToSet
  <2>3. CASE j \in 1 .. Len(s)
    BY <1>1, <1>4, <2>1, <2>2, <2>3 DEF Rising
  <2>4. CASE j = Len(s) + 1
    BY <1>1, <2>2, <2>4
  <2> QED BY <1>2, <2>3, <2>4
<1> QED BY <1>1, <1>3, <1>4

LEMMA RisingTail ==
  ASSUME NEW s \in Seq(Numbers), s # <<>>
  PROVE  /\ Head(s) \in Numbers /\ Tail(s) \in Seq(Numbers)
         /\ Head(s) \in ToSet(s) /\ ToSet(Tail(s)) \subseteq ToSet(s)
         /\ Rising(s) => Rising(Tail(s)) /\ \A x \in ToSet(Tail(s)) : Head(s) < x
<1>1. /\ Len(s) \in Nat /\ DOMAIN s = 1 .. Len(s) /\ Len(s) >= 1 /\ 1 \in DOMAIN s
      /\ Head(s) = s[1] /\ \A i \in 1 .. Len(s) : s[i] \in Numbers
  BY LenProperties, ElementOfSeq, HeadTailProperties
<1>2. /\ Tail(s) \in Seq(Numbers) /\ Len(Tail(s)) = Len(s) - 1
      /\ \A i \in 1 .. Len(Tail(s)) : Tail(s)[i] = s[i + 1]
  BY HeadTailProperties
<1>3. /\ DOMAIN Tail(s) = 1 .. Len(s) - 1
      /\ \A i \in 1 .. Len(s) - 1 : i + 1 \in 1 .. Len(s) /\ Tail(s)[i] = s[i + 1]
  BY <1>1, <1>2, LenProperties
<1>4. ToSet(Tail(s)) \subseteq ToSet(s)
  BY <1>1, <1>3 DEF ToSet
<1>5. ASSUME Rising(s) PROVE Rising(Tail(s))
  <2>1. SUFFICES ASSUME NEW i \in 1 .. Len(s) - 1, NEW j \in 1 .. Len(s) - 1, i < j
                 PROVE  Tail(s)[i] < Tail(s)[j]
    BY <1>3 DEF Rising
  <2>2. i + 1 < j + 1 /\ i + 1 \in 1 .. Len(s) /\ j + 1 \in 1 .. Len(s)
    BY <1>1, <2>1
  <2> QED BY <1>1, <1>3, <1>5, <2>2 DEF Rising
<1>6. ASSUME Rising(s) PROVE \A x \in ToSet(Tail(s)) : Head(s) < x
  <2>1. SUFFICES ASSUME NEW i \in 1 .. Len(s) - 1 PROVE s[1] < Tail(s)[i]
    BY <1>1, <1>3 DEF ToSet
  <2>2. 1 < i + 1 /\ i + 1 \in 1 .. Len(s)
    BY <1>1
  <2> QED BY <1>1, <1>3, <1>6, <2>2 DEF Rising
<1> QED BY <1>1, <1>2, <1>4, <1>5, <1>6 DEF ToSet

LEMMA RisingEmpty == <<>> \in Seq(Numbers) /\ Rising(<<>>) /\ ToSet(<<>>) = {}
<1>1. <<>> \in Seq(Numbers) /\ Len(<<>>) = 0
  BY EmptySeq
<1>2. DOMAIN <<>> = 1 .. 0
  BY <1>1, LenProperties
<1> QED BY <1>1, <1>2 DEF Rising, ToSet

LEMMA OneReceiverIs ==
  OneReceiver <=> ToSet(heard) \cap ToSet(read) = {} /\ Rising(heard) /\ Rising(read)
BY DEF OneReceiver, Rising

Modes == {"REQ", "SUB", "BROKER"}
Replying == Seq([of : Numbers, got : Numbers])

LEMMA ZmqFacts ==
  ASSUME ZmqInv
  PROVE  /\ MaxZmqSent \in Nat /\ MaxZmqStarts \in Nat
         /\ asked \in Nat /\ asked <= MaxZmqSent /\ sent \in Nat /\ sent <= MaxZmqSent
         /\ zmqStarts \in Nat /\ zmqStarts <= MaxZmqStarts /\ loops \in Nat /\ loops <= zmqStarts
         /\ atServer \in Seq(Numbers) /\ replies \in Seq(Numbers) /\ answers \in Replying
         /\ inbox \in Seq(Numbers) /\ heard \in Seq(Numbers) /\ read \in Seq(Numbers)
         /\ ToSet(heard) \cap ToSet(read) = {} /\ Rising(heard) /\ Rising(read)
BY ZmqAssumption, OneReceiverIs DEF ZmqInv, ZmqTypeOK, Numbers, Replying

\* The steps of connect(), close() and the broker move nothing on.
LEMMA ZmqOpens ==
  ASSUME ZmqInv, ZmqConnect \/ ZmqClose
  PROVE  ZmqInv'
<1> USE ZmqFacts
<1>1. /\ exchange' = "ready" /\ atServer' = <<>> /\ replies' = <<>> /\ inbox' = <<>>
      /\ UNCHANGED <<zmqMode, asked, answers, sent, heard, read, proxy, bound>>
  BY DEF ZmqConnect, ZmqClose, NewSocket, brokerVars
<1>2. /\ zmqUp' \in BOOLEAN /\ zmqStarts' \in 0 .. MaxZmqStarts /\ requesting' \in BOOLEAN
      /\ waiting' \subseteq Iterators /\ loops' \in Nat /\ loops' <= zmqStarts'
  <2>0. /\ zmqStarts \in 0 .. MaxZmqStarts /\ requesting \in BOOLEAN /\ waiting \subseteq Iterators
    BY DEF ZmqInv, ZmqTypeOK
  <2>1. CASE ZmqConnect
    <3>1. /\ zmqStarts' = zmqStarts + 1 /\ zmqStarts < MaxZmqStarts
          /\ loops' = IF zmqMode = "SUB" THEN loops + 1 ELSE loops
      BY <2>1 DEF ZmqConnect
    <3>2. zmqStarts' \in 0 .. MaxZmqStarts /\ loops' \in Nat /\ loops' <= zmqStarts'
      BY <3>1
    <3>3. zmqUp' = TRUE /\ requesting' = requesting /\ waiting' = waiting
      BY <2>1 DEF ZmqConnect
    <3> QED BY <2>0, <3>2, <3>3
  <2>2. CASE ZmqClose
    <3>1. zmqStarts' = zmqStarts /\ zmqStarts' \in 0 .. MaxZmqStarts /\ loops' \in Nat /\ loops' <= zmqStarts'
      BY <2>2 DEF ZmqClose
    <3>2. zmqUp' = FALSE /\ requesting' = FALSE /\ waiting' = {}
      BY <2>2 DEF ZmqClose
    <3>3. zmqUp' \in BOOLEAN /\ requesting' \in BOOLEAN
      BY <3>2
    <3> QED BY <3>1, <3>2, <3>3
  <2> QED BY <2>1, <2>2
<1>3. ZmqTypeOK'
  <2>1. loops' \in 0 .. MaxZmqStarts
    BY <1>2
  <2>2. atServer' \in Seq(Numbers) /\ replies' \in Seq(Numbers) /\ inbox' \in Seq(Numbers)
    BY <1>1, RisingEmpty
  <2> QED BY <1>1, <1>2, <2>1, <2>2 DEF ZmqInv, ZmqTypeOK, Numbers
<1>4. OnTheWay'
  BY <1>1 DEF OnTheWay
<1>5. RepliesMatch'
  BY <1>1 DEF ZmqInv, RepliesMatch
<1>6. Delivery'
  <2>1. Rising(inbox') /\ ToSet(inbox') = {}
    BY <1>1, RisingEmpty
  <2> QED BY <1>1, <2>1 DEF ZmqInv, Delivery
<1>7. OneReceiver'
  BY <1>1 DEF ZmqInv, OneReceiver
<1> QED BY <1>2, <1>3, <1>4, <1>5, <1>6, <1>7 DEF ZmqInv

LEMMA ZmqBrokers ==
  ASSUME ZmqInv, BrokerStart \/ ProxyBinds \/ BrokerStop
  PROVE  ZmqInv'
<1> USE ZmqFacts
<1>1. UNCHANGED <<zmqMode, reqVars, subVars>>
  BY DEF BrokerStart, ProxyBinds, BrokerStop
<1>2. /\ zmqUp' \in BOOLEAN /\ zmqStarts' \in 0 .. MaxZmqStarts /\ loops <= zmqStarts'
      /\ proxy' \in {"none", "created", "runs", "cancelled", "failed"} /\ bound' \in BOOLEAN
  <2>0. /\ zmqUp \in BOOLEAN /\ bound \in BOOLEAN /\ zmqStarts \in 0 .. MaxZmqStarts
        /\ proxy \in {"none", "created", "runs", "cancelled", "failed"}
    BY DEF ZmqInv, ZmqTypeOK
  <2>1. CASE BrokerStart
    <3>1. zmqStarts' = zmqStarts + 1 /\ zmqStarts < MaxZmqStarts
      BY <2>1 DEF BrokerStart
    <3>2. zmqStarts' \in 0 .. MaxZmqStarts /\ loops <= zmqStarts'
      BY <3>1
    <3>3. zmqUp' = TRUE /\ proxy' = "created" /\ bound' = bound
      BY <2>1 DEF BrokerStart
    <3> QED BY <2>0, <3>2, <3>3
  <2>2. CASE ProxyBinds
    BY <2>0, <2>2 DEF ProxyBinds
  <2>3. CASE BrokerStop
    BY <2>0, <2>3 DEF BrokerStop
  <2> QED BY <2>1, <2>2, <2>3
<1> QED BY <1>1, <1>2
        DEF ZmqInv, ZmqTypeOK, OnTheWay, RepliesMatch, Delivery, OneReceiver, reqVars, subVars

\* Requests and replies.
LEMMA ZmqRequests ==
  ASSUME ZmqInv, Request \/ ServerReplies \/ RequestReturns \/ RequestTimesOut
  PROVE  ZmqInv'
<1> USE ZmqFacts
<1>1. UNCHANGED <<zmqMode, zmqUp, zmqStarts, inbox, loops, waiting, sent, heard, read, proxy, bound>>
  BY DEF Request, ServerReplies, RequestReturns, RequestTimesOut, subVars, brokerVars
<1>2. Delivery' /\ OneReceiver' /\ loops' <= zmqStarts'
  BY <1>1 DEF ZmqInv, Delivery, OneReceiver
<1>3. SUFFICES /\ exchange' \in {"ready", "waits"} /\ asked' \in 0 .. MaxZmqSent
               /\ atServer' \in Seq(Numbers) /\ replies' \in Seq(Numbers)
               /\ requesting' \in BOOLEAN /\ answers' \in Replying
               /\ OnTheWay' /\ RepliesMatch'
  BY <1>1, <1>2 DEF ZmqInv, ZmqTypeOK, Numbers, Replying
<1>4. CASE Request
  <2>1. /\ exchange = "ready" /\ exchange' = "waits" /\ asked' = asked + 1 /\ asked < MaxZmqSent
        /\ requesting' = TRUE /\ atServer' = Append(atServer, asked + 1)
        /\ UNCHANGED <<replies, answers>>
    BY <1>4 DEF Request
  <2>2. atServer = <<>> /\ replies = <<>>
    BY <2>1 DEF ZmqInv, OnTheWay
  <2>3. atServer' = <<asked'>> /\ asked' \in Numbers
    BY <2>1, <2>2 DEF Numbers
  <2>4. atServer' \in Seq(Numbers)
    BY <2>3
  <2>5. OnTheWay'
    BY <2>1, <2>2, <2>3 DEF OnTheWay
  <2>6. asked' \in 0 .. MaxZmqSent
    BY <2>1
  <2> QED BY <2>1, <2>4, <2>5, <2>6 DEF ZmqInv, RepliesMatch
<1>5. CASE ServerReplies
  <2>1. /\ atServer # <<>> /\ replies' = Append(replies, Head(atServer)) /\ atServer' = Tail(atServer)
        /\ UNCHANGED <<exchange, asked, requesting, answers>>
    BY <1>5 DEF ServerReplies
  <2>2. exchange = "waits" /\ asked > 0 /\ atServer = <<asked>> /\ replies = <<>>
    BY <2>1 DEF ZmqInv, OnTheWay
  <2>3. atServer' = <<>> /\ replies' = <<asked>>
    BY <2>1, <2>2
  <2>4. asked \in Numbers
    BY <2>2 DEF Numbers
  <2>5. atServer' \in Seq(Numbers) /\ replies' \in Seq(Numbers)
    BY <2>3, <2>4, RisingEmpty
  <2>6. OnTheWay'
    BY <2>1, <2>2, <2>3 DEF OnTheWay
  <2> QED BY <2>1, <2>5, <2>6 DEF ZmqInv, ZmqTypeOK, RepliesMatch
<1>6. CASE RequestReturns
  <2>1. /\ replies # <<>> /\ requesting' = FALSE /\ exchange' = "ready" /\ replies' = Tail(replies)
        /\ answers' = Append(answers, [of |-> asked, got |-> Head(replies)])
        /\ UNCHANGED <<asked, atServer>>
    BY <1>6 DEF RequestReturns
  <2>2. asked > 0 /\ atServer = <<>> /\ replies = <<asked>>
    BY <2>1 DEF ZmqInv, OnTheWay
  <2>3. replies' = <<>> /\ Head(replies) = asked /\ asked \in Numbers
    BY <2>1, <2>2 DEF Numbers
  <2> DEFINE a == [of |-> asked, got |-> asked]
  <2>4. a \in [of : Numbers, got : Numbers] /\ a.of = a.got
    BY <2>3
  <2>5. answers' = Append(answers, a)
    BY <2>1, <2>3
  <2> HIDE DEF a
  <2>6. /\ answers' \in Replying /\ Len(answers) \in Nat
        /\ DOMAIN answers = 1 .. Len(answers) /\ DOMAIN answers' = 1 .. Len(answers) + 1
        /\ \A i \in 1 .. Len(answers) : answers'[i] = answers[i]
        /\ answers'[Len(answers) + 1] = a
    BY <2>4, <2>5, AppendProperties, LenProperties DEF Replying
  <2>7. RepliesMatch'
    <3>1. SUFFICES ASSUME NEW i \in 1 .. Len(answers) + 1 PROVE answers'[i].of = answers'[i].got
      BY <2>6 DEF RepliesMatch
    <3>2. CASE i \in 1 .. Len(answers)
      BY <2>6, <3>2 DEF ZmqInv, RepliesMatch
    <3>3. CASE i = Len(answers) + 1
      BY <2>4, <2>6, <3>3
    <3> QED BY <2>6, <3>2, <3>3
  <2>8. OnTheWay'
    BY <2>1, <2>2, <2>3 DEF OnTheWay
  <2>9. replies' \in Seq(Numbers) /\ atServer' \in Seq(Numbers)
    BY <2>1, <2>2, <2>3, RisingEmpty
  <2>10. exchange' \in {"ready", "waits"} /\ requesting' \in BOOLEAN
    BY <2>1
  <2>11. asked' \in 0 .. MaxZmqSent
    BY <2>1
  <2> QED BY <2>6, <2>7, <2>8, <2>9, <2>10, <2>11
<1>7. CASE RequestTimesOut
  BY <1>7 DEF RequestTimesOut, AfterTimeout, ZmqInv, ZmqTypeOK, OnTheWay, RepliesMatch
<1> QED BY <1>4, <1>5, <1>6, <1>7

LEMMA ZmqPublishes ==
  ASSUME ZmqInv, Publish
  PROVE  ZmqInv'
<1> USE ZmqFacts
<1>1. /\ sent < MaxZmqSent /\ sent' = sent + 1 /\ inbox' = Append(inbox, sent + 1)
      /\ UNCHANGED <<zmqMode, zmqUp, zmqStarts, loops, waiting, heard, read>>
      /\ UNCHANGED reqVars /\ UNCHANGED brokerVars
  BY DEF Publish
<1>2. sent + 1 \in Numbers
  BY <1>1 DEF Numbers
<1>3. /\ Rising(inbox) /\ \A x \in ToSet(inbox) : x <= sent
      /\ \A x \in ToSet(heard) \cup ToSet(read) : x <= sent /\ \A y \in ToSet(inbox) : x < y
      /\ \A x \in ToSet(inbox) \cup ToSet(heard) \cup ToSet(read) : x \in Nat
  BY ElementOfSeq DEF ZmqInv, Delivery, ToSet, Numbers
<1>4. inbox' \in Seq(Numbers) /\ ToSet(inbox') = ToSet(inbox) \cup {sent + 1} /\ Rising(inbox')
  <2>1. \A x \in ToSet(inbox) : x < sent + 1
    BY <1>3
  <2> QED BY <1>1, <1>2, <1>3, <2>1, RisingAppend
<1>5. Delivery'
  <2>1. \A x \in ToSet(inbox') : x <= sent'
    BY <1>1, <1>3, <1>4
  <2>2. \A x \in ToSet(heard) \cup ToSet(read) : x <= sent' /\ \A y \in ToSet(inbox') : x < y
    BY <1>1, <1>3, <1>4
  <2> QED BY <1>1, <1>4, <2>1, <2>2 DEF Delivery
<1>6. ZmqTypeOK'
  <2>1. sent' \in 0 .. MaxZmqSent
    BY <1>1
  <2> QED BY <1>1, <1>4, <2>1 DEF ZmqInv, ZmqTypeOK, Numbers, reqVars, brokerVars
<1> QED BY <1>1, <1>5, <1>6 DEF ZmqInv, OnTheWay, RepliesMatch, OneReceiver, reqVars

\* A message taken from the inbox is newer than all that were taken before.
LEMMA ZmqTakes ==
  ASSUME ZmqInv, LoopReceives \/ \E i \in Iterators : SubscribeYields(i)
  PROVE  ZmqInv'
<1> USE ZmqFacts
<1> DEFINE m == Head(inbox)
<1>1. /\ inbox # <<>> /\ inbox' = Tail(inbox) /\ waiting' \subseteq Iterators
      /\ UNCHANGED <<zmqMode, zmqUp, zmqStarts, loops, sent>>
      /\ UNCHANGED reqVars /\ UNCHANGED brokerVars
  BY DEF LoopReceives, SubscribeYields, Taken, ZmqInv, ZmqTypeOK
<1>2. \/ heard' = Append(heard, m) /\ read' = read
      \/ read' = Append(read, m) /\ heard' = heard
  BY DEF LoopReceives, SubscribeYields
<1>3. /\ Rising(inbox) /\ \A x \in ToSet(inbox) : x <= sent
      /\ \A x \in ToSet(heard) \cup ToSet(read) : x <= sent /\ \A y \in ToSet(inbox) : x < y
      /\ \A x \in ToSet(inbox) \cup ToSet(heard) \cup ToSet(read) : x \in Nat
  BY ElementOfSeq DEF ZmqInv, Delivery, ToSet, Numbers
<1>4. /\ m \in Numbers /\ m \in ToSet(inbox) /\ inbox' \in Seq(Numbers) /\ Rising(inbox')
      /\ ToSet(inbox') \subseteq ToSet(inbox) /\ \A x \in ToSet(inbox') : m < x
  BY <1>1, <1>3, RisingTail
<1> HIDE DEF m
<1>5. \A x \in ToSet(heard) \cup ToSet(read) : x < m
  BY <1>3, <1>4
<1>6. /\ heard' \in Seq(Numbers) /\ read' \in Seq(Numbers) /\ Rising(heard') /\ Rising(read')
      /\ ToSet(heard') \cup ToSet(read') = ToSet(heard) \cup ToSet(read) \cup {m}
      /\ ToSet(heard') \cap ToSet(read') = {}
  <2>0. m \notin ToSet(heard) \cup ToSet(read)
    <3> SUFFICES ASSUME m \in ToSet(heard) \cup ToSet(read) PROVE FALSE
      OBVIOUS
    <3>1. m < m /\ m \in Nat
      BY <1>3, <1>5
    <3> QED BY <3>1
  <2>1. CASE heard' = Append(heard, m) /\ read' = read
    <3>1. /\ heard' \in Seq(Numbers) /\ ToSet(heard') = ToSet(heard) \cup {m} /\ Rising(heard')
      BY <1>4, <1>5, <2>1, RisingAppend
    <3> QED BY <2>0, <2>1, <3>1
  <2>2. CASE read' = Append(read, m) /\ heard' = heard
    <3>1. /\ read' \in Seq(Numbers) /\ ToSet(read') = ToSet(read) \cup {m} /\ Rising(read')
      BY <1>4, <1>5, <2>2, RisingAppend
    <3> QED BY <2>0, <2>2, <3>1
  <2> QED BY <1>2, <2>1, <2>2
<1>7. Delivery'
  <2>1. \A x \in ToSet(inbox') : x <= sent
    BY <1>3, <1>4
  <2>2. \A x \in ToSet(heard') \cup ToSet(read') : x <= sent /\ \A y \in ToSet(inbox') : x < y
    BY <1>3, <1>4, <1>6
  <2> QED BY <1>1, <1>4, <2>1, <2>2 DEF Delivery
<1>8. OneReceiver'
  BY <1>6 DEF OneReceiver, Rising
<1>9. ZmqTypeOK'
  BY <1>1, <1>4, <1>6 DEF ZmqInv, ZmqTypeOK, Numbers, reqVars, brokerVars
<1> QED BY <1>1, <1>7, <1>8, <1>9 DEF ZmqInv, OnTheWay, RepliesMatch, reqVars

LEMMA ZmqStarts ==
  ASSUME ZmqInit
  PROVE  ZmqInv
<1>1. ZmqTypeOK
  <2>1. <<>> \in Seq(Numbers) /\ <<>> \in Replying
    BY EmptySeq DEF Replying
  <2>2. 0 \in 0 .. MaxZmqSent /\ 0 \in 0 .. MaxZmqStarts
    BY ZmqAssumption
  <2> QED BY <2>1, <2>2 DEF ZmqInit, ZmqTypeOK, Numbers, Replying
<1>2. RepliesMatch
  <2>1. answers = <<>> /\ answers \in Seq(Numbers)
    BY EmptySeq DEF ZmqInit
  <2>2. ToSet(answers) = {}
    BY <2>1, RisingEmpty
  <2> QED BY <2>2 DEF RepliesMatch, ToSet
<1>3. Rising(inbox) /\ ToSet(inbox) = {} /\ ToSet(heard) = {} /\ ToSet(read) = {}
      /\ Rising(heard) /\ Rising(read)
  BY RisingEmpty DEF ZmqInit
<1>4. OneReceiver
  BY <1>3, OneReceiverIs
<1> QED BY <1>1, <1>2, <1>3, <1>4 DEF ZmqInit, ZmqInv, OnTheWay, Delivery

LEMMA ZmqInductive ==
  ASSUME ZmqInv, [ZmqNext]_zmqVars
  PROVE  ZmqInv'
<1>1. CASE UNCHANGED zmqVars
  BY <1>1 DEF zmqVars, ZmqInv, ZmqTypeOK, OnTheWay, RepliesMatch, Delivery, OneReceiver
<1>3. ASSUME NEW i \in Iterators, Subscribe(i) PROVE ZmqInv'
  BY <1>3 DEF Subscribe, ZmqInv, ZmqTypeOK, OnTheWay, RepliesMatch, Delivery, OneReceiver,
              reqVars, brokerVars
<1> QED BY <1>1, <1>3, ZmqOpens, ZmqBrokers, ZmqRequests, ZmqPublishes, ZmqTakes DEF ZmqNext

LEMMA ZmqInvSafe ==
  ASSUME ZmqInv
  PROVE  ZmqTypeOK /\ ZmqSound
BY DEF ZmqInv, ZmqSound

-----------------------------------------------------------------------------
(***************************************************************************)
(* The four together: one of them is used, and the others stay.            *)
(***************************************************************************)
ConnectionsInv == PoolInv /\ WsInv /\ ManagerInv /\ ZmqInv

LEMMA ConnectionsInductive ==
  /\ PythonClientsInit => ConnectionsInv
  /\ ConnectionsInv /\ [PythonClientsNext]_connectionVars => ConnectionsInv'
<1>1. PythonClientsInit => ConnectionsInv
  BY PoolInductive, WsStarts, ManagerStarts, ZmqStarts DEF PythonClientsInit, ConnectionsInv
<1>2. ASSUME ConnectionsInv, [PythonClientsNext]_connectionVars PROVE ConnectionsInv'
  <2>1. /\ [PoolNext]_poolVars /\ [WsNext]_wsVars
        /\ [ManagerNext]_managerVars /\ [ZmqNext]_zmqVars
    BY <1>2 DEF PythonClientsNext, Others, connectionVars
  <2> QED BY <1>2, <2>1, PoolInductive, WsInductive, ManagerInductive, ZmqInductive
      DEF ConnectionsInv
<1> QED BY <1>1, <1>2

LEMMA ConnectionsInvSafe ==
  ConnectionsInv => ConnectionsTypeOK /\ PoolSafe /\ ConnectionsSound
BY PoolInvSafe, WsInvSafe, ManagerInvSafe, ZmqInvSafe
DEF ConnectionsInv, ConnectionsTypeOK, PoolSafe, ConnectionsSound

LEMMA ConnectionsAlways == PythonClientsSpec => []ConnectionsInv
BY ConnectionsInductive, PTL DEF PythonClientsSpec

\* The pools, the WebSocket client with its loops, the manager and the ZeroMQ
\* client and broker keep to the states of their types: the pool and the table
\* do not grow past the clients made, the attempts to reconnect not past
\* max_reconnects, and the newest connection is one that was opened
\* (pool.py:94, websocket_client.py:430).
THEOREM ClientsKeepTypes == PythonClientsSpec => []ConnectionsTypeOK
BY ConnectionsAlways, ConnectionsInvSafe, PTL

\* A client of the pool that failed max_failures times is out of the rotation,
\* and a pool that was stopped has no client open, for any number of clients
\* and of tasks that acquire and release them (client_pool.py:83).
THEOREM PoolKeepsRotation == PythonClientsSpec => []PoolSafe
BY ConnectionsAlways, ConnectionsInvSafe, PTL

\* Unless two tasks reconnected at a time there is one WebSocket connection
\* with one reader, and a close() that met no reconnecting task is final; the
\* manager's default is one of its table, and what the table holds is open
\* unless calls overlapped; a ZeroMQ request gets its own reply and a message
\* one receiver, in order (websocket_client.py:209, 412, 501; zmq_client.py:285).
THEOREM ConnectionsStaySound == PythonClientsSpec => []ConnectionsSound
BY ConnectionsAlways, ConnectionsInvSafe, PTL
=============================================================================
