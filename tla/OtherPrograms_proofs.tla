------------------------ MODULE OtherPrograms_proofs ------------------------
(***************************************************************************)
(* Proofs about the libraries and programs of OtherPrograms, for any       *)
(* number of keys, callers, items, producers and clients.  Each of them    *)
(* has an inductive invariant of its own; in a behaviour of the whole, the *)
(* steps of the program that is used are its own steps.                    *)
(***************************************************************************)
EXTENDS OtherPrograms, Debates_proofs

(***************************************************************************)
(* The cache.  What is stored says when and for how long, a version is     *)
(* removed only after the source has it, and a call that stores an older   *)
(* one has been computing when the key was removed.                        *)
(***************************************************************************)
CacheEntry == [key : CacheKeys, value : 0 .. MaxVersion, created : 0 .. MaxCacheNow, ttl : Nat \ {0}]
CacheCall ==
  {Idle} \cup [step : {"compute"}, key : CacheKeys, ttl : CacheTtls]
         \cup [step : {"store"}, key : CacheKeys, ttl : CacheTtls, value : 0 .. MaxVersion]
Storing == [at : 0 .. MaxCacheNow, ttl : Nat]

CacheEntries ==
  /\ entries \in Seq(CacheEntry)
  /\ \A i, j \in DOMAIN entries : entries[i].key = entries[j].key => i = j
  /\ backend = "memory" => Len(entries) <= maxSize
  /\ stored \in [CacheKeys -> Storing]
  /\ \A i \in DOMAIN entries : /\ entries[i].created = stored[entries[i].key].at
                               /\ entries[i].ttl <= stored[entries[i].key].ttl
  /\ order \subseteq CacheKeys \X CacheKeys
  /\ EvictsOldest

CacheRest ==
  /\ backend \in {"memory", "sqlite", "redis", "mongodb"}
  /\ maxSize \in Nat /\ (backend = "memory" => maxSize > 0)
  /\ clock \in 0 .. MaxCacheNow
  /\ source \in [CacheKeys -> 0 .. MaxVersion]
  /\ caller \in [CacheTasks -> CacheCall]
  /\ foreign \subseteq CacheKeys
  /\ floor \in [CacheKeys -> 0 .. MaxVersion]
  /\ \A k \in CacheKeys : floor[k] <= source[k]
  /\ \A t \in CacheTasks : caller[t].step = "store" =>
       (caller[t].value < floor[caller[t].key] => caller[t].key \in late)

CacheInv == CacheEntries /\ CacheRest /\ OldOnlyIfInFlight /\ NeverServedOld

\* What a step leaves of the entries, with the histories that follow it, is in
\* the order it was in.
LEMMA CacheKeeps ==
  ASSUME CacheEntries, NEW I \in SUBSET (DOMAIN entries), entries' = Keeping(entries, I),
         Follow(order, stored), UNCHANGED <<backend, maxSize>>, maxSize \in Nat
  PROVE  /\ CacheEntries'
         /\ \A n \in DOMAIN entries' : \E i \in I : entries'[n] = entries[i]
<1> DEFINE c == Cardinality(I)
           f(n) == Nth(I, n)
<1>1. entries \in Seq(CacheEntry) /\ \A i \in I : entries[i] \in CacheEntry
  <2>1. entries \in Seq(CacheEntry) /\ DOMAIN entries = 1 .. Len(entries)
    BY LenProperties DEF CacheEntries
  <2> QED BY <2>1, ElementOfSeq
<1>2. /\ entries' \in Seq(CacheEntry)
      /\ c \in Nat /\ c <= Len(entries) /\ Len(entries') = c /\ DOMAIN entries' = 1 .. c
      /\ \A k \in 1 .. c : f(k) \in I /\ entries'[k] = entries[f(k)]
      /\ \A k, l \in 1 .. c : k < l => f(k) < f(l)
      /\ \A i \in I : \E k \in 1 .. c : f(k) = i
  BY <1>1, KeepingIs
<1>3. Len(entries) \in Nat /\ DOMAIN entries = 1 .. Len(entries)
  BY <1>1, LenProperties
<1> HIDE DEF c, f
<1>4. \A n \in 1 .. c : /\ f(n) \in DOMAIN entries /\ f(n) \in Int /\ entries'[n] \in CacheEntry
                        /\ entries'[n].key \in CacheKeys /\ entries'[n].key \in Kept
  <2> SUFFICES ASSUME NEW n \in 1 .. c
               PROVE  /\ f(n) \in DOMAIN entries /\ f(n) \in Int /\ entries'[n] \in CacheEntry
                      /\ entries'[n].key \in CacheKeys /\ entries'[n].key \in Kept
    OBVIOUS
  <2>1. f(n) \in DOMAIN entries /\ f(n) \in Int
    BY <1>2, <1>3
  <2>2. entries'[n] \in CacheEntry
    BY <1>1, <1>2
  <2>3. entries'[n].key \in Kept
    BY <1>2 DEF Kept
  <2> QED BY <2>1, <2>2, <2>3 DEF CacheEntry
<1>5. ASSUME NEW n \in 1 .. c, NEW m \in 1 .. c, entries'[n].key = entries'[m].key
      PROVE  n = m
  <2>1. f(n) = f(m)
    BY <1>2, <1>4, <1>5 DEF CacheEntries
  <2>2. n \in Int /\ m \in Int /\ (n < m => f(n) < f(m)) /\ (m < n => f(m) < f(n))
    BY <1>2
  <2> QED BY <1>4, <2>1, <2>2
<1>6. /\ stored' \in [CacheKeys -> Storing]
      /\ \A n \in 1 .. c : stored'[entries'[n].key] = stored[entries[f(n)].key]
  <2>1. CASE CacheKeys = {}
    BY <1>4, <2>1 DEF Follow, Storing
  <2>2. CASE CacheKeys # {}
    <3>1. stored \in [CacheKeys -> Storing] /\ 0 \in 0 .. MaxCacheNow
      BY CacheAssumption DEF CacheEntries
    <3> QED BY <1>2, <1>4, <3>1 DEF Follow, Storing, Never
  <2> QED BY <2>1, <2>2
<1>7. order' \subseteq CacheKeys \X CacheKeys
  BY DEF CacheEntries, Follow
<1>8. EvictsOldest'
  <2> SUFFICES ASSUME backend = "memory", NEW a \in CacheKeys, NEW b \in CacheKeys
               PROVE  <<a, b>> \in order' <=>
                        \E n, m \in DOMAIN entries' :
                           n < m /\ entries'[n].key = a /\ entries'[m].key = b
    BY DEF EvictsOldest
  <2>1. /\ <<a, b>> \in order' <=> <<a, b>> \in order /\ a \in Kept /\ b \in Kept
        /\ <<a, b>> \in order <=>
             \E i, j \in DOMAIN entries : i < j /\ entries[i].key = a /\ entries[j].key = b
    BY DEF Follow, EvictsOldest, CacheEntries
  <2>2. ASSUME <<a, b>> \in order'
        PROVE  \E n, m \in 1 .. c : n < m /\ entries'[n].key = a /\ entries'[m].key = b
    <3>1. PICK i \in DOMAIN entries, j \in DOMAIN entries :
               i < j /\ entries[i].key = a /\ entries[j].key = b
      BY <2>1, <2>2
    <3>2. PICK n \in 1 .. c, m \in 1 .. c : entries'[n].key = a /\ entries'[m].key = b
      BY <1>2, <2>1, <2>2 DEF Kept
    <3>3. f(n) = i /\ f(m) = j
      BY <1>2, <1>4, <3>1, <3>2 DEF CacheEntries
    <3>4. n < m
      BY <1>2, <1>3, <1>4, <3>1, <3>2, <3>3
    <3> QED BY <3>2, <3>4
  <2>3. ASSUME NEW n \in 1 .. c, NEW m \in 1 .. c, n < m, entries'[n].key = a, entries'[m].key = b
        PROVE  <<a, b>> \in order'
    BY <1>2, <1>4, <2>1, <2>3
  <2> QED BY <1>2, <2>2, <2>3
<1>9. \A n \in 1 .. c : /\ entries'[n].created = stored'[entries'[n].key].at
                        /\ entries'[n].ttl <= stored'[entries'[n].key].ttl
  BY <1>2, <1>4, <1>6 DEF CacheEntries
<1>10. backend' = "memory" => Len(entries') <= maxSize'
  BY <1>2, <1>3 DEF CacheEntries
<1>11. CacheEntries'
  BY <1>2, <1>5, <1>6, <1>7, <1>8, <1>9, <1>10 DEF CacheEntries
<1> QED BY <1>2, <1>11

\* The same for a step that puts one entry behind those it leaves.
LEMMA CachePuts ==
  ASSUME CacheEntries, NEW I \in SUBSET (DOMAIN entries), NEW e \in CacheEntry,
         entries' = Append(Keeping(entries, I), e),
         \A i \in I : entries[i].key # e.key,
         NEW st \in [CacheKeys -> Storing], st[e.key].at = e.created, e.ttl <= st[e.key].ttl,
         \A k \in CacheKeys \ {e.key} : st[k] = stored[k],
         Follow(MovedToEnd(order, e.key), st), UNCHANGED <<backend, maxSize>>, maxSize \in Nat,
         backend = "memory" => Cardinality(I) < maxSize
  PROVE  /\ CacheEntries'
         /\ \A n \in DOMAIN entries' : entries'[n] = e \/ \E i \in I : entries'[n] = entries[i]
<1> DEFINE c == Cardinality(I)
           f(n) == Nth(I, n)
           rest == Keeping(entries, I)
<1>1. entries \in Seq(CacheEntry) /\ \A i \in I : entries[i] \in CacheEntry
  <2>1. entries \in Seq(CacheEntry) /\ DOMAIN entries = 1 .. Len(entries)
    BY LenProperties DEF CacheEntries
  <2> QED BY <2>1, ElementOfSeq
<1>2. /\ rest \in Seq(CacheEntry)
      /\ c \in Nat /\ Len(rest) = c
      /\ \A k \in 1 .. c : f(k) \in I /\ rest[k] = entries[f(k)]
      /\ \A k, l \in 1 .. c : k < l => f(k) < f(l)
      /\ \A i \in I : \E k \in 1 .. c : f(k) = i
  BY <1>1, KeepingIs
<1>3. Len(entries) \in Nat /\ DOMAIN entries = 1 .. Len(entries)
  BY <1>1, LenProperties
<1> HIDE DEF c, f, rest
<1>4. /\ entries' \in Seq(CacheEntry) /\ Len(entries') = c + 1 /\ DOMAIN entries' = 1 .. (c + 1)
      /\ \A n \in 1 .. c : entries'[n] = rest[n]
      /\ entries'[c + 1] = e
  <2>1. entries' = Append(rest, e)
    BY DEF rest
  <2> QED BY <1>2, <2>1, AppendProperties, LenProperties
<1>5. /\ \A n \in 1 .. c : /\ n \in 1 .. (c + 1) /\ n < c + 1
                           /\ f(n) \in I /\ f(n) \in DOMAIN entries /\ f(n) \in Int
                           /\ entries'[n] = entries[f(n)] /\ entries'[n].key # e.key
      /\ \A n \in 1 .. (c + 1) : n \in 1 .. c \/ n = c + 1
  BY <1>2, <1>3, <1>4
<1>6. \A n \in 1 .. (c + 1) : entries'[n].key \in CacheKeys /\ entries'[n].key \in Kept
  <2> SUFFICES ASSUME NEW n \in 1 .. (c + 1)
               PROVE  entries'[n].key \in CacheKeys /\ entries'[n].key \in Kept
    OBVIOUS
  <2>1. entries'[n] \in CacheEntry
    BY <1>4, ElementOfSeq
  <2>2. entries'[n].key \in Kept
    BY <1>4 DEF Kept
  <2> QED BY <2>1, <2>2 DEF CacheEntry
<1>7. ASSUME NEW n \in 1 .. (c + 1), NEW m \in 1 .. (c + 1), entries'[n].key = entries'[m].key
      PROVE  n = m
  <2>1. CASE n \in 1 .. c /\ m \in 1 .. c
    <3>1. f(n) = f(m)
      <4>1. \A i, j \in DOMAIN entries : entries[i].key = entries[j].key => i = j
        BY DEF CacheEntries
      <4>2. /\ f(n) \in DOMAIN entries /\ f(m) \in DOMAIN entries
            /\ entries'[n] = entries[f(n)] /\ entries'[m] = entries[f(m)]
        BY <1>5, <2>1
      <4> QED BY <1>7, <4>1, <4>2
    <3> QED BY <1>2, <1>5, <2>1, <3>1
  <2> QED BY <1>4, <1>5, <1>7, <2>1
<1>8. /\ stored' \in [CacheKeys -> Storing]
      /\ \A n \in 1 .. (c + 1) : stored'[entries'[n].key] = st[entries'[n].key]
  <2>1. 0 \in 0 .. MaxCacheNow
    BY CacheAssumption
  <2> QED BY <1>6, <2>1 DEF Follow, Storing, Never
<1>9. \A n \in 1 .. (c + 1) : /\ entries'[n].created = stored'[entries'[n].key].at
                              /\ entries'[n].ttl <= stored'[entries'[n].key].ttl
  BY <1>4, <1>5, <1>6, <1>8 DEF CacheEntries
<1>10. order' \subseteq CacheKeys \X CacheKeys
  BY <1>4, <1>6 DEF CacheEntries, Follow, MovedToEnd, CacheEntry
<1>11. EvictsOldest'
  <2> SUFFICES ASSUME backend = "memory", NEW a \in CacheKeys, NEW b \in CacheKeys
               PROVE  <<a, b>> \in order' <=>
                        \E n, m \in DOMAIN entries' :
                           n < m /\ entries'[n].key = a /\ entries'[m].key = b
    BY DEF EvictsOldest
  <2>1. /\ <<a, b>> \in order' <=>
             /\ a \in Kept /\ b \in Kept
             /\ \/ <<a, b>> \in order /\ a # e.key /\ b # e.key
                \/ a # e.key /\ b = e.key
        /\ <<a, b>> \in order <=>
             \E i, j \in DOMAIN entries : i < j /\ entries[i].key = a /\ entries[j].key = b
    <3>1. <<a, b>> \in order' <=> a \in Kept /\ b \in Kept /\ <<a, b>> \in MovedToEnd(order, e.key)
      BY DEF Follow
    <3>2. MovedToEnd(order, e.key) =
            {p \in order : e.key \notin {p[1], p[2]}} \cup {<<x, e.key>> : x \in CacheKeys \ {e.key}}
      BY DEF MovedToEnd
    <3>3. <<a, b>> \in {p \in order : e.key \notin {p[1], p[2]}}
            <=> <<a, b>> \in order /\ a # e.key /\ b # e.key
      OBVIOUS
    <3>4. <<a, b>> \in {<<x, e.key>> : x \in CacheKeys \ {e.key}} <=> a # e.key /\ b = e.key
      OBVIOUS
    <3>5. <<a, b>> \in order <=>
            \E i, j \in DOMAIN entries : i < j /\ entries[i].key = a /\ entries[j].key = b
      BY DEF EvictsOldest, CacheEntries
    <3> QED BY <3>1, <3>2, <3>3, <3>4, <3>5
  <2>2. ASSUME <<a, b>> \in order'
        PROVE  \E n, m \in 1 .. (c + 1) : n < m /\ entries'[n].key = a /\ entries'[m].key = b
    <3>1. PICK n \in 1 .. (c + 1), m \in 1 .. (c + 1) : entries'[n].key = a /\ entries'[m].key = b
      BY <1>4, <2>1, <2>2 DEF Kept
    <3>2. n \in 1 .. c
      BY <1>4, <1>5, <2>1, <2>2, <3>1
    <3>3. CASE m = c + 1
      BY <1>5, <3>1, <3>2, <3>3
    <3>4. CASE m \in 1 .. c
      <4>1. b # e.key
        BY <1>5, <3>1, <3>4
      <4>2. PICK i \in DOMAIN entries, j \in DOMAIN entries :
                 i < j /\ entries[i].key = a /\ entries[j].key = b
        BY <2>1, <2>2, <4>1
      <4>3. f(n) = i /\ f(m) = j
        <5>1. f(n) \in DOMAIN entries /\ entries[f(n)].key = entries[i].key
          BY <1>5, <3>1, <3>2, <4>2
        <5>2. f(m) \in DOMAIN entries /\ entries[f(m)].key = entries[j].key
          BY <1>5, <3>1, <3>4, <4>2
        <5> QED BY <4>2, <5>1, <5>2 DEF CacheEntries
      <4>4. n < m
        BY <1>2, <1>3, <1>5, <3>2, <3>4, <4>2, <4>3
      <4> QED BY <3>1, <4>4
    <3> QED BY <1>5, <3>3, <3>4
  <2>3. ASSUME NEW n \in 1 .. (c + 1), NEW m \in 1 .. (c + 1), n < m,
               entries'[n].key = a, entries'[m].key = b
        PROVE  <<a, b>> \in order'
    <3>1. n \in 1 .. c
      BY <1>2, <1>5, <2>3
    <3>2. a \in Kept /\ b \in Kept /\ a # e.key
      BY <1>5, <1>6, <2>3, <3>1
    <3>3. CASE m = c + 1
      BY <1>4, <2>1, <2>3, <3>2, <3>3
    <3>4. CASE m \in 1 .. c
      BY <1>2, <1>5, <2>1, <2>3, <3>1, <3>2, <3>4
    <3> QED BY <1>5, <3>3, <3>4
  <2> QED BY <1>4, <2>2, <2>3
<1>12. backend' = "memory" => Len(entries') <= maxSize'
  BY <1>2, <1>4 DEF c
<1>13. CacheEntries'
  BY <1>4, <1>7, <1>8, <1>9, <1>10, <1>11, <1>12 DEF CacheEntries
<1> QED BY <1>4, <1>5, <1>13

LEMMA FewerThan ==
  ASSUME NEW n \in Nat, NEW I \in SUBSET (1 .. n), NEW i \in (1 .. n) \ I
  PROVE  Cardinality(I) < n
<1>1. IsFiniteSet(1 .. n) /\ Cardinality(1 .. n) = n
  BY FS_Interval
<1>2. /\ IsFiniteSet((1 .. n) \ {i})
      /\ Cardinality((1 .. n) \ {i}) = n - 1
  BY <1>1, FS_RemoveElement
<1>3. I \subseteq (1 .. n) \ {i}
  OBVIOUS
<1>4. Cardinality(I) <= n - 1 /\ Cardinality(I) \in Nat
  <2>1. IsFiniteSet(I) /\ Cardinality(I) <= Cardinality((1 .. n) \ {i})
    BY <1>2, <1>3, FS_Subset
  <2> QED BY <1>2, <2>1, FS_CardinalityType
<1> QED BY <1>4

LEMMA KeepingNone ==
  ASSUME NEW S, NEW s \in Seq(S)
  PROVE  Keeping(s, {}) = <<>>
<1>1. Keeping(s, {}) \in Seq(S) /\ Len(Keeping(s, {})) = Cardinality({})
  BY KeepingIs
<1>2. Cardinality({}) = 0
  BY FS_EmptySet
<1> QED BY <1>1, <1>2, EmptySeq

LEMMA CacheStarts ==
  ASSUME CacheInit
  PROVE  CacheInv
<1>1. 0 \in 0 .. MaxCacheNow /\ 0 \in 0 .. MaxVersion /\ \A n \in MaxSizes : n \in Nat /\ n > 0
  BY CacheAssumption
<1>2. entries = <<>> /\ entries \in Seq(CacheEntry) /\ DOMAIN entries = {} /\ Len(entries) = 0
  <2>1. entries = <<>>
    BY DEF CacheInit
  <2> QED BY <2>1, EmptySeq
<1>3. CacheEntries
  BY <1>1, <1>2 DEF CacheInit, CacheEntries, Storing, Never, EvictsOldest
<1>4. foreign \subseteq CacheKeys
  BY CacheAssumption DEF CacheInit
<1>5. CacheRest
  BY <1>1, <1>4 DEF CacheInit, CacheRest, CacheCall, Idle
<1> QED BY <1>2, <1>3, <1>5 DEF CacheInit, CacheInv, OldOnlyIfInFlight, NeverServedOld

\* What a backend's set() leaves: nothing has changed, or the entry is the last
\* one and no other has its key.
LEMMA SetPuts ==
  ASSUME CacheInv, NEW k \in CacheKeys, NEW v \in 0 .. MaxVersion, NEW ttl \in CacheTtls
  PROVE  \/ AfterSet(k, v, ttl) = entries
         \/ \E I \in SUBSET (DOMAIN entries), e \in CacheEntry :
              /\ AfterSet(k, v, ttl) = Append(Keeping(entries, I), e)
              /\ e.key = k /\ e.value = v /\ e.created = clock /\ e.ttl <= Ttl(ttl)
              /\ \A i \in I : entries[i].key # k
              /\ backend = "memory" => Cardinality(I) < maxSize
<1> DEFINE I0 == {i \in DOMAIN entries : entries[i].key # k}
           e0 == Entry(k, v, Ttl(ttl))
<1>1. /\ Ttl(ttl) \in Nat /\ Ttl(ttl) > 0
      /\ clock \in 0 .. MaxCacheNow
      /\ entries \in Seq(CacheEntry) /\ Len(entries) \in Nat /\ DOMAIN entries = 1 .. Len(entries)
      /\ backend \in {"memory", "sqlite", "redis", "mongodb"}
      /\ maxSize \in Nat
      /\ backend = "memory" => maxSize > 0 /\ Len(entries) <= maxSize
  BY CacheAssumption, LenProperties DEF Ttl, CacheInv, CacheRest, CacheEntries
<1>2. e0 \in CacheEntry /\ e0.key = k /\ e0.value = v /\ e0.created = clock /\ e0.ttl <= Ttl(ttl)
  BY <1>1 DEF Entry, CacheEntry
<1>3. I0 \in SUBSET (DOMAIN entries) /\ \A i \in I0 : entries[i].key # k
  OBVIOUS
<1>4. CASE backend = "memory"
  <2>1. AfterSet(k, v, ttl) = MemorySet(k, v, Ttl(ttl))
    BY <1>4 DEF AfterSet
  <2>2. CASE Present(k)
    <3>1. PICK i \in DOMAIN entries : entries[i].key = k
      BY <2>2 DEF Present
    <3>2. Cardinality(I0) < Len(entries)
      BY <1>1, <3>1, FewerThan
    <3>3. Cardinality(I0) < maxSize
      <4>1. Cardinality(I0) \in Nat
        BY <1>1, KeepingIs, ElementOfSeq
      <4> QED BY <1>1, <1>4, <3>2, <4>1
    <3>4. AfterSet(k, v, ttl) = Append(Keeping(entries, I0), e0)
      BY <2>1, <2>2 DEF MemorySet, Without
    <3> QED BY <1>2, <1>3, <3>3, <3>4
  <2>3. CASE ~Present(k) /\ Len(entries) < maxSize
    <3>1. Cardinality(DOMAIN entries) = Len(entries)
      <4>1. \A n \in Nat : Cardinality(1 .. n) = n
        BY FS_Interval
      <4> QED BY <1>1, <4>1
    <3>2. AfterSet(k, v, ttl) = Append(Keeping(entries, DOMAIN entries), e0)
      BY <1>1, <2>1, <2>3, KeepingAll DEF MemorySet
    <3>3. \A i \in DOMAIN entries : entries[i].key # k
      BY <2>3 DEF Present
    <3> QED BY <1>2, <2>3, <3>1, <3>2, <3>3
  <2>4. CASE ~Present(k) /\ ~(Len(entries) < maxSize)
    <3> DEFINE I1 == {i \in DOMAIN entries : i > Len(entries) - maxSize + 1}
    <3>1. Len(entries) = maxSize /\ 1 \in 1 .. Len(entries) /\ 1 \notin I1
      <4>1. maxSize > 0 /\ Len(entries) <= maxSize /\ ~(Len(entries) < maxSize)
            /\ Len(entries) \in Nat /\ maxSize \in Nat
        BY <1>1, <1>4, <2>4
      <4>2. \A n, m \in Nat : n > 0 /\ m <= n /\ ~(m < n) => m = n /\ 1 \in 1 .. m /\ ~(1 > m - n + 1)
        OBVIOUS
      <4> QED BY <4>1, <4>2
    <3>2. Cardinality(I1) < maxSize
      BY <1>1, <3>1, FewerThan
    <3>3. AfterSet(k, v, ttl) = Append(Keeping(entries, I1), e0)
      BY <2>1, <2>4 DEF MemorySet
    <3>4. \A i \in I1 : entries[i].key # k
      BY <2>4 DEF Present
    <3> QED BY <1>2, <3>2, <3>3, <3>4
  <2> QED BY <2>2, <2>3, <2>4
<1>5. CASE backend = "sqlite"
  <2>1. AfterSet(k, v, ttl) = Append(Keeping(entries, I0), e0)
    BY <1>5 DEF AfterSet, SqliteSet, Without
  <2> QED BY <1>2, <1>3, <1>5, <2>1
<1>6. CASE backend = "redis"
  <2> DEFINE whole == (Ttl(ttl) \div 2) * 2
             e1 == Entry(k, v, whole)
  <2>1. CASE Ttl(ttl) < 2
    BY <1>6, <2>1 DEF AfterSet, RedisSet
  <2>2. CASE ~(Ttl(ttl) < 2)
    <3>1. whole \in Nat /\ whole > 0 /\ whole <= Ttl(ttl)
      BY <1>1, <2>2
    <3>2. AfterSet(k, v, ttl) = Append(Keeping(entries, I0), e1)
      BY <1>6, <2>2 DEF AfterSet, RedisSet, Without
    <3> HIDE DEF whole
    <3>3. e1 \in CacheEntry /\ e1.key = k /\ e1.value = v /\ e1.created = clock /\ e1.ttl <= Ttl(ttl)
      BY <1>1, <3>1 DEF Entry, CacheEntry
    <3> QED BY <1>3, <1>6, <3>2, <3>3
  <2> QED BY <2>1, <2>2
<1>7. CASE backend = "mongodb"
  <2>1. AfterSet(k, v, ttl) = IF k \in foreign THEN entries ELSE Append(Keeping(entries, I0), e0)
    BY <1>7 DEF AfterSet, MongoSet, Without
  <2> QED BY <1>2, <1>3, <1>7, <2>1
<1> QED BY <1>1, <1>4, <1>5, <1>6, <1>7

\* A step that leaves some entries, and the versions and histories of removals.
LEMMA CacheLeaves ==
  ASSUME CacheInv, NEW I \in SUBSET (DOMAIN entries), entries' = Keeping(entries, I),
         Follow(order, stored), CacheRest',
         UNCHANGED <<backend, maxSize, floor, late, servedOld>>
  PROVE  CacheInv'
<1>1. /\ CacheEntries'
      /\ \A n \in DOMAIN entries' : \E i \in I : entries'[n] = entries[i]
  BY CacheKeeps DEF CacheInv, CacheRest
<1>2. OldOnlyIfInFlight'
  BY <1>1 DEF OldOnlyIfInFlight, CacheInv
<1> QED BY <1>1, <1>2 DEF CacheInv, NeverServedOld

LEMMA CacheLooks ==
  ASSUME CacheInv, NEW t \in CacheTasks, NEW k \in CacheKeys, NEW ttl \in CacheTtls, Look(t, k, ttl)
  PROVE  CacheInv'
<1> DEFINE I0 == {i \in DOMAIN entries : entries[i].key # k}
           j == CHOOSE i \in DOMAIN entries : entries[i].key = k
<1>1. /\ entries \in Seq(CacheEntry) /\ Len(entries) \in Nat /\ DOMAIN entries = 1 .. Len(entries)
      /\ backend \in {"memory", "sqlite", "redis", "mongodb"} /\ maxSize \in Nat
      /\ clock \in 0 .. MaxCacheNow /\ clock \in Int
      /\ caller \in [CacheTasks -> CacheCall]
      /\ I0 \in SUBSET (DOMAIN entries)
      /\ stored \in [CacheKeys -> Storing]
  BY CacheAssumption, LenProperties DEF CacheInv, CacheRest, CacheEntries
<1>2. CASE Hit(k)
  <2>1. CacheRest'
    BY <1>2 DEF Look, CacheInv, CacheRest
  <2>2. /\ j \in DOMAIN entries /\ entries[j].key = k /\ With(k) = entries[j]
        /\ With(k) \in CacheEntry /\ ~Expired(entries[j])
    <3>1. j \in DOMAIN entries /\ entries[j].key = k
      BY <1>2 DEF Hit, Present
    <3> QED BY <1>1, <1>2, <3>1, ElementOfSeq DEF With, Hit
  <2> HIDE DEF j
  <2>3. entries[j].created = stored[k].at /\ entries[j].ttl <= stored[k].ttl
    BY <2>2 DEF CacheInv, CacheEntries
  <2>4. stored[k].at \in Nat /\ stored[k].ttl \in Nat /\ entries[j].created \in Nat /\ entries[j].ttl \in Nat
    BY <1>1, <2>2 DEF Storing, CacheEntry
  <2>5. NeverServedOld'
    <3>1. ~(clock > stored[k].at + stored[k].ttl)
      BY <1>1, <2>2, <2>3, <2>4 DEF Expired
    <3> QED BY <1>2, <3>1 DEF Look, CacheInv, NeverServedOld
  <2>6. CASE backend = "memory"
    <3>1. Cardinality(I0) < maxSize
      <4>1. Cardinality(I0) < Len(entries) /\ Cardinality(I0) \in Nat
        BY <1>1, <2>2, FewerThan, KeepingIs, ElementOfSeq
      <4> QED BY <1>1, <2>6, <4>1 DEF CacheInv, CacheEntries
    <3>2. /\ entries' = Append(Keeping(entries, I0), With(k))
          /\ Follow(MovedToEnd(order, k), stored)
      BY <1>2, <2>6 DEF Look, AfterGet, MemoryGet, Without
    <3>3. /\ CacheEntries'
          /\ \A n \in DOMAIN entries' : entries'[n] = With(k) \/ \E i \in I0 : entries'[n] = entries[i]
      BY <1>1, <2>2, <2>3, <3>1, <3>2, CachePuts DEF Look, CacheInv
    <3>4. OldOnlyIfInFlight'
      BY <2>2, <3>3 DEF Look, CacheInv, OldOnlyIfInFlight
    <3> QED BY <2>1, <2>5, <3>3, <3>4 DEF CacheInv
  <2>7. CASE backend # "memory"
    <3>1. entries' = entries /\ Follow(order, stored)
      BY <1>1, <1>2, <2>7 DEF Look, AfterGet, SqliteGet, MongoGet, MovedToEnd
    <3>2. CacheEntries'
      BY <1>1, <3>1, CacheKeeps, KeepingAll DEF Look, CacheInv
    <3>3. OldOnlyIfInFlight'
      BY <3>1 DEF Look, CacheInv, OldOnlyIfInFlight
    <3> QED BY <2>1, <2>5, <3>2, <3>3 DEF CacheInv
  <2> QED BY <2>6, <2>7
<1>3. CASE ~Hit(k)
  <2>1. entries' = Keeping(entries, I0) /\ Follow(order, stored)
    BY <1>1, <1>3 DEF Look, AfterGet, MemoryGet, SqliteGet, MongoGet, Without
  <2>2. /\ caller' = [caller EXCEPT ![t] = Waiting("compute", k, ttl)]
        /\ UNCHANGED <<backend, maxSize, clock, source, foreign, floor, late, servedOld>>
    BY <1>3 DEF Look
  <2>3. /\ Waiting("compute", k, ttl) \in CacheCall
        /\ Waiting("compute", k, ttl).step = "compute"
    BY DEF CacheCall, Waiting
  <2>4. CacheRest'
    BY <2>2, <2>3 DEF CacheInv, CacheRest
  <2> QED BY <2>1, <2>2, <2>4, CacheLeaves
<1> QED BY <1>2, <1>3

LEMMA CacheComputes ==
  ASSUME CacheInv, NEW t \in CacheTasks, Compute(t)
  PROVE  CacheInv'
<1> DEFINE c == caller[t]
           d == [step |-> "store", key |-> c.key, ttl |-> c.ttl, value |-> source[c.key]]
<1>1. caller \in [CacheTasks -> CacheCall] /\ c \in CacheCall /\ c.step = "compute"
      /\ source \in [CacheKeys -> 0 .. MaxVersion]
  BY DEF CacheInv, CacheRest, Compute
<1>2. c \in [step : {"compute"}, key : CacheKeys, ttl : CacheTtls]
  BY <1>1 DEF CacheCall, Idle
<1>3. /\ d \in CacheCall /\ d.key \in CacheKeys /\ d.value = source[d.key]
      /\ caller' = [caller EXCEPT ![t] = d]
      /\ UNCHANGED <<backend, maxSize, entries, clock, source, foreign, cacheHistory>>
  BY <1>1, <1>2 DEF CacheCall, Compute
<1>4. ~(d.value < floor[d.key])
  <2>1. floor[d.key] <= source[d.key] /\ floor[d.key] \in Int /\ source[d.key] \in Int
    BY <1>3, CacheAssumption DEF CacheInv, CacheRest
  <2> QED BY <1>3, <2>1
<1> HIDE DEF c, d
<1>5. CacheRest'
  BY <1>1, <1>3, <1>4 DEF CacheInv, CacheRest, cacheHistory
<1> QED BY <1>3, <1>5 DEF CacheInv, CacheEntries, OldOnlyIfInFlight, NeverServedOld, EvictsOldest, cacheHistory

LEMMA CacheStores ==
  ASSUME CacheInv, NEW t \in CacheTasks, Store(t)
  PROVE  CacheInv'
<1> DEFINE c == caller[t]
           st == [stored EXCEPT ![c.key] = [at |-> clock, ttl |-> Ttl(c.ttl)]]
<1>1. caller \in [CacheTasks -> CacheCall] /\ c \in CacheCall /\ c.step = "store"
      /\ stored \in [CacheKeys -> Storing] /\ clock \in 0 .. MaxCacheNow /\ maxSize \in Nat
  BY DEF CacheInv, CacheRest, CacheEntries, Store
<1>2. c \in [step : {"store"}, key : CacheKeys, ttl : CacheTtls, value : 0 .. MaxVersion]
  BY <1>1 DEF CacheCall, Idle
<1>3. c.key \in CacheKeys /\ c.ttl \in CacheTtls /\ c.value \in 0 .. MaxVersion
  BY <1>2
<1>4. /\ caller' = [caller EXCEPT ![t] = Idle]
      /\ entries' = AfterSet(c.key, c.value, c.ttl)
      /\ IF entries' = entries THEN UNCHANGED <<order, stored>>
         ELSE Follow(MovedToEnd(order, c.key), st)
      /\ UNCHANGED <<backend, maxSize, clock, source, foreign, floor, late, servedOld>>
  BY DEF Store
<1>5. c.value < floor[c.key] => c.key \in late
  BY <1>1 DEF CacheInv, CacheRest
<1> HIDE DEF c
<1>6. CacheRest'
  BY <1>1, <1>4 DEF CacheInv, CacheRest, CacheCall, Idle
<1>7. CASE entries' = entries
  BY <1>4, <1>6, <1>7 DEF CacheInv, CacheEntries, OldOnlyIfInFlight, NeverServedOld, EvictsOldest
<1>8. CASE entries' # entries
  <2>1. PICK I \in SUBSET (DOMAIN entries), e \in CacheEntry :
              /\ entries' = Append(Keeping(entries, I), e)
              /\ e.key = c.key /\ e.value = c.value /\ e.created = clock /\ e.ttl <= Ttl(c.ttl)
              /\ \A i \in I : entries[i].key # c.key
              /\ backend = "memory" => Cardinality(I) < maxSize
    BY <1>3, <1>4, <1>8, SetPuts
  <2>2. /\ st \in [CacheKeys -> Storing] /\ st[e.key].at = e.created /\ e.ttl <= st[e.key].ttl
        /\ \A k \in CacheKeys \ {e.key} : st[k] = stored[k]
    <3>1. Ttl(c.ttl) \in Nat
      BY <1>3, CacheAssumption DEF Ttl
    <3> QED BY <1>1, <1>3, <2>1, <3>1 DEF Storing
  <2> HIDE DEF st
  <2>3. /\ CacheEntries'
        /\ \A n \in DOMAIN entries' : entries'[n] = e \/ \E i \in I : entries'[n] = entries[i]
    BY <1>1, <1>4, <1>8, <2>1, <2>2, CachePuts DEF CacheInv
  <2>4. OldOnlyIfInFlight'
    BY <1>4, <1>5, <2>1, <2>3 DEF CacheInv, OldOnlyIfInFlight
  <2> QED BY <1>4, <1>6, <2>3, <2>4 DEF CacheInv, NeverServedOld
<1> QED BY <1>7, <1>8

LEMMA CacheInvalidates ==
  ASSUME CacheInv, NEW keys \in SUBSET CacheKeys, Invalidate(keys)
  PROVE  CacheInv'
<1> DEFINE I == {i \in DOMAIN entries : entries[i].key \notin keys}
<1>1. /\ entries' = Keeping(entries, I) /\ I \in SUBSET (DOMAIN entries)
      /\ floor' = [k \in CacheKeys |-> IF k \in keys THEN source[k] ELSE floor[k]]
      /\ late' = (late \ keys) \cup
           {k \in keys : \E t \in CacheTasks : caller[t].step # "idle" /\ caller[t].key = k}
      /\ Follow(order, stored)
      /\ UNCHANGED <<backend, maxSize, clock, source, caller, foreign, servedOld>>
  BY DEF Invalidate, Remaining
<1>2. /\ CacheEntries'
      /\ \A n \in DOMAIN entries' : \E i \in I : entries'[n] = entries[i]
  BY <1>1, CacheKeeps DEF CacheInv, CacheRest
<1>3. \A i \in DOMAIN entries : entries[i].key \in CacheKeys
  <2>1. entries \in Seq(CacheEntry)
    BY DEF CacheInv, CacheEntries
  <2>2. \A i \in DOMAIN entries : entries[i] \in CacheEntry
    BY <2>1, LenProperties, ElementOfSeq
  <2> QED BY <2>2 DEF CacheEntry
<1>4. OldOnlyIfInFlight'
  BY <1>1, <1>2, <1>3 DEF CacheInv, OldOnlyIfInFlight
<1>5. /\ floor' \in [CacheKeys -> 0 .. MaxVersion]
      /\ \A k \in CacheKeys : floor'[k] <= source[k]
  BY <1>1, CacheAssumption DEF CacheInv, CacheRest
<1>6. ASSUME NEW t \in CacheTasks, caller[t].step = "store", caller[t].value < floor'[caller[t].key]
      PROVE  caller[t].key \in late'
  <2>1. caller[t].key \in CacheKeys
    BY <1>6 DEF CacheInv, CacheRest, CacheCall, Idle
  <2>2. CASE caller[t].key \in keys
    BY <1>1, <1>6, <2>2
  <2>3. CASE caller[t].key \notin keys
    BY <1>1, <1>6, <2>1, <2>3 DEF CacheInv, CacheRest
  <2> QED BY <2>2, <2>3
<1>7. CacheRest'
  BY <1>1, <1>5, <1>6 DEF CacheInv, CacheRest
<1> QED BY <1>1, <1>2, <1>4, <1>7 DEF CacheInv, NeverServedOld

LEMMA CacheInductive ==
  ASSUME CacheInv, [CacheNext]_cacheVars
  PROVE  CacheInv'
<1>1. CASE UNCHANGED cacheVars
  BY <1>1 DEF cacheVars, CacheInv, CacheEntries, CacheRest, OldOnlyIfInFlight, NeverServedOld, EvictsOldest
<1>2. ASSUME NEW t \in CacheTasks, NEW k \in CacheKeys, NEW ttl \in CacheTtls, Look(t, k, ttl)
      PROVE  CacheInv'
  BY <1>2, CacheLooks
<1>3. ASSUME NEW t \in CacheTasks, Compute(t) \/ Store(t) PROVE CacheInv'
  BY <1>3, CacheComputes, CacheStores
<1>4. ASSUME NEW k \in CacheKeys, Invalidate({k}) PROVE CacheInv'
  BY <1>4, CacheInvalidates
<1>5. CASE Invalidate(CacheKeys)
  BY <1>5, CacheInvalidates
<1>6. ASSUME NEW k \in CacheKeys, SourceChanges(k) PROVE CacheInv'
  <2>1. /\ source[k] < MaxVersion /\ source' = [source EXCEPT ![k] = @ + 1]
        /\ UNCHANGED <<backend, maxSize, entries, clock, caller, foreign, cacheHistory>>
    BY <1>6 DEF SourceChanges
  <2>2. source \in [CacheKeys -> 0 .. MaxVersion] /\ floor \in [CacheKeys -> 0 .. MaxVersion]
        /\ \A x \in CacheKeys : floor[x] <= source[x]
    BY DEF CacheInv, CacheRest
  <2>3. source[k] \in 0 .. MaxVersion /\ floor[k] \in 0 .. MaxVersion /\ floor[k] <= source[k]
    BY <2>2
  <2>4. source[k] + 1 \in 0 .. MaxVersion /\ floor[k] <= source[k] + 1
    BY <2>1, <2>3, CacheAssumption
  <2>5. source' \in [CacheKeys -> 0 .. MaxVersion] /\ \A x \in CacheKeys : floor[x] <= source'[x]
    BY <2>1, <2>2, <2>4
  <2> QED BY <2>1, <2>5 DEF cacheHistory, CacheInv, CacheEntries, CacheRest, OldOnlyIfInFlight,
                            NeverServedOld, EvictsOldest
<1>7. CASE Cleanup
  <2>1. \E I \in SUBSET (DOMAIN entries) : entries' = Keeping(entries, I)
    <3>1. CASE backend = "mongodb"
      BY <1>7, <3>1, KeepingAll DEF Cleanup, CacheInv, CacheEntries
    <3>2. CASE backend # "mongodb"
      BY <1>7, <3>2 DEF Cleanup
    <3> QED BY <3>1, <3>2
  <2>2. CacheRest'
    BY <1>7 DEF Cleanup, CacheInv, CacheRest
  <2> QED BY <1>7, <2>1, <2>2, CacheLeaves DEF Cleanup
<1>8. CASE CacheTick
  <2>1. clock' \in 0 .. MaxCacheNow
    BY <1>8, CacheAssumption DEF CacheTick, CacheInv, CacheRest
  <2> QED BY <1>8, <2>1 DEF CacheTick, cacheHistory, CacheInv, CacheEntries, CacheRest,
                            OldOnlyIfInFlight, NeverServedOld, EvictsOldest
<1>9. CASE Restart
  <2>1. \E I \in SUBSET (DOMAIN entries) : entries' = Keeping(entries, I)
    <3>1. CASE backend = "memory"
      BY <1>9, <3>1, KeepingNone DEF Restart, CacheInv, CacheEntries
    <3>2. CASE backend # "memory"
      BY <1>9, <3>2, KeepingAll DEF Restart, CacheInv, CacheEntries
    <3> QED BY <3>1, <3>2
  <2>2. CacheRest'
    BY <1>9 DEF Restart, CacheInv, CacheRest, CacheCall, Idle
  <2> QED BY <1>9, <2>1, <2>2, CacheLeaves DEF Restart
<1> QED BY <1>1, <1>2, <1>3, <1>4, <1>5, <1>6, <1>7, <1>8, <1>9 DEF CacheNext

LEMMA CacheInvSafe ==
  ASSUME CacheInv
  PROVE  CacheSound /\ OldOnlyIfInFlight /\ CacheTypeOK
<1>1. \A t \in CacheTasks : caller[t].step \in {"idle", "compute", "store"}
  BY DEF CacheInv, CacheRest, CacheCall, Idle
<1>2. IsInjective([i \in DOMAIN entries |-> entries[i].key])
  BY DEF CacheInv, CacheEntries, IsInjective
<1>3. CacheTypeOK
  BY <1>1, <1>2 DEF CacheInv, CacheEntries, CacheRest, CacheTypeOK, CacheEntry
<1> QED BY <1>3 DEF CacheInv, CacheEntries, CacheSound

-----------------------------------------------------------------------------
(***************************************************************************)
(* The batches.  A task that has ended is in the queue of its call or has   *)
(* been collected, and only once.                                           *)
(***************************************************************************)
BatchResult == [index : Items, ok : BOOLEAN]
Errors == {j \in Jobs : job[j] = "error"}

Tasks(st, of, q, s, M) ==
  /\ q \in Seq(Items) /\ s \in Seq(BatchResult)
  /\ st = "new" => \A i \in Items : of[i] = "none"
  /\ \A n \in DOMAIN s : /\ s[n].index \in M
                         /\ of[s[n].index] = IF s[n].ok THEN "ok" ELSE "error"
  /\ \A n, m \in DOMAIN s : s[n].index = s[m].index => n = m
  /\ \A n \in DOMAIN q : /\ q[n] \in M /\ of[q[n]] \in {"ok", "error"}
                         /\ \A m \in DOMAIN s : s[m].index # q[n]
  /\ \A n, m \in DOMAIN q : q[n] = q[m] => n = m
  /\ \A i \in Items : i \notin M => of[i] = "none"
  /\ st = "ended" => Len(s) = Cardinality(M)

JobOf(c) == [i \in Items |-> job[<<c, i>>]]
CallTasks(c) == Tasks(call[c], JobOf(c), doneQueue[c], collected[c], Misses(c))

BatchInv ==
  /\ call \in [Calls -> {"new", "running", "ended", "aborted"}]
  /\ job \in [Jobs -> {"none", "waiting", "running", "ok", "error", "cancelled"}]
  /\ DOMAIN doneQueue = Calls /\ DOMAIN collected = Calls
  /\ errors \in [Calls -> Nat] /\ \A c \in Calls : errors[c] <= Cardinality(Errors)
  /\ projecting \in BOOLEAN /\ cached \in [Calls -> SUBSET Items]
  /\ \A c \in Calls : CallTasks(c)

LEMMA BatchFinite ==
  IsFiniteSet(Jobs) /\ IsFiniteSet(Errors) /\ Cardinality(Errors) \in Nat
  /\ Cardinality(Errors) <= Cardinality(Jobs)
<1>1. IsFiniteSet(Calls) /\ BatchItems \in Nat
  BY BatchAssumption
<1>2. IsFiniteSet(Items)
  BY <1>1, FS_Interval DEF Items
<1>3. IsFiniteSet(Jobs)
  BY <1>1, <1>2, FS_Product DEF Jobs
<1>4. Errors \in SUBSET Jobs
  BY DEF Errors
<1>5. IsFiniteSet(Errors) /\ Cardinality(Errors) <= Cardinality(Jobs)
  BY <1>3, <1>4, FS_Subset
<1> QED BY <1>3, <1>5, FS_CardinalityType

LEMMA BatchStarts ==
  ASSUME BatchInit
  PROVE  BatchInv
<1>1. ASSUME NEW c \in Calls PROVE CallTasks(c)
  <2>1. /\ doneQueue[c] = <<>> /\ collected[c] = <<>> /\ call[c] = "new"
        /\ \A i \in Items : job[<<c, i>>] = "none"
    BY DEF BatchInit, Jobs
  <2>2. /\ <<>> \in Seq(Items) /\ <<>> \in Seq(BatchResult) /\ DOMAIN <<>> = {}
    BY EmptySeq
  <2>3. /\ doneQueue[c] \in Seq(Items) /\ DOMAIN doneQueue[c] = {}
        /\ collected[c] \in Seq(BatchResult) /\ DOMAIN collected[c] = {}
    BY <2>1, <2>2
  <2> QED BY <2>1, <2>3 DEF CallTasks, Tasks, JobOf
<1>2. errors \in [Calls -> Nat] /\ \A c \in Calls : errors[c] <= Cardinality(Errors)
  BY BatchFinite DEF BatchInit
<1> QED BY <1>1, <1>2 DEF BatchInit, BatchInv

\* A step of one call leaves the tasks of another as they are.
LEMMA OtherCall ==
  ASSUME BatchInv, NEW d \in Calls,
         call'[d] = call[d], doneQueue'[d] = doneQueue[d], collected'[d] = collected[d],
         cached' = cached, \A i \in Items : job'[<<d, i>>] = job[<<d, i>>]
  PROVE  CallTasks(d)'
<1>1. Misses(d)' = Misses(d) /\ JobOf(d)' = JobOf(d)
  BY DEF Misses, JobOf
<1> QED BY <1>1 DEF BatchInv, CallTasks

LEMMA BatchBegins ==
  ASSUME BatchInv, NEW c \in Calls, Begin(c)
  PROVE  BatchInv'
<1>1. /\ call[c] = "new" /\ call' = [call EXCEPT ![c] = "running"]
      /\ job' = [j \in Jobs |-> IF j[1] = c /\ j[2] \in Misses(c) THEN "waiting" ELSE job[j]]
      /\ errors' = [errors EXCEPT ![Processor(c)] = 0]
      /\ UNCHANGED <<doneQueue, collected, projecting, cached>>
  BY DEF Begin
<1>2. \A d \in Calls, i \in Items :
        job'[<<d, i>>] = IF d = c /\ i \in Misses(c) THEN "waiting" ELSE job[<<d, i>>]
  BY <1>1 DEF Jobs
<1>3. /\ Tasks("new", JobOf(c), doneQueue[c], collected[c], Misses(c))
      /\ \A i \in Items : job[<<c, i>>] = "none" /\ JobOf(c)[i] = "none"
  <2>1. Tasks("new", JobOf(c), doneQueue[c], collected[c], Misses(c))
    BY <1>1 DEF BatchInv, CallTasks
  <2>2. \A i \in Items : JobOf(c)[i] = job[<<c, i>>]
    BY DEF JobOf
  <2> QED BY <2>1, <2>2 DEF Tasks
<1>4. DOMAIN collected[c] = {} /\ DOMAIN doneQueue[c] = {}
  BY <1>3 DEF Tasks, Misses
<1>5. /\ Misses(c)' = Misses(c) /\ call'[c] = "running" /\ Misses(c) \subseteq Items
      /\ \A i \in Items : JobOf(c)'[i] = IF i \in Misses(c) THEN "waiting" ELSE "none"
  BY <1>1, <1>2, <1>3 DEF Misses, BatchInv, JobOf
<1>6. CallTasks(c)'
  <2>1. Tasks("running", JobOf(c)', doneQueue[c], collected[c], Misses(c))
    BY <1>3, <1>4, <1>5 DEF Tasks
  <2> QED BY <1>1, <1>5, <2>1 DEF CallTasks
<1>7. ASSUME NEW d \in Calls PROVE CallTasks(d)'
  <2>1. CASE d # c
    BY <1>1, <1>2, <2>1, OtherCall DEF BatchInv
  <2> QED BY <1>6, <2>1
<1>8. \A j \in Jobs : job'[j] = "error" <=> job[j] = "error"
  BY <1>1, <1>3 DEF Jobs
<1>9. Errors' = Errors
  BY <1>8 DEF Errors
<1>10. errors' \in [Calls -> Nat] /\ \A d \in Calls : errors'[d] <= Cardinality(Errors)
  <2>1. errors' \in [Calls -> Nat] /\ \A d \in Calls : errors'[d] = errors[d] \/ errors'[d] = 0
    BY <1>1 DEF BatchInv
  <2>2. Cardinality(Errors) \in Nat /\ \A d \in Calls : errors[d] <= Cardinality(Errors)
    BY BatchFinite DEF BatchInv
  <2> QED BY <2>1, <2>2
<1>11. job' \in [Jobs -> {"none", "waiting", "running", "ok", "error", "cancelled"}]
  BY <1>1 DEF BatchInv
<1>12. call' \in [Calls -> {"new", "running", "ended", "aborted"}]
  BY <1>1 DEF BatchInv
<1> QED BY <1>1, <1>7, <1>9, <1>10, <1>11, <1>12 DEF BatchInv

LEMMA BatchAdmits ==
  ASSUME BatchInv, NEW c \in Calls, NEW i \in Items, Admit(c, i)
  PROVE  BatchInv'
<1>1. /\ job[<<c, i>>] = "waiting" /\ job' = [job EXCEPT ![<<c, i>>] = "running"]
      /\ UNCHANGED <<call, doneQueue, collected, errors, projecting, cached>>
  BY DEF Admit
<1>2. \A d \in Calls, k \in Items :
        job'[<<d, k>>] = IF d = c /\ k = i THEN "running" ELSE job[<<d, k>>]
  BY <1>1 DEF BatchInv, Jobs
<1>3. /\ Tasks(call[c], JobOf(c), doneQueue[c], collected[c], Misses(c)) /\ Misses(c)' = Misses(c)
      /\ JobOf(c)[i] = "waiting"
      /\ \A k \in Items : JobOf(c)'[k] = IF k = i THEN "running" ELSE JobOf(c)[k]
      /\ Misses(c) \subseteq Items
  BY <1>1, <1>2 DEF BatchInv, CallTasks, JobOf, Misses
<1>4. /\ \A n \in DOMAIN collected[c] : collected[c][n].index \in Items /\ collected[c][n].index # i
      /\ \A n \in DOMAIN doneQueue[c] : doneQueue[c][n] \in Items /\ doneQueue[c][n] # i
      /\ i \in Misses(c) /\ call[c] # "new"
  BY <1>1, <1>3 DEF Tasks
<1>5. CallTasks(c)'
  <2>1. Tasks(call[c], JobOf(c)', doneQueue[c], collected[c], Misses(c))
    BY <1>3, <1>4 DEF Tasks
  <2> QED BY <1>1, <1>3, <2>1 DEF CallTasks
<1>6. ASSUME NEW d \in Calls PROVE CallTasks(d)'
  <2>1. CASE d # c
    BY <1>1, <1>2, <2>1, OtherCall
  <2> QED BY <1>5, <2>1
<1>7. job' \in [Jobs -> {"none", "waiting", "running", "ok", "error", "cancelled"}]
  BY <1>1 DEF BatchInv
<1>8. Errors' = Errors
  BY <1>1 DEF Errors, BatchInv
<1> QED BY <1>1, <1>6, <1>7, <1>8 DEF BatchInv

LEMMA BatchFinishes ==
  ASSUME BatchInv, NEW c \in Calls, NEW i \in Items, NEW ok \in BOOLEAN, Finish(c, i, ok)
  PROVE  BatchInv'
<1> DEFINE end == IF ok THEN "ok" ELSE "error"
<1>1. /\ job[<<c, i>>] = "running" /\ job' = [job EXCEPT ![<<c, i>>] = end]
      /\ errors' = IF ok \/ projecting THEN errors ELSE [errors EXCEPT ![Processor(c)] = @ + 1]
      /\ doneQueue' = [doneQueue EXCEPT ![c] = Append(@, i)]
      /\ UNCHANGED <<call, collected, projecting, cached>>
  BY DEF Finish
<1>2. \A d \in Calls, k \in Items :
        job'[<<d, k>>] = IF d = c /\ k = i THEN end ELSE job[<<d, k>>]
  BY <1>1 DEF BatchInv, Jobs
<1>3. /\ Tasks(call[c], JobOf(c), doneQueue[c], collected[c], Misses(c)) /\ Misses(c)' = Misses(c)
      /\ JobOf(c)[i] = "running"
      /\ \A k \in Items : JobOf(c)'[k] = IF k = i THEN end ELSE JobOf(c)[k]
      /\ Misses(c) \subseteq Items
  BY <1>1, <1>2 DEF BatchInv, CallTasks, JobOf, Misses
<1>4. /\ \A n \in DOMAIN collected[c] : collected[c][n].index \in Items /\ collected[c][n].index # i
      /\ \A n \in DOMAIN doneQueue[c] : doneQueue[c][n] \in Items /\ doneQueue[c][n] # i
      /\ i \in Misses(c) /\ call[c] # "new"
  BY <1>1, <1>3 DEF Tasks
<1> DEFINE q == doneQueue[c]
<1>5. /\ doneQueue'[c] = Append(q, i) /\ q \in Seq(Items) /\ Len(q) \in Nat /\ DOMAIN q = 1 .. Len(q)
  BY <1>1, <1>3, LenProperties DEF BatchInv, Tasks
<1>6. /\ doneQueue'[c] \in Seq(Items) /\ DOMAIN doneQueue'[c] = 1 .. (Len(q) + 1)
      /\ \A n \in 1 .. Len(q) : doneQueue'[c][n] = q[n]
      /\ doneQueue'[c][Len(q) + 1] = i
  <2> HIDE DEF q
  <2> QED BY <1>5, AppendProperties, LenProperties
<1>7. \A n \in DOMAIN doneQueue'[c] :
        \/ n \in DOMAIN doneQueue[c] /\ doneQueue'[c][n] = doneQueue[c][n]
        \/ n = Len(q) + 1 /\ doneQueue'[c][n] = i
  BY <1>5, <1>6
<1>8. /\ \A n \in DOMAIN doneQueue'[c] :
           /\ doneQueue'[c][n] \in Misses(c) /\ JobOf(c)'[doneQueue'[c][n]] \in {"ok", "error"}
           /\ \A m \in DOMAIN collected[c] : collected[c][m].index # doneQueue'[c][n]
      /\ \A n, m \in DOMAIN doneQueue'[c] : doneQueue'[c][n] = doneQueue'[c][m] => n = m
  <2>1. ASSUME NEW n \in DOMAIN doneQueue'[c]
        PROVE  /\ doneQueue'[c][n] \in Misses(c) /\ JobOf(c)'[doneQueue'[c][n]] \in {"ok", "error"}
               /\ \A m \in DOMAIN collected[c] : collected[c][m].index # doneQueue'[c][n]
    <3>1. CASE n \in DOMAIN doneQueue[c] /\ doneQueue'[c][n] = doneQueue[c][n]
      BY <1>3, <1>4, <3>1 DEF Tasks
    <3>2. CASE doneQueue'[c][n] = i
      BY <1>3, <1>4, <3>2
    <3> QED BY <1>7, <3>1, <3>2
  <2>2. ASSUME NEW n \in DOMAIN doneQueue'[c], NEW m \in DOMAIN doneQueue'[c],
               doneQueue'[c][n] = doneQueue'[c][m]
        PROVE  n = m
    BY <1>3, <1>4, <1>7, <2>2 DEF Tasks
  <2> QED BY <2>1, <2>2
<1>10. CallTasks(c)'
  <2>1. Tasks(call[c], JobOf(c)', doneQueue'[c], collected[c], Misses(c))
    BY <1>3, <1>4, <1>6, <1>8 DEF Tasks
  <2> QED BY <1>1, <1>3, <2>1 DEF CallTasks
<1>11. ASSUME NEW d \in Calls PROVE CallTasks(d)'
  <2>1. CASE d # c
    BY <1>1, <1>2, <2>1, OtherCall DEF BatchInv
  <2> QED BY <1>10, <2>1
<1>12. job' \in [Jobs -> {"none", "waiting", "running", "ok", "error", "cancelled"}]
  BY <1>1 DEF BatchInv
<1>13. errors' \in [Calls -> Nat] /\ \A d \in Calls : errors'[d] <= Cardinality(Errors')
  <2>1. <<c, i>> \in Jobs
    BY DEF Jobs
  <2>2. CASE ok
    <3>1. Errors' = Errors
      BY <1>1, <2>1, <2>2 DEF Errors, BatchInv
    <3> QED BY <1>1, <2>2, <3>1 DEF BatchInv
  <2>3. CASE ~ok
    <3>1. Errors' = Errors \cup {<<c, i>>} /\ <<c, i>> \notin Errors
      BY <1>1, <2>1, <2>3 DEF Errors, BatchInv
    <3>2. Cardinality(Errors') = Cardinality(Errors) + 1
      BY <3>1, BatchFinite, FS_AddElement
    <3>3. \A d \in Calls : errors[d] \in Nat /\ errors[d] + 1 <= Cardinality(Errors')
                           /\ errors[d] <= Cardinality(Errors')
      BY <3>2, BatchFinite DEF BatchInv
    <3>4. /\ errors' \in [Calls -> Nat]
          /\ \A d \in Calls : errors'[d] = errors[d] \/ errors'[d] = errors[d] + 1
      <4>1. CASE projecting
        BY <1>1, <4>1 DEF BatchInv
      <4>2. CASE ~projecting
        <5>1. errors' = [errors EXCEPT ![Processor(c)] = errors[Processor(c)] + 1]
          BY <1>1, <2>3, <4>2
        <5>2. \A n \in Nat : n + 1 \in Nat
          OBVIOUS
        <5>3. errors \in [Calls -> Nat]
          BY DEF BatchInv
        <5>4. \A d \in Calls : errors'[d] = IF d = Processor(c) THEN errors[d] + 1 ELSE errors[d]
          BY <5>1, <5>3
        <5>5. errors' = [d \in Calls |-> errors'[d]]
          BY <5>1, <5>3
        <5> QED BY <5>2, <5>3, <5>4, <5>5
      <4> QED BY <4>1, <4>2
    <3> QED BY <3>3, <3>4
  <2> QED BY <2>2, <2>3
<1> QED BY <1>1, <1>11, <1>12, <1>13 DEF BatchInv

LEMMA BatchCollects ==
  ASSUME BatchInv, NEW c \in Calls, Collect(c)
  PROVE  BatchInv'
<1> DEFINE q == doneQueue[c]
           s == collected[c]
           i == Head(q)
           e == [index |-> i, ok |-> job[<<c, i>>] = "ok"]
<1>1. /\ call[c] = "running" /\ q # <<>>
      /\ doneQueue' = [doneQueue EXCEPT ![c] = Tail(@)]
      /\ UNCHANGED <<errors, projecting, cached>>
  BY DEF Collect
<1>2. /\ Tasks("running", JobOf(c), q, s, Misses(c)) /\ Misses(c)' = Misses(c)
      /\ \A k \in Items : JobOf(c)[k] = job[<<c, k>>]
  BY <1>1 DEF BatchInv, CallTasks, Misses, JobOf
<1>3. /\ q \in Seq(Items) /\ Len(q) \in Nat /\ DOMAIN q = 1 .. Len(q) /\ Len(q) > 0
      /\ s \in Seq(BatchResult) /\ Len(s) \in Nat /\ DOMAIN s = 1 .. Len(s)
      /\ doneQueue'[c] = Tail(q)
  BY <1>1, <1>2, LenProperties, EmptySeq DEF BatchInv, Tasks
<1> HIDE DEF q, s
<1>4. /\ Tail(q) \in Seq(Items) /\ DOMAIN Tail(q) = 1 .. (Len(q) - 1)
      /\ \A n \in 1 .. (Len(q) - 1) : Tail(q)[n] = q[n + 1]
      /\ i = q[1] /\ 1 \in DOMAIN q
  BY <1>1, <1>3, HeadTailProperties, LenProperties
<1>5. \A n \in DOMAIN Tail(q) : n + 1 \in DOMAIN q /\ Tail(q)[n] = q[n + 1] /\ n + 1 # 1 /\ n \in Int
  BY <1>3, <1>4
<1>6. /\ \A n \in DOMAIN q : q[n] \in Misses(c) /\ job[<<c, q[n]>>] \in {"ok", "error"}
      /\ \A n \in DOMAIN q, m \in DOMAIN s : s[m].index # q[n]
      /\ \A n, m \in DOMAIN q : q[n] = q[m] => n = m
      /\ \A n \in DOMAIN s : /\ s[n].index \in Misses(c)
                             /\ job[<<c, s[n].index>>] = IF s[n].ok THEN "ok" ELSE "error"
      /\ \A n, m \in DOMAIN s : s[n].index = s[m].index => n = m
      /\ \A k \in Items : k \notin Misses(c) => job[<<c, k>>] = "none"
      /\ Misses(c) \subseteq Items
  <2>1. Misses(c) \subseteq Items
    BY DEF Misses
  <2> QED BY <1>2, <2>1 DEF Tasks
<1>7. /\ \A n \in DOMAIN Tail(q) :
           /\ Tail(q)[n] \in Misses(c) /\ job[<<c, Tail(q)[n]>>] \in {"ok", "error"}
           /\ Tail(q)[n] # i
           /\ \A m \in DOMAIN s : s[m].index # Tail(q)[n]
      /\ \A n, m \in DOMAIN Tail(q) : Tail(q)[n] = Tail(q)[m] => n = m
  <2>1. ASSUME NEW n \in DOMAIN Tail(q)
        PROVE  /\ Tail(q)[n] \in Misses(c) /\ job[<<c, Tail(q)[n]>>] \in {"ok", "error"}
               /\ Tail(q)[n] # i
               /\ \A m \in DOMAIN s : s[m].index # Tail(q)[n]
    BY <1>4, <1>5, <1>6
  <2>2. ASSUME NEW n \in DOMAIN Tail(q), NEW m \in DOMAIN Tail(q), Tail(q)[n] = Tail(q)[m]
        PROVE  n = m
    <3>1. n + 1 = m + 1 /\ n \in Int /\ m \in Int
      BY <1>5, <1>6, <2>2
    <3> QED BY <3>1
  <2> QED BY <2>1, <2>2
<1>8. /\ i \in Misses(c) /\ i \in Items /\ job[<<c, i>>] \in {"ok", "error"}
      /\ \A m \in DOMAIN s : s[m].index # i
  BY <1>4, <1>6
<1>9. \A d \in Calls : d # c => doneQueue'[d] = doneQueue[d]
  BY <1>1 DEF BatchInv
<1>10. DOMAIN doneQueue' = Calls
  BY <1>1 DEF BatchInv
<1> HIDE DEF i
<1>11. CASE Exceeded(Processor(c), Len(collected[c]) + 1) /\ ~ContinueOnError
  <2>1. /\ call' = [call EXCEPT ![c] = "aborted"] /\ job' = CancelRest(c) /\ collected' = collected
    BY <1>11 DEF Collect
  <2>2. \A d \in Calls, k \in Items :
          job'[<<d, k>>] = IF d = c /\ job[<<d, k>>] \in {"waiting", "running"}
                           THEN "cancelled" ELSE job[<<d, k>>]
    BY <2>1 DEF CancelRest, Jobs
  <2>3. CallTasks(c)'
    <3>1. call'[c] = "aborted" /\ collected'[c] = s
      BY <2>1 DEF BatchInv, s
    <3>2. \A k \in Items : job[<<c, k>>] \in {"ok", "error", "none"} => JobOf(c)'[k] = job[<<c, k>>]
      BY <2>2 DEF JobOf
    <3>3. Tasks("aborted", JobOf(c)', Tail(q), s, Misses(c))
      <4>1. ASSUME NEW n \in DOMAIN s
            PROVE  /\ s[n].index \in Misses(c)
                   /\ JobOf(c)'[s[n].index] = IF s[n].ok THEN "ok" ELSE "error"
        BY <1>6, <3>2
      <4>2. ASSUME NEW n \in DOMAIN Tail(q)
            PROVE  /\ Tail(q)[n] \in Misses(c) /\ JobOf(c)'[Tail(q)[n]] \in {"ok", "error"}
                   /\ \A m \in DOMAIN s : s[m].index # Tail(q)[n]
        BY <1>6, <1>7, <3>2
      <4>3. \A k \in Items : k \notin Misses(c) => JobOf(c)'[k] = "none"
        BY <1>6, <3>2
      <4>4. \A n, m \in DOMAIN s : s[n].index = s[m].index => n = m
        BY <1>6
      <4>5. \A n, m \in DOMAIN Tail(q) : Tail(q)[n] = Tail(q)[m] => n = m
        BY <1>7
      <4>6. Tail(q) \in Seq(Items) /\ s \in Seq(BatchResult)
        BY <1>3, <1>4
      <4> QED BY ONLY <4>1, <4>2, <4>3, <4>4, <4>5, <4>6 DEF Tasks
    <3> QED BY <1>2, <1>3, <3>1, <3>3 DEF CallTasks
  <2>4. ASSUME NEW d \in Calls PROVE CallTasks(d)'
    <3>1. CASE d # c
      BY <1>1, <1>9, <2>1, <2>2, <3>1, OtherCall DEF BatchInv
    <3> QED BY <2>3, <3>1
  <2>5. /\ job' \in [Jobs -> {"none", "waiting", "running", "ok", "error", "cancelled"}]
        /\ \A j \in Jobs : job'[j] = "error" <=> job[j] = "error"
    BY <2>1 DEF BatchInv, CancelRest
  <2>6. Errors' = Errors
    BY <2>5 DEF Errors
  <2> QED BY <1>1, <1>10, <2>1, <2>4, <2>5, <2>6 DEF BatchInv
<1>12. CASE ~(Exceeded(Processor(c), Len(collected[c]) + 1) /\ ~ContinueOnError)
  <2>1. /\ collected' = [collected EXCEPT ![c] = Append(s, e)] /\ UNCHANGED <<call, job>>
    BY <1>12 DEF Collect, i, q, s
  <2>2. e \in BatchResult /\ e.index = i /\ e.ok = (job[<<c, i>>] = "ok")
    BY <1>8 DEF BatchResult
  <2> HIDE DEF e
  <2>3. /\ collected'[c] = Append(s, e) /\ Append(s, e) \in Seq(BatchResult)
        /\ DOMAIN Append(s, e) = 1 .. (Len(s) + 1)
        /\ \A n \in 1 .. Len(s) : Append(s, e)[n] = s[n]
        /\ Append(s, e)[Len(s) + 1] = e
    BY <1>3, <2>1, <2>2, AppendProperties, LenProperties DEF BatchInv
  <2>4. \A n \in DOMAIN Append(s, e) : \/ n \in DOMAIN s /\ Append(s, e)[n] = s[n]
                                       \/ n = Len(s) + 1 /\ Append(s, e)[n] = e
    BY <1>3, <2>3
  <2>5. ASSUME NEW n \in DOMAIN Append(s, e)
        PROVE  /\ Append(s, e)[n].index \in Misses(c)
               /\ job[<<c, Append(s, e)[n].index>>] = IF Append(s, e)[n].ok THEN "ok" ELSE "error"
               /\ \A m \in DOMAIN Tail(q) : Append(s, e)[n].index # Tail(q)[m]
    <3>1. CASE n \in DOMAIN s /\ Append(s, e)[n] = s[n]
      BY <1>6, <1>7, <3>1
    <3>2. CASE Append(s, e)[n] = e
      BY <1>7, <1>8, <2>2, <3>2
    <3> QED BY <2>4, <3>1, <3>2
  <2>6. ASSUME NEW n \in DOMAIN Append(s, e), NEW m \in DOMAIN Append(s, e),
               Append(s, e)[n].index = Append(s, e)[m].index
        PROVE  n = m
    BY <1>6, <1>8, <2>2, <2>4, <2>6
  <2>7. CallTasks(c)'
    <3>1. call'[c] = "running" /\ JobOf(c)' = JobOf(c) /\ Misses(c)' = Misses(c)
      BY <1>1, <1>2, <2>1 DEF JobOf
    <3>2. /\ \A n \in DOMAIN Append(s, e) : JobOf(c)[Append(s, e)[n].index] = job[<<c, Append(s, e)[n].index>>]
          /\ \A n \in DOMAIN Tail(q) : JobOf(c)[Tail(q)[n]] = job[<<c, Tail(q)[n]>>]
      BY <1>2, <1>6, <1>7, <2>5
    <3>3. Tasks("running", JobOf(c), Tail(q), Append(s, e), Misses(c))
      <4>1. ASSUME NEW n \in DOMAIN Append(s, e)
            PROVE  /\ Append(s, e)[n].index \in Misses(c)
                   /\ JobOf(c)[Append(s, e)[n].index] = IF Append(s, e)[n].ok THEN "ok" ELSE "error"
        BY <2>5, <3>2
      <4>2. ASSUME NEW n \in DOMAIN Tail(q)
            PROVE  /\ Tail(q)[n] \in Misses(c) /\ JobOf(c)[Tail(q)[n]] \in {"ok", "error"}
                   /\ \A m \in DOMAIN Append(s, e) : Append(s, e)[m].index # Tail(q)[n]
        BY <1>7, <2>5, <3>2
      <4>3. \A k \in Items : k \notin Misses(c) => JobOf(c)[k] = "none"
        BY <1>2, <1>6
      <4>4. \A n, m \in DOMAIN Append(s, e) : Append(s, e)[n].index = Append(s, e)[m].index => n = m
        BY <2>6
      <4>5. \A n, m \in DOMAIN Tail(q) : Tail(q)[n] = Tail(q)[m] => n = m
        BY <1>7
      <4>6. Tail(q) \in Seq(Items) /\ Append(s, e) \in Seq(BatchResult)
        BY <1>4, <2>3
      <4> QED BY ONLY <4>1, <4>2, <4>3, <4>4, <4>5, <4>6 DEF Tasks
    <3> QED BY <1>3, <2>3, <3>1, <3>3 DEF CallTasks
  <2>8. ASSUME NEW d \in Calls PROVE CallTasks(d)'
    <3>1. CASE d # c
      BY <1>1, <1>9, <2>1, <3>1, OtherCall DEF BatchInv
    <3> QED BY <2>7, <3>1
  <2>9. Errors' = Errors /\ DOMAIN collected' = Calls
    BY <2>1 DEF Errors, BatchInv
  <2> QED BY <1>1, <1>10, <2>1, <2>8, <2>9 DEF BatchInv
<1> QED BY <1>11, <1>12

LEMMA BatchEnds ==
  ASSUME BatchInv, NEW c \in Calls, Finished(c)
  PROVE  BatchInv'
<1>1. /\ call[c] = "running" /\ Complete(c) /\ call' = [call EXCEPT ![c] = "ended"]
      /\ UNCHANGED <<job, doneQueue, collected, errors, projecting, cached>>
  BY DEF Finished
<1>2. /\ Tasks("running", JobOf(c), doneQueue[c], collected[c], Misses(c))
      /\ Misses(c)' = Misses(c) /\ JobOf(c)' = JobOf(c) /\ call'[c] = "ended"
  BY <1>1 DEF BatchInv, CallTasks, Misses, JobOf
<1>3. CallTasks(c)'
  <2>1. Tasks("ended", JobOf(c), doneQueue[c], collected[c], Misses(c))
    BY <1>1, <1>2 DEF Tasks, Complete
  <2> QED BY <1>1, <1>2, <2>1 DEF CallTasks
<1>4. ASSUME NEW d \in Calls PROVE CallTasks(d)'
  <2>1. CASE d # c
    BY <1>1, <2>1, OtherCall DEF BatchInv
  <2> QED BY <1>3, <2>1
<1> QED BY <1>1, <1>4 DEF BatchInv, Errors

LEMMA BatchInductive ==
  ASSUME BatchInv, [BatchNext]_batchVars
  PROVE  BatchInv'
<1>1. CASE UNCHANGED batchVars
  <2>1. ASSUME NEW d \in Calls PROVE CallTasks(d)'
    BY <1>1, OtherCall DEF batchVars
  <2> QED BY <1>1, <2>1 DEF batchVars, BatchInv, Errors
<1> QED BY <1>1, BatchBegins, BatchAdmits, BatchFinishes, BatchCollects, BatchEnds DEF BatchNext

\* When a call has ended the results are those of all its items, and the n-th
\* in the order of their index is the one of the n-th item that was missing.
LEMMA BatchSorted ==
  ASSUME BatchInv, NEW c \in Calls, call[c] = "ended"
  PROVE  /\ Misses(c) \in SUBSET Items /\ Misses(c) \in SUBSET (1 .. BatchItems)
         /\ DOMAIN ByIndex(c) = 1 .. Cardinality(Misses(c)) /\ Cardinality(Misses(c)) \in Nat
         /\ ByIndex(c) \in Seq(BatchResult)
         /\ \A n \in 1 .. Cardinality(Misses(c)) :
              /\ ByIndex(c)[n] \in BatchResult
              /\ ByIndex(c)[n].index = Nth(Misses(c), n)
              /\ job[<<c, Nth(Misses(c), n)>>] = IF ByIndex(c)[n].ok THEN "ok" ELSE "error"
<1> DEFINE s == collected[c]
           M == Misses(c)
           N == Cardinality(M)
           done == Range(s)
           T == {s[n].index : n \in DOMAIN s}
<1>1. M \in SUBSET (1 .. BatchItems) /\ M \in SUBSET Items /\ BatchItems \in Nat
  BY BatchAssumption DEF Misses, Items
<1>2. IsFiniteSet(M) /\ N \in Nat
  BY <1>1, UpToCounts
<1>3. /\ Tasks("ended", JobOf(c), doneQueue[c], s, M)
      /\ \A i \in Items : JobOf(c)[i] = job[<<c, i>>]
  BY DEF BatchInv, CallTasks, JobOf
<1>4. /\ s \in Seq(BatchResult) /\ DOMAIN s = 1 .. N /\ Len(s) = N
      /\ \A n \in 1 .. N : /\ s[n] \in BatchResult /\ s[n].index \in M
                           /\ job[<<c, s[n].index>>] = IF s[n].ok THEN "ok" ELSE "error"
      /\ \A n, m \in 1 .. N : s[n].index = s[m].index => n = m
  <2>1. s \in Seq(BatchResult) /\ Len(s) = N
    BY <1>3 DEF Tasks
  <2>2. DOMAIN s = 1 .. N /\ \A n \in 1 .. N : s[n] \in BatchResult
    BY <2>1, LenProperties, ElementOfSeq
  <2> QED BY <1>1, <1>3, <2>1, <2>2 DEF Tasks
<1> HIDE DEF s, M, N
<1>5. done = {s[n] : n \in 1 .. N}
  BY <1>4 DEF Range
<1>6. T = M
  <2> DEFINE g == [n \in 1 .. N |-> s[n].index]
  <2>1. g \in Bijection(1 .. N, T)
    <3>1. g \in [1 .. N -> T] /\ \A x \in T : \E n \in 1 .. N : g[n] = x
      BY <1>4
    <3>2. \A n, m \in 1 .. N : g[n] = g[m] => n = m
      BY <1>4
    <3> HIDE DEF g, T
    <3> QED BY <3>1, <3>2 DEF Bijection, Injection, IsInjective, Surjection
  <2>2. IsFiniteSet(1 .. N) /\ Cardinality(1 .. N) = N
    BY <1>2, FS_Interval
  <2>3. IsFiniteSet(T) /\ Cardinality(T) = N
    BY <2>1, <2>2, FS_Bijection DEF ExistsBijection
  <2>4. T \in SUBSET M
    <3>1. \A n \in DOMAIN s : s[n].index \in M
      BY <1>4
    <3> QED BY <3>1
  <2> QED BY <1>2, <2>3, <2>4, FS_Subset DEF N
<1> DEFINE Below(r) == {q \in done : q.index <= r.index}
<1>7. ASSUME NEW r \in done PROVE Cardinality(Below(r)) = Cardinality(UpTo(M, r.index))
  <2> DEFINE B == UpTo(M, r.index)
             f == [q \in Below(r) |-> q.index]
  <2>1. IsFiniteSet(B)
    BY <1>1, UpToCounts
  <2>2. B = {i \in M : i <= r.index}
    BY DEF UpTo
  <2>3. f \in [Below(r) -> B]
    BY <1>4, <1>5, <2>2
  <2>4. ASSUME NEW x \in Below(r), NEW y \in Below(r), f[x] = f[y]
        PROVE  x = y
    BY <1>4, <1>5, <2>4
  <2>5. ASSUME NEW i \in B PROVE \E x \in Below(r) : f[x] = i
    <3>1. PICK n \in 1 .. N : s[n].index = i
      BY <1>4, <1>6, <2>2, <2>5
    <3> QED BY <1>5, <2>2, <2>5, <3>1
  <2>6. f \in Bijection(Below(r), B)
    <3>1. f \in Injection(Below(r), B)
      BY <2>3, <2>4 DEF Injection, IsInjective
    <3>2. f \in Surjection(Below(r), B)
      BY <2>3, <2>5 DEF Surjection
    <3> QED BY <3>1, <3>2 DEF Bijection
  <2>7. IsFiniteSet(Below(r)) /\ Cardinality(Below(r)) <= Cardinality(B)
        /\ (Cardinality(Below(r)) = Cardinality(B) <=> f \in Surjection(Below(r), B))
    BY <2>1, <2>6, FS_Injection DEF Bijection
  <2> QED BY <2>6, <2>7 DEF Bijection
<1>8. ASSUME NEW n \in 1 .. N
      PROVE  /\ ByIndex(c)[n] \in done /\ ByIndex(c)[n].index = Nth(M, n)
  <2>1. Nth(M, n) \in M /\ Cardinality(UpTo(M, Nth(M, n))) = n
    BY <1>1, NthThere DEF N
  <2>2. PICK r \in done : r.index = Nth(M, n)
    BY <1>4, <1>5, <1>6, <2>1
  <2>3. Cardinality(Below(r)) = n
    BY <1>7, <2>1, <2>2
  <2>4. ByIndex(c)[n] = CHOOSE x \in done : Cardinality(Below(x)) = n
    BY <1>4 DEF ByIndex, s
  <2>5. ByIndex(c)[n] \in done /\ Cardinality(Below(ByIndex(c)[n])) = n
    BY <2>2, <2>3, <2>4
  <2> DEFINE x0 == ByIndex(c)[n]
  <2>6. Cardinality(UpTo(M, x0.index)) = n /\ x0.index \in M
    <3> HIDE DEF x0, Below
    <3>1. x0 \in done /\ Cardinality(Below(x0)) = n
      BY <2>5 DEF x0
    <3>2. PICK m \in 1 .. N : x0 = s[m]
      BY <1>5, <3>1
    <3>3. x0.index \in M
      BY <1>4, <3>2
    <3>4. Cardinality(Below(x0)) = Cardinality(UpTo(M, x0.index))
      BY <1>7, <3>1
    <3> QED BY <3>1, <3>3, <3>4
  <2>7. Nth(M, Cardinality(UpTo(M, ByIndex(c)[n].index))) = ByIndex(c)[n].index
    BY <1>1, <2>6, NthOrder
  <2> QED BY <2>5, <2>6, <2>7
<1>9. DOMAIN ByIndex(c) = 1 .. N
  BY <1>4 DEF ByIndex, s
<1>10. ASSUME NEW n \in 1 .. N
       PROVE  /\ ByIndex(c)[n] \in BatchResult
              /\ job[<<c, Nth(M, n)>>] = IF ByIndex(c)[n].ok THEN "ok" ELSE "error"
  BY <1>4, <1>5, <1>8
<1>11. ByIndex(c) \in Seq(BatchResult)
  <2> DEFINE g(n) == CHOOSE r \in done : Cardinality(Below(r)) = n
  <2>1. ByIndex(c) = [n \in 1 .. N |-> g(n)]
    BY <1>4 DEF ByIndex, s
  <2> HIDE DEF g
  <2>2. \A n \in 1 .. N : g(n) = ByIndex(c)[n] /\ g(n) \in BatchResult
    BY <1>10, <2>1
  <2>3. ByIndex(c) \in [1 .. N -> BatchResult]
    BY <2>1, <2>2
  <2> QED BY <1>2, <2>3, SeqDef
<1> QED BY <1>1, <1>2, <1>8, <1>9, <1>10, <1>11 DEF M, N

LEMMA BatchInvSafe ==
  ASSUME BatchInv
  PROVE  OwnResults /\ BatchTypeOK
<1>1. ASSUME NEW c \in Calls, call[c] = "ended", NEW i \in Items
      PROVE  Merged(c)[i] = IF i \in cached[c] THEN "hit"
                            ELSE IF job[<<c, i>>] = "ok" THEN "projected" ELSE "none"
  <2>1. CASE i \notin cached[c]
    <3> DEFINE n == Cardinality({k \in Misses(c) : k <= i})
    <3>1. i \in Misses(c) /\ n = Cardinality(UpTo(Misses(c), i))
      BY <2>1 DEF Misses, UpTo
    <3>2. n \in 1 .. Cardinality(Misses(c)) /\ Nth(Misses(c), n) = i
      <4>1. BatchItems \in Nat /\ Misses(c) \in SUBSET (1 .. BatchItems)
        BY <1>1, BatchSorted, BatchAssumption
      <4> QED BY <3>1, <4>1, NthOrder
    <3>3. Merged(c)[i] = IF ByIndex(c)[n].ok THEN "projected" ELSE "none"
      BY <2>1 DEF Merged
    <3> HIDE DEF n
    <3>4. job[<<c, i>>] = IF ByIndex(c)[n].ok THEN "ok" ELSE "error"
      BY <1>1, <3>2, BatchSorted
    <3> QED BY <2>1, <3>3, <3>4
  <2> QED BY <2>1 DEF Merged
<1>2. ASSUME NEW c \in Calls, call[c] = "ended"
      PROVE  Len(Successes(c)) = Cardinality({i \in Items : job[<<c, i>>] = "ok"})
  <2> DEFINE M == Misses(c)
             N == Cardinality(M)
             b == ByIndex(c)
             I == {n \in DOMAIN b : b[n].ok}
             K == {i \in Items : job[<<c, i>>] = "ok"}
             f == [n \in I |-> Nth(M, n)]
  <2>1. /\ M \in SUBSET Items /\ M \in SUBSET (1 .. BatchItems) /\ BatchItems \in Nat
        /\ DOMAIN b = 1 .. N /\ N \in Nat
        /\ \A n \in 1 .. N : /\ b[n] \in BatchResult
                             /\ job[<<c, Nth(M, n)>>] = IF b[n].ok THEN "ok" ELSE "error"
    BY <1>2, BatchSorted, BatchAssumption
  <2>2. b \in Seq(BatchResult) /\ I \in SUBSET (DOMAIN b)
    BY <1>2, BatchSorted
  <2>3. Len(Successes(c)) = Cardinality(I)
    <3>1. \A i \in I : b[i] \in BatchResult
      BY <2>1
    <3> HIDE DEF b
    <3>2. Len(Keeping(b, I)) = Cardinality(I)
      BY <2>2, <3>1, KeepingIs
    <3> QED BY <3>2 DEF Successes, b
  <2>4. I \in SUBSET (1 .. N) /\ IsFiniteSet(I)
    <3>1. IsFiniteSet(1 .. N)
      BY <2>1, FS_Interval
    <3> QED BY <2>1, <3>1, FS_Subset
  <2>5. /\ \A n \in 1 .. N : Nth(M, n) \in M /\ Nth(M, n) \in Int
        /\ \A n, m \in 1 .. N : n < m => Nth(M, n) < Nth(M, m)
        /\ \A i \in M : \E n \in 1 .. N : Nth(M, n) = i
    <3> HIDE DEF M
    <3>1. \A n \in 1 .. N : Nth(M, n) \in M
      BY <2>1, NthThere
    <3>2. /\ \A n, m \in 1 .. N : n < m => Nth(M, n) < Nth(M, m)
          /\ \A i \in M : \E n \in 1 .. N : Nth(M, n) = i
      BY <2>1, NthOrder
    <3>3. \A n \in 1 .. N : Nth(M, n) \in Int
      <4>1. \A i \in M : i \in Int
        BY <2>1
      <4> QED BY <3>1, <4>1
    <3> QED BY <3>1, <3>2, <3>3
  <2> HIDE DEF b, N, M
  <2>6. f \in [I -> K]
    BY <2>1, <2>4, <2>5
  <2>7. ASSUME NEW n \in I, NEW m \in I, f[n] = f[m] PROVE n = m
    <3>1. n \in Int /\ m \in Int /\ Nth(M, n) = Nth(M, m) /\ n \in 1 .. N /\ m \in 1 .. N
      BY <2>4, <2>7
    <3>2. ~(n < m) /\ ~(m < n)
      BY <2>5, <3>1
    <3> QED BY <3>1, <3>2
  <2>8. ASSUME NEW i \in K PROVE \E n \in I : f[n] = i
    <3>1. i \in M
      <4>1. CallTasks(c) /\ JobOf(c)[i] = "ok"
        BY <2>8 DEF BatchInv, JobOf
      <4> QED BY <2>8, <4>1 DEF CallTasks, Tasks, M
    <3>2. PICK n \in 1 .. N : Nth(M, n) = i
      BY <2>5, <3>1
    <3>3. n \in I
      BY <2>1, <2>8, <3>2
    <3> QED BY <3>2, <3>3
  <2>9. f \in Bijection(I, K)
    <3>1. f \in Injection(I, K)
      BY <2>6, <2>7 DEF Injection, IsInjective
    <3>2. f \in Surjection(I, K)
      BY <2>6, <2>8 DEF Surjection
    <3> QED BY <3>1, <3>2 DEF Bijection
  <2>10. Cardinality(K) = Cardinality(I)
    BY <2>4, <2>9, FS_Bijection DEF ExistsBijection
  <2> QED BY <2>3, <2>10
<1>3. OwnResults
  BY <1>1, <1>2 DEF OwnResults
<1>4. errors \in [Calls -> 0 .. Cardinality(Jobs)]
  <2>1. Cardinality(Jobs) \in Nat
    BY BatchFinite, FS_CardinalityType
  <2>2. \A c \in Calls : errors[c] \in 0 .. Cardinality(Jobs)
    BY <2>1, BatchFinite DEF BatchInv
  <2> QED BY <2>2 DEF BatchInv
<1>5. BatchTypeOK
  BY <1>4 DEF BatchInv, BatchTypeOK, CallTasks, Tasks, BatchResult
<1> QED BY <1>3, <1>5

-----------------------------------------------------------------------------
(***************************************************************************)
(* The stream.  An item is in the buffer, in the batch of one flush, among  *)
(* the results or yielded, as its task says; the sequences repeat none.     *)
(***************************************************************************)
LEMMA AppendDistinct ==
  ASSUME NEW S, NEW s \in Seq(S), NEW x \in S, IsInjective(s), x \notin Range(s)
  PROVE  /\ Append(s, x) \in Seq(S) /\ IsInjective(Append(s, x))
         /\ Range(Append(s, x)) = Range(s) \cup {x}
         /\ Len(Append(s, x)) = Len(s) + 1 /\ Len(s) \in Nat /\ Append(s, x) # <<>>
<1>1. /\ DOMAIN s = 1 .. Len(s) /\ Len(s) \in Nat /\ Append(s, x) \in Seq(S)
      /\ DOMAIN Append(s, x) = 1 .. (Len(s) + 1) /\ Len(Append(s, x)) = Len(s) + 1
      /\ \A n \in 1 .. Len(s) : Append(s, x)[n] = s[n]
      /\ Append(s, x)[Len(s) + 1] = x
  BY AppendProperties, LenProperties
<1> DEFINE t == Append(s, x)
<1> HIDE DEF t
<1>2. \A n \in DOMAIN t : \/ n \in DOMAIN s /\ t[n] = s[n] /\ s[n] \in Range(s)
                          \/ n = Len(s) + 1 /\ t[n] = x
  BY <1>1 DEF t, Range
<1>3. IsInjective(t)
  <2>1. ASSUME NEW a \in DOMAIN t, NEW b \in DOMAIN t, t[a] = t[b] PROVE a = b
    BY <1>2, <2>1 DEF IsInjective
  <2> QED BY <2>1 DEF IsInjective
<1>4. Range(t) = Range(s) \cup {x}
  <2>1. \A n \in DOMAIN s : n \in DOMAIN t /\ t[n] = s[n]
    BY <1>1 DEF t
  <2>2. Len(s) + 1 \in DOMAIN t /\ t[Len(s) + 1] = x
    BY <1>1 DEF t
  <2> QED BY <1>2, <2>1, <2>2 DEF Range
<1>5. t # <<>>
  BY <1>1, EmptySeq DEF t
<1> QED BY <1>1, <1>3, <1>4, <1>5 DEF t

LEMMA TailDistinct ==
  ASSUME NEW S, NEW s \in Seq(S), s # <<>>, IsInjective(s)
  PROVE  /\ Tail(s) \in Seq(S) /\ IsInjective(Tail(s)) /\ Head(s) \in S
         /\ Range(Tail(s)) = Range(s) \ {Head(s)} /\ Head(s) \in Range(s)
<1>1. /\ DOMAIN s = 1 .. Len(s) /\ Len(s) \in Nat /\ Len(s) > 0 /\ Tail(s) \in Seq(S)
      /\ DOMAIN Tail(s) = 1 .. (Len(s) - 1)
      /\ \A n \in 1 .. (Len(s) - 1) : Tail(s)[n] = s[n + 1]
      /\ Head(s) = s[1] /\ Head(s) \in S
  BY HeadTailProperties, LenProperties, EmptySeq
<1> DEFINE t == Tail(s)
<1> HIDE DEF t
<1>2. \A n \in DOMAIN t : n + 1 \in DOMAIN s /\ t[n] = s[n + 1] /\ n + 1 # 1 /\ n \in Int
  BY <1>1 DEF t
<1>3. \A n \in DOMAIN s : n = 1 \/ (n - 1 \in DOMAIN t /\ t[n - 1] = s[n])
  BY <1>1 DEF t
<1>4. IsInjective(t)
  <2>1. ASSUME NEW a \in DOMAIN t, NEW b \in DOMAIN t, t[a] = t[b] PROVE a = b
    <3>1. a + 1 = b + 1 /\ a \in Int /\ b \in Int
      BY <1>2, <2>1 DEF IsInjective
    <3> QED BY <3>1
  <2> QED BY <2>1 DEF IsInjective
<1>5. 1 \in DOMAIN s
  BY <1>1
<1>6. \A n \in DOMAIN t : t[n] # Head(s) /\ t[n] \in Range(s)
  BY <1>1, <1>2, <1>5 DEF IsInjective, Range
<1>7. Range(t) = Range(s) \ {Head(s)}
  <2>1. ASSUME NEW y \in Range(s) \ {Head(s)} PROVE y \in Range(t)
    <3>1. PICK n \in DOMAIN s : s[n] = y
      BY DEF Range
    <3> QED BY <1>1, <1>3, <3>1 DEF Range
  <2>2. ASSUME NEW y \in Range(t) PROVE y \in Range(s) \ {Head(s)}
    BY <1>6, <2>2 DEF Range
  <2> QED BY <2>1, <2>2
<1> QED BY <1>1, <1>4, <1>5, <1>7 DEF t, Range

LEMMA EmptyDistinct ==
  ASSUME NEW S
  PROVE  <<>> \in Seq(S) /\ IsInjective(<<>>) /\ Range(<<>>) = {}
<1>1. <<>> \in Seq(S) /\ DOMAIN <<>> = {}
  BY EmptySeq
<1> QED BY <1>1 DEF IsInjective, Range

Batch(p) == Range(flush[p].batch)
StreamResult == [index : StreamItem, item : StreamItem]
FlushState == [at : {"none", "semaphore", "collect"}, batch : Seq(StreamItem)]

StreamSeqs ==
  /\ putCount \in 0 .. StreamItems
  /\ buffer \in Seq(StreamItem) /\ IsInjective(buffer) /\ Len(buffer) < MaxBuffer
  /\ flush \in [Flushers -> FlushState]
  /\ \A p \in Flushers : /\ IsInjective(flush[p].batch)
                         /\ flush[p].at = "none" => flush[p] = NoFlush
  /\ task \in [StreamItem -> {"none", "running", "done", "collected"}]
  /\ Resulting \in Seq(StreamItem) /\ IsInjective(Resulting) /\ results \in Seq(StreamResult)
  /\ yielded \subseteq StreamItem

\* Where an item is that has been put.
StreamPlaces ==
  /\ \A i \in StreamItem : i > putCount =>
       /\ task[i] = "none" /\ i \notin Range(buffer) /\ \A p \in Flushers : i \notin Batch(p)
  /\ \A i \in Range(buffer) : task[i] = "none" /\ \A p \in Flushers : i \notin Batch(p)
  /\ \A p \in Flushers : \A i \in Batch(p) :
       /\ flush[p].at = "semaphore" => task[i] = "none"
       /\ flush[p].at = "collect" => task[i] # "none"
       /\ \A q \in Flushers : i \in Batch(q) => p = q
  /\ \A i \in StreamItem : i <= putCount =>
       /\ task[i] = "none" => i \in Range(buffer) \/ \E p \in Flushers : i \in Batch(p)
       /\ task[i] \in {"running", "done"} => \E p \in Flushers : i \in Batch(p)
       /\ task[i] = "collected" <=> i \in Range(Resulting) \cup yielded
  /\ Range(Resulting) \cap yielded = {}
  /\ \A i \in Range(Resulting) \cup yielded : i <= putCount

StreamInv == StreamSeqs /\ StreamPlaces

LEMMA StreamStarts ==
  ASSUME StreamInit
  PROVE  StreamInv
<1>1. /\ putCount = 0 /\ buffer = <<>> /\ flush = [p \in Flushers |-> NoFlush]
      /\ task = [i \in StreamItem |-> "none"] /\ results = <<>> /\ yielded = {}
  BY DEF StreamInit
<1>2. /\ <<>> \in Seq(StreamItem) /\ IsInjective(<<>>) /\ Range(<<>>) = {} /\ Len(<<>>) = 0
      /\ <<>> \in Seq(StreamResult) /\ DOMAIN <<>> = {}
  BY EmptyDistinct, EmptySeq
<1>3. Resulting = <<>>
  BY <1>1, <1>2 DEF Resulting
<1>4. \A p \in Flushers : flush[p] = NoFlush /\ flush[p].batch = <<>> /\ Batch(p) = {}
  BY <1>1, <1>2 DEF NoFlush, Batch
<1>5. NoFlush \in FlushState
  BY <1>2 DEF NoFlush, FlushState
<1>6. StreamItems \in Nat /\ MaxBuffer \in Nat \ {0}
  BY StreamAssumption
<1>7. StreamSeqs
  BY <1>1, <1>2, <1>3, <1>4, <1>5, <1>6 DEF StreamSeqs
<1>8. StreamPlaces
  BY <1>1, <1>2, <1>3, <1>4, <1>6 DEF StreamPlaces, StreamItem
<1> QED BY <1>7, <1>8 DEF StreamInv

\* A flush takes a batch of items that have no task and are in no other batch.
LEMMA FlushTakes ==
  ASSUME StreamInv, NEW p \in Flushers, flush[p] = NoFlush,
         NEW b \in Seq(StreamItem), IsInjective(b), Flush(p, b),
         \A i \in Range(b) : task[i] = "none" /\ \A q \in Flushers : i \notin Batch(q)
  PROVE  /\ flush' \in [Flushers -> FlushState]
         /\ \A q \in Flushers : /\ IsInjective(flush'[q].batch)
                                /\ flush'[q].at = "none" => flush'[q] = NoFlush
         /\ task' \in [StreamItem -> {"none", "running", "done", "collected"}]
         /\ \A q \in Flushers : Batch(q)' = IF q = p THEN Range(b) ELSE Batch(q)
         /\ \A q \in Flushers : \A i \in Batch(q)' :
              /\ flush'[q].at = "semaphore" => task'[i] = "none"
              /\ flush'[q].at = "collect" => task'[i] # "none"
         /\ \A i \in StreamItem : IF i \in Range(b) THEN task'[i] \in {"none", "running"}
                                                    ELSE task'[i] = task[i]
<1>1. /\ flush \in [Flushers -> FlushState]
      /\ task \in [StreamItem -> {"none", "running", "done", "collected"}]
      /\ \A q \in Flushers : /\ IsInjective(flush[q].batch)
                             /\ flush[q].at = "none" => flush[q] = NoFlush
      /\ \A q \in Flushers : \A i \in Batch(q) :
              /\ flush[q].at = "semaphore" => task[i] = "none"
              /\ flush[q].at = "collect" => task[i] # "none"
  BY DEF StreamInv, StreamSeqs, StreamPlaces
<1>2. Range(<<>>) = {} /\ Batch(p) = {} /\ NoFlush.batch = <<>>
  BY EmptyDistinct DEF Batch, NoFlush
<1>3. CASE b = <<>>
  BY <1>1, <1>2, <1>3 DEF Flush, Batch
<1>4. CASE b # <<>> /\ ~Free
  <2>1. /\ flush' = [flush EXCEPT ![p] = [at |-> "semaphore", batch |-> b]] /\ task' = task
    BY <1>4 DEF Flush
  <2>2. [at |-> "semaphore", batch |-> b] \in FlushState
    BY DEF FlushState
  <2>3. /\ flush' \in [Flushers -> FlushState]
        /\ flush'[p] = [at |-> "semaphore", batch |-> b]
        /\ \A q \in Flushers : q # p => flush'[q] = flush[q]
    BY <1>1, <2>1, <2>2
  <2>4. \A q \in Flushers : Batch(q)' = IF q = p THEN Range(b) ELSE Batch(q)
    BY <2>3 DEF Batch
  <2> QED BY <1>1, <2>1, <2>3, <2>4
<1>5. CASE b # <<>> /\ Free
  <2>1. /\ flush' = [flush EXCEPT ![p] = [at |-> "collect", batch |-> b]]
        /\ task' = [i \in StreamItem |-> IF i \in Range(b) THEN "running" ELSE task[i]]
    BY <1>5 DEF Flush, StartTasks
  <2>2. [at |-> "collect", batch |-> b] \in FlushState
    BY DEF FlushState
  <2>3. /\ flush' \in [Flushers -> FlushState]
        /\ flush'[p] = [at |-> "collect", batch |-> b]
        /\ \A q \in Flushers : q # p => flush'[q] = flush[q]
    BY <1>1, <2>1, <2>2
  <2>4. \A q \in Flushers : Batch(q)' = IF q = p THEN Range(b) ELSE Batch(q)
    BY <2>3 DEF Batch
  <2>5. task' \in [StreamItem -> {"none", "running", "done", "collected"}]
    BY <1>1, <2>1
  <2>6. Range(b) \subseteq StreamItem /\ \A q \in Flushers : Batch(q) \subseteq StreamItem
    <3>1. \A s \in Seq(StreamItem) : Range(s) \subseteq StreamItem
      BY LenProperties, ElementOfSeq DEF Range
    <3>2. \A q \in Flushers : flush[q].batch \in Seq(StreamItem)
      BY <1>1 DEF FlushState
    <3> QED BY <3>1, <3>2 DEF Batch
  <2>7. ASSUME NEW q \in Flushers, NEW i \in Batch(q)'
        PROVE  /\ flush'[q].at = "semaphore" => task'[i] = "none"
               /\ flush'[q].at = "collect" => task'[i] # "none"
    <3>1. CASE q = p
      BY <2>1, <2>3, <2>4, <2>6, <2>7, <3>1
    <3>2. CASE q # p
      <4>1. i \in Batch(q) /\ i \in StreamItem /\ i \notin Range(b)
        BY <2>4, <2>6, <2>7, <3>2
      <4> QED BY <1>1, <2>1, <2>3, <3>2, <4>1
    <3> QED BY <3>1, <3>2
  <2> QED BY <1>1, <2>1, <2>3, <2>4, <2>5, <2>7
<1> QED BY <1>3, <1>4, <1>5

LEMMA StreamPuts ==
  ASSUME StreamInv, NEW p \in Producers, Put(p)
  PROVE  StreamInv'
<1> DEFINE b == Append(buffer, putCount + 1)
<1>1. /\ flush[p] = NoFlush /\ putCount < StreamItems
      /\ putCount' = putCount + 1 /\ buffer' = LeftIn(b)
      /\ IF Len(b) >= MaxBuffer THEN Flush(p, b) ELSE UNCHANGED <<flush, task, tracked>>
      /\ UNCHANGED <<results, closer, returned, yielded>>
  BY DEF Put
<1>2. /\ putCount + 1 \in StreamItem /\ putCount' \in 0 .. StreamItems /\ putCount \in Int
      /\ p \in Flushers /\ MaxBuffer \in Nat \ {0}
  BY <1>1, StreamAssumption DEF StreamInv, StreamSeqs, StreamItem, Flushers
<1>3. putCount + 1 \notin Range(buffer) /\ \A q \in Flushers : putCount + 1 \notin Batch(q)
      /\ task[putCount + 1] = "none" /\ putCount + 1 \notin Range(Resulting) \cup yielded
  <2>1. putCount + 1 > putCount /\ ~(putCount + 1 <= putCount)
    BY <1>2
  <2> QED BY <1>2, <2>1 DEF StreamInv, StreamPlaces
<1>4. /\ b \in Seq(StreamItem) /\ IsInjective(b) /\ Range(b) = Range(buffer) \cup {putCount + 1}
      /\ Len(b) = Len(buffer) + 1 /\ Len(buffer) \in Nat
  BY <1>2, <1>3, AppendDistinct DEF StreamInv, StreamSeqs
<1>5. \A i \in Range(b) : task[i] = "none" /\ \A q \in Flushers : i \notin Batch(q)
  <2>1. \A i \in Range(buffer) : task[i] = "none" /\ \A q \in Flushers : i \notin Batch(q)
    BY DEF StreamInv, StreamPlaces
  <2>2. \A i \in Range(b) : i \in Range(buffer) \/ i = putCount + 1
    BY <1>4
  <2> HIDE DEF b
  <2>3. ASSUME NEW i \in Range(b)
        PROVE  task[i] = "none" /\ \A q \in Flushers : i \notin Batch(q)
    <3>1. CASE i \in Range(buffer)
      BY <2>1, <3>1
    <3>2. CASE i = putCount + 1
      BY <1>2, <1>3, <3>2
    <3> QED BY <2>2, <2>3, <3>1, <3>2
  <2> QED BY <2>3
<1>6. Resulting' = Resulting
  BY <1>1 DEF Resulting
<1>7. \A i \in StreamItem : i <= putCount' <=> i <= putCount \/ i = putCount + 1
  BY <1>1, <1>2 DEF StreamItem
<1>8. \A i \in StreamItem : i > putCount' => i > putCount /\ i # putCount + 1
  BY <1>1, <1>2 DEF StreamItem
<1> HIDE DEF b
<1>9. CASE Len(b) >= MaxBuffer
  <2>1. buffer' = <<>> /\ Flush(p, b) /\ Range(buffer') = {} /\ buffer' \in Seq(StreamItem)
        /\ IsInjective(buffer') /\ Len(buffer') = 0
    BY <1>1, <1>9, EmptyDistinct, EmptySeq DEF LeftIn
  <2>2. /\ flush' \in [Flushers -> FlushState]
        /\ \A q \in Flushers : /\ IsInjective(flush'[q].batch)
                               /\ flush'[q].at = "none" => flush'[q] = NoFlush
        /\ task' \in [StreamItem -> {"none", "running", "done", "collected"}]
        /\ \A q \in Flushers : Batch(q)' = IF q = p THEN Range(b) ELSE Batch(q)
        /\ \A q \in Flushers : \A i \in Batch(q)' :
              /\ flush'[q].at = "semaphore" => task'[i] = "none"
              /\ flush'[q].at = "collect" => task'[i] # "none"
        /\ \A i \in StreamItem : IF i \in Range(b) THEN task'[i] \in {"none", "running"}
                                                   ELSE task'[i] = task[i]
    BY <1>1, <1>2, <1>4, <1>5, <2>1, FlushTakes
  <2>3. StreamSeqs'
    BY <1>1, <1>2, <1>6, <2>1, <2>2 DEF StreamInv, StreamSeqs
  <2>4. Batch(p) = {}
    BY <1>1, EmptyDistinct DEF Batch, NoFlush
  <2>5. StreamPlaces'
    <3>1. ASSUME NEW i \in StreamItem, i > putCount'
          PROVE  task'[i] = "none" /\ i \notin Range(buffer') /\ \A q \in Flushers : i \notin Batch(q)'
      BY <1>4, <1>8, <2>1, <2>2, <3>1 DEF StreamInv, StreamPlaces
    <3>2. ASSUME NEW q \in Flushers, NEW i \in Batch(q)', NEW r \in Flushers, i \in Batch(r)'
          PROVE  q = r
      BY <1>5, <2>2, <3>2 DEF StreamInv, StreamPlaces
    <3>3. ASSUME NEW i \in StreamItem, i <= putCount'
          PROVE  /\ task'[i] = "none" => \E q \in Flushers : i \in Batch(q)'
                 /\ task'[i] \in {"running", "done"} => \E q \in Flushers : i \in Batch(q)'
                 /\ task'[i] = "collected" <=> i \in Range(Resulting) \cup yielded
      <4>1. CASE i \in Range(b)
        <5>1. i \notin Range(Resulting) \cup yielded
          BY <1>3, <1>5, <1>7, <3>3, <4>1 DEF StreamInv, StreamPlaces
        <5> QED BY <1>2, <2>2, <4>1, <5>1
      <4>2. CASE i \notin Range(b)
        <5>1. i <= putCount /\ task'[i] = task[i] /\ i \notin Range(buffer)
          BY <1>4, <1>7, <2>2, <3>3, <4>2
        <5>2. ASSUME NEW q \in Flushers, i \in Batch(q) PROVE i \in Batch(q)'
          BY <2>2, <2>4, <5>2
        <5> QED BY <5>1, <5>2 DEF StreamInv, StreamPlaces
      <4> QED BY <4>1, <4>2
    <3>4. \A i \in Range(Resulting) \cup yielded : i <= putCount'
      <4>1. Range(Resulting) \subseteq StreamItem /\ yielded \subseteq StreamItem
        BY LenProperties, ElementOfSeq DEF Range, StreamInv, StreamSeqs
      <4> QED BY <1>7, <4>1 DEF StreamInv, StreamPlaces
    <3> QED BY <1>1, <1>6, <2>1, <2>2, <3>1, <3>2, <3>3, <3>4 DEF StreamInv, StreamPlaces
  <2> QED BY <2>3, <2>5 DEF StreamInv
<1>10. CASE ~(Len(b) >= MaxBuffer)
  <2>1. buffer' = b /\ UNCHANGED <<flush, task>> /\ \A q \in Flushers : Batch(q)' = Batch(q)
    BY <1>1, <1>10 DEF LeftIn, Batch
  <2>2. StreamSeqs'
    BY <1>1, <1>2, <1>4, <1>6, <1>10, <2>1 DEF StreamInv, StreamSeqs
  <2>3. StreamPlaces'
    <3>1. ASSUME NEW i \in StreamItem, i > putCount'
          PROVE  task[i] = "none" /\ i \notin Range(b) /\ \A q \in Flushers : i \notin Batch(q)
      BY <1>4, <1>8, <3>1 DEF StreamInv, StreamPlaces
    <3>2. ASSUME NEW i \in StreamItem, i <= putCount'
          PROVE  /\ task[i] = "none" => i \in Range(b) \/ \E q \in Flushers : i \in Batch(q)
                 /\ task[i] \in {"running", "done"} => \E q \in Flushers : i \in Batch(q)
                 /\ task[i] = "collected" <=> i \in Range(Resulting) \cup yielded
      <4>1. CASE i = putCount + 1
        <5>1. task[i] = "none"
          BY <1>2, <1>3, <4>1
        <5>2. i \in Range(b)
          BY <1>2, <1>4, <4>1
        <5>3. i \notin Range(Resulting) \cup yielded
          BY <1>2, <1>3, <4>1
        <5>4. ~(task[i] \in {"running", "done"}) /\ task[i] # "collected"
          BY <5>1
        <5> QED BY <5>1, <5>2, <5>3, <5>4
      <4>2. CASE i # putCount + 1
        <5>1. i <= putCount /\ (i \in Range(buffer) => i \in Range(b))
          BY <1>4, <1>7, <3>2, <4>2
        <5> QED BY <5>1 DEF StreamInv, StreamPlaces
      <4> QED BY <4>1, <4>2
    <3>3. \A i \in Range(Resulting) \cup yielded : i <= putCount'
      <4>1. Range(Resulting) \subseteq StreamItem /\ yielded \subseteq StreamItem
        BY LenProperties, ElementOfSeq DEF Range, StreamInv, StreamSeqs
      <4> QED BY <1>7, <4>1 DEF StreamInv, StreamPlaces
    <3> QED BY <1>1, <1>5, <1>6, <2>1, <3>1, <3>2, <3>3 DEF StreamInv, StreamPlaces
  <2> QED BY <2>2, <2>3 DEF StreamInv
<1> QED BY <1>9, <1>10

LEMMA StreamFlushStarts ==
  ASSUME StreamInv, NEW p \in Flushers, FlushStarts(p)
  PROVE  StreamInv'
<1> DEFINE b == flush[p].batch
<1>1. /\ flush[p].at = "semaphore" /\ flush' = [flush EXCEPT ![p].at = "collect"]
      /\ task' = [i \in StreamItem |-> IF i \in Range(b) THEN "running" ELSE task[i]]
      /\ UNCHANGED <<putCount, buffer, results, closer, returned, yielded>>
  BY DEF FlushStarts, InQueue, StartTasks
<1>2. /\ flush \in [Flushers -> FlushState] /\ flush[p] \in FlushState
      /\ task \in [StreamItem -> {"none", "running", "done", "collected"}]
  BY DEF StreamInv, StreamSeqs
<1>3. /\ flush' \in [Flushers -> FlushState]
      /\ \A q \in Flushers : /\ flush'[q].batch = flush[q].batch
                             /\ flush'[q].at = IF q = p THEN "collect" ELSE flush[q].at
                             /\ q # p => flush'[q] = flush[q]
  <2>1. [flush[p] EXCEPT !.at = "collect"] \in FlushState
    BY <1>2 DEF FlushState
  <2>2. /\ [flush[p] EXCEPT !.at = "collect"].batch = flush[p].batch
        /\ [flush[p] EXCEPT !.at = "collect"].at = "collect"
    BY <1>2 DEF FlushState
  <2>3. flush' = [flush EXCEPT ![p] = [flush[p] EXCEPT !.at = "collect"]]
    BY <1>1
  <2> HIDE DEF b
  <2> QED BY <1>2, <2>1, <2>2, <2>3
<1>4. \A q \in Flushers : Batch(q)' = Batch(q)
  BY <1>3 DEF Batch
<1>5. Batch(p) \subseteq StreamItem /\ Range(b) = Batch(p)
  <2>1. b \in Seq(StreamItem)
    BY <1>2 DEF FlushState
  <2> QED BY <2>1, LenProperties, ElementOfSeq DEF Range, Batch
<1>6. \A i \in StreamItem : task'[i] = IF i \in Batch(p) THEN "running" ELSE task[i]
  BY <1>1, <1>5
<1>7. \A i \in Batch(p) : task[i] = "none" /\ i \notin Range(buffer) /\ i <= putCount
                          /\ i \notin Range(Resulting) \cup yielded
  <2>1. ASSUME NEW i \in Batch(p)
        PROVE  task[i] = "none" /\ i \notin Range(buffer) /\ i <= putCount
               /\ i \notin Range(Resulting) \cup yielded
    <3>1. task[i] = "none" /\ i \notin Range(buffer) /\ ~(i > putCount)
      BY <1>1, <1>5 DEF StreamInv, StreamPlaces
    <3>2. i <= putCount
      BY <1>5, <3>1, StreamAssumption DEF StreamInv, StreamSeqs, StreamItem
    <3> QED BY <1>5, <3>1, <3>2 DEF StreamInv, StreamPlaces
  <2> QED BY <2>1
<1>8. Resulting' = Resulting
  BY <1>1 DEF Resulting
<1>9. StreamSeqs'
  <2>1. task' \in [StreamItem -> {"none", "running", "done", "collected"}]
    BY <1>1, <1>2
  <2>2. \A q \in Flushers : /\ IsInjective(flush'[q].batch)
                            /\ flush'[q].at = "none" => flush'[q] = NoFlush
    BY <1>3 DEF StreamInv, StreamSeqs
  <2> QED BY <1>1, <1>3, <1>8, <2>1, <2>2 DEF StreamInv, StreamSeqs
<1>10. StreamPlaces'
  <2>1. \A i \in StreamItem : i > putCount =>
          task'[i] = "none" /\ i \notin Range(buffer) /\ \A q \in Flushers : i \notin Batch(q)
    BY <1>6 DEF StreamInv, StreamPlaces
  <2>2. \A i \in Range(buffer) : task'[i] = "none" /\ \A q \in Flushers : i \notin Batch(q)
    <3>1. Range(buffer) \subseteq StreamItem
      BY LenProperties, ElementOfSeq DEF Range, StreamInv, StreamSeqs
    <3> QED BY <1>6, <1>7, <3>1 DEF StreamInv, StreamPlaces
  <2>3. ASSUME NEW q \in Flushers, NEW i \in Batch(q)
        PROVE  /\ flush'[q].at = "semaphore" => task'[i] = "none"
               /\ flush'[q].at = "collect" => task'[i] # "none"
               /\ \A r \in Flushers : i \in Batch(r) => q = r
    <3>1. /\ flush[q].at = "semaphore" => task[i] = "none"
          /\ flush[q].at = "collect" => task[i] # "none"
          /\ \A r \in Flushers : i \in Batch(r) => q = r
      BY DEF StreamInv, StreamPlaces
    <3>2. i \in StreamItem
      <4>1. flush[q].batch \in Seq(StreamItem)
        BY <1>2 DEF FlushState
      <4> QED BY <4>1, LenProperties, ElementOfSeq DEF Range, Batch
    <3> QED BY <1>3, <1>6, <3>1, <3>2
  <2>4. ASSUME NEW i \in StreamItem, i <= putCount
        PROVE  /\ task'[i] = "none" => i \in Range(buffer) \/ \E q \in Flushers : i \in Batch(q)
               /\ task'[i] \in {"running", "done"} => \E q \in Flushers : i \in Batch(q)
               /\ task'[i] = "collected" <=> i \in Range(Resulting) \cup yielded
    <3>1. CASE i \in Batch(p)
      BY <1>6, <1>7, <3>1
    <3>2. CASE i \notin Batch(p)
      BY <1>6, <2>4, <3>2 DEF StreamInv, StreamPlaces
    <3> QED BY <3>1, <3>2
  <2> QED BY <1>1, <1>4, <1>8, <2>1, <2>2, <2>3, <2>4 DEF StreamInv, StreamPlaces
<1> QED BY <1>9, <1>10 DEF StreamInv

LEMMA StreamTaskEnds ==
  ASSUME StreamInv, NEW i \in StreamItem, TaskEnds(i)
  PROVE  StreamInv'
<1>1. /\ task[i] = "running" /\ task' = [task EXCEPT ![i] = "done"]
      /\ UNCHANGED <<putCount, buffer, flush, results, tracked, closer, returned, yielded>>
  BY DEF TaskEnds
<1>2. Resulting' = Resulting /\ \A q \in Flushers : Batch(q)' = Batch(q)
  BY <1>1 DEF Resulting, Batch
<1>3. task' \in [StreamItem -> {"none", "running", "done", "collected"}]
      /\ \A k \in StreamItem : task'[k] = IF k = i THEN "done" ELSE task[k]
  BY <1>1 DEF StreamInv, StreamSeqs
<1>4. StreamSeqs'
  BY <1>1, <1>2, <1>3 DEF StreamInv, StreamSeqs
<1>5. /\ Range(buffer) \subseteq StreamItem
      /\ \A q \in Flushers : Batch(q) \subseteq StreamItem
  <2>1. \A s \in Seq(StreamItem) : Range(s) \subseteq StreamItem
    BY LenProperties, ElementOfSeq DEF Range
  <2>2. buffer \in Seq(StreamItem) /\ \A q \in Flushers : flush[q].batch \in Seq(StreamItem)
    BY DEF StreamInv, StreamSeqs, FlushState
  <2> QED BY <2>1, <2>2 DEF Batch
<1>6. StreamPlaces'
  BY <1>1, <1>2, <1>3, <1>5 DEF StreamInv, StreamPlaces
<1> QED BY <1>4, <1>6 DEF StreamInv

\* Where an item is in a batch.
LEMMA PositionIs ==
  ASSUME NEW b \in Seq(StreamItem), IsInjective(b), NEW i \in Range(b)
  PROVE  (CHOOSE n \in DOMAIN b : b[n] = i) \in StreamItem
<1> DEFINE m == CHOOSE n \in DOMAIN b : b[n] = i
<1>1. m \in DOMAIN b
  BY DEF Range
<1>2. DOMAIN b = 1 .. Len(b) /\ Len(b) \in Nat /\ StreamItems \in Nat
  BY LenProperties, StreamAssumption
<1>3. b \in Injection(1 .. Len(b), StreamItem)
  BY <1>2, LenProperties, ElementOfSeq DEF Injection, IsInjective
<1>4. Len(b) <= StreamItems
  <2>1. /\ IsFiniteSet(1 .. Len(b)) /\ Cardinality(1 .. Len(b)) = Len(b)
    BY <1>2, FS_Interval
  <2>2. /\ IsFiniteSet(StreamItem) /\ Cardinality(StreamItem) = StreamItems
    BY <1>2, FS_Interval DEF StreamItem
  <2> QED BY <1>3, <2>1, <2>2, FS_Injection
<1> HIDE DEF m
<1>5. m \in StreamItem
  BY <1>1, <1>2, <1>4 DEF StreamItem
<1> QED BY <1>5 DEF m

LEMMA StreamCollects ==
  ASSUME StreamInv, NEW p \in Flushers, NEW i \in StreamItem, FlushCollects(p, i)
  PROVE  StreamInv'
<1> DEFINE b == flush[p].batch
           e == [index |-> CHOOSE n \in DOMAIN b : b[n] = i, item |-> i]
<1>1. /\ flush[p].at = "collect" /\ i \in Range(b) /\ task[i] = "done"
      /\ task' = [task EXCEPT ![i] = "collected"]
      /\ results' = Append(results, e)
      /\ flush' = IF \A k \in Range(b) : task'[k] = "collected"
                  THEN [flush EXCEPT ![p] = NoFlush] ELSE flush
      /\ UNCHANGED <<putCount, buffer, closer, returned, yielded>>
  BY DEF FlushCollects
<1>2. /\ flush \in [Flushers -> FlushState] /\ b \in Seq(StreamItem) /\ IsInjective(b)
      /\ task \in [StreamItem -> {"none", "running", "done", "collected"}]
      /\ results \in Seq(StreamResult) /\ Resulting \in Seq(StreamItem) /\ IsInjective(Resulting)
  BY DEF StreamInv, StreamSeqs, FlushState
<1>3. e \in StreamResult /\ e.item = i
  BY <1>1, <1>2, PositionIs DEF StreamResult
<1> HIDE DEF e
<1>4. results' \in Seq(StreamResult) /\ Resulting' = Append(Resulting, i)
  <2>1. /\ DOMAIN results = 1 .. Len(results) /\ Len(results) \in Nat
        /\ results' \in Seq(StreamResult) /\ DOMAIN results' = 1 .. (Len(results) + 1)
        /\ \A n \in 1 .. Len(results) : results'[n] = results[n]
        /\ results'[Len(results) + 1] = e
    BY <1>1, <1>2, <1>3, AppendProperties, LenProperties
  <2>2. /\ DOMAIN Resulting = 1 .. Len(results) /\ Len(Resulting) = Len(results)
        /\ \A n \in 1 .. Len(results) : Resulting[n] = results[n].item
    BY <1>2, <2>1, LenProperties DEF Resulting
  <2>3. /\ DOMAIN Append(Resulting, i) = 1 .. (Len(results) + 1)
        /\ \A n \in 1 .. Len(results) : Append(Resulting, i)[n] = Resulting[n]
        /\ Append(Resulting, i)[Len(results) + 1] = i
        /\ Append(Resulting, i) \in Seq(StreamItem)
    BY <1>2, <2>2, AppendProperties, LenProperties
  <2>4. /\ DOMAIN Resulting' = 1 .. (Len(results) + 1)
        /\ \A n \in 1 .. (Len(results) + 1) : Resulting'[n] = results'[n].item
        /\ Resulting' = [n \in 1 .. (Len(results) + 1) |-> Resulting'[n]]
    BY <2>1 DEF Resulting
  <2>5. Append(Resulting, i) = [n \in 1 .. (Len(results) + 1) |-> Append(Resulting, i)[n]]
    BY <2>3, LenProperties
  <2>6. ASSUME NEW n \in 1 .. (Len(results) + 1) PROVE Resulting'[n] = Append(Resulting, i)[n]
    <3>1. CASE n = Len(results) + 1
      <4>1. Resulting'[n] = results'[n].item /\ results'[n] = e
        BY <2>1, <2>4, <3>1
      <4>2. Append(Resulting, i)[n] = i
        BY <2>3, <3>1
      <4> QED BY <1>3, <4>1, <4>2
    <3>2. CASE n \in 1 .. Len(results)
      BY <2>1, <2>2, <2>3, <2>4, <3>2
    <3>3. Len(results) \in Nat
      BY <2>1
    <3>4. n = Len(results) + 1 \/ n \in 1 .. Len(results)
      BY <3>3
    <3> QED BY <3>1, <3>2, <3>4
  <2> HIDE DEF e
  <2> QED BY <2>1, <2>4, <2>5, <2>6
<1>5. /\ \A q \in Flushers : Batch(q) \subseteq StreamItem
      /\ Range(buffer) \subseteq StreamItem
  <2>1. \A s \in Seq(StreamItem) : Range(s) \subseteq StreamItem
    BY LenProperties, ElementOfSeq DEF Range
  <2>2. buffer \in Seq(StreamItem) /\ \A q \in Flushers : flush[q].batch \in Seq(StreamItem)
    BY DEF StreamInv, StreamSeqs, FlushState
  <2> QED BY <2>1, <2>2 DEF Batch
<1>6. i \in Batch(p) /\ i <= putCount /\ i \notin Range(Resulting) \cup yielded
  <2>1. i \in Batch(p) /\ ~(i > putCount)
    BY <1>1 DEF Batch, StreamInv, StreamPlaces
  <2>2. i <= putCount
    BY <2>1, StreamAssumption DEF StreamInv, StreamSeqs, StreamItem
  <2> QED BY <1>1, <2>1, <2>2 DEF StreamInv, StreamPlaces
<1>7. /\ Resulting' \in Seq(StreamItem) /\ IsInjective(Resulting')
      /\ Range(Resulting') = Range(Resulting) \cup {i}
  BY <1>2, <1>4, <1>6, AppendDistinct
<1>8. /\ task' \in [StreamItem -> {"none", "running", "done", "collected"}]
      /\ \A k \in StreamItem : task'[k] = IF k = i THEN "collected" ELSE task[k]
  BY <1>1, <1>2
<1>9. /\ flush' \in [Flushers -> FlushState]
      /\ \A q \in Flushers : \/ flush'[q] = flush[q]
                             \/ flush'[q] = NoFlush /\ \A k \in Batch(q) : task'[k] = "collected"
  <2>1. NoFlush \in FlushState
    BY EmptyDistinct DEF NoFlush, FlushState
  <2> QED BY <1>1, <1>2, <2>1 DEF Batch
<1>10. \A q \in Flushers : \/ flush'[q] = flush[q] /\ Batch(q)' = Batch(q)
                           \/ /\ flush'[q] = NoFlush /\ Batch(q)' = {}
                              /\ \A k \in Batch(q) : task'[k] = "collected"
  BY <1>9, EmptyDistinct DEF Batch, NoFlush
<1>11. StreamSeqs'
  <2>1. \A q \in Flushers : /\ IsInjective(flush'[q].batch)
                            /\ flush'[q].at = "none" => flush'[q] = NoFlush
    BY <1>9, EmptyDistinct DEF NoFlush, StreamInv, StreamSeqs
  <2> QED BY <1>1, <1>4, <1>7, <1>8, <1>9, <2>1 DEF StreamInv, StreamSeqs
<1>12. StreamPlaces'
  <2>1. ASSUME NEW k \in StreamItem, k > putCount
        PROVE  task'[k] = "none" /\ k \notin Range(buffer) /\ \A q \in Flushers : k \notin Batch(q)'
    <3>1. k # i
      BY <1>6, <2>1, StreamAssumption DEF StreamInv, StreamSeqs, StreamItem
    <3> QED BY <1>8, <1>10, <2>1, <3>1 DEF StreamInv, StreamPlaces
  <2>2. ASSUME NEW k \in Range(buffer)
        PROVE  task'[k] = "none" /\ \A q \in Flushers : k \notin Batch(q)'
    BY <1>1, <1>5, <1>8, <1>10, <2>2 DEF StreamInv, StreamPlaces
  <2>3. ASSUME NEW q \in Flushers, NEW k \in Batch(q)'
        PROVE  /\ flush'[q].at = "semaphore" => task'[k] = "none"
               /\ flush'[q].at = "collect" => task'[k] # "none"
               /\ \A r \in Flushers : k \in Batch(r)' => q = r
    <3>1. flush'[q] = flush[q] /\ Batch(q)' = Batch(q)
      BY <1>10, <2>3
    <3>2. /\ flush[q].at = "semaphore" => task[k] = "none"
          /\ flush[q].at = "collect" => task[k] # "none"
          /\ \A r \in Flushers : k \in Batch(r) => q = r
      BY <2>3, <3>1 DEF StreamInv, StreamPlaces
    <3>3. \A r \in Flushers : k \in Batch(r)' => k \in Batch(r)
      BY <1>10
    <3> QED BY <1>1, <1>5, <1>8, <2>3, <3>1, <3>2, <3>3
  <2>4. ASSUME NEW k \in StreamItem, k <= putCount
        PROVE  /\ task'[k] = "none" => k \in Range(buffer) \/ \E q \in Flushers : k \in Batch(q)'
               /\ task'[k] \in {"running", "done"} => \E q \in Flushers : k \in Batch(q)'
               /\ task'[k] = "collected" <=> k \in Range(Resulting') \cup yielded
    <3>1. CASE k = i
      BY <1>7, <1>8, <3>1
    <3>2. CASE k # i
      <4>1. task'[k] = task[k]
        BY <1>8, <3>2
      <4>2. \A q \in Flushers : k \in Batch(q) /\ task[k] # "collected" => k \in Batch(q)'
        BY <1>10, <4>1
      <4> QED BY <1>7, <2>4, <3>2, <4>1, <4>2 DEF StreamInv, StreamPlaces
    <3> QED BY <3>1, <3>2
  <2>5. /\ Range(Resulting') \cap yielded = {}
        /\ \A k \in Range(Resulting') \cup yielded : k <= putCount
    BY <1>6, <1>7 DEF StreamInv, StreamPlaces
  <2> QED BY <1>1, <2>1, <2>2, <2>3, <2>4, <2>5 DEF StreamPlaces
<1> QED BY <1>11, <1>12 DEF StreamInv

LEMMA StreamShuts ==
  ASSUME StreamInv, closer = "open" => flush[Closer] = NoFlush, CloseStream
  PROVE  StreamInv'
<1>1. /\ Closer \in Flushers /\ flush[Closer] = NoFlush /\ Flush(Closer, buffer) /\ buffer' = <<>>
      /\ UNCHANGED <<putCount, results, returned, yielded>>
  BY DEF CloseStream, Flushers
<1>2. /\ buffer \in Seq(StreamItem) /\ IsInjective(buffer)
      /\ \A i \in Range(buffer) : task[i] = "none" /\ \A q \in Flushers : i \notin Batch(q)
  BY DEF StreamInv, StreamSeqs, StreamPlaces
<1>3. buffer' \in Seq(StreamItem) /\ IsInjective(buffer') /\ Range(buffer') = {} /\ Len(buffer') = 0
      /\ MaxBuffer \in Nat \ {0} /\ Batch(Closer) = {}
  BY <1>1, EmptyDistinct, EmptySeq, StreamAssumption DEF Batch, NoFlush
<1>4. /\ flush' \in [Flushers -> FlushState]
      /\ \A q \in Flushers : /\ IsInjective(flush'[q].batch)
                             /\ flush'[q].at = "none" => flush'[q] = NoFlush
      /\ task' \in [StreamItem -> {"none", "running", "done", "collected"}]
      /\ \A q \in Flushers : Batch(q)' = IF q = Closer THEN Range(buffer) ELSE Batch(q)
      /\ \A q \in Flushers : \A i \in Batch(q)' :
            /\ flush'[q].at = "semaphore" => task'[i] = "none"
            /\ flush'[q].at = "collect" => task'[i] # "none"
      /\ \A i \in StreamItem : IF i \in Range(buffer) THEN task'[i] \in {"none", "running"}
                                                      ELSE task'[i] = task[i]
  BY <1>1, <1>2, FlushTakes
<1>5. Resulting' = Resulting
  BY <1>1 DEF Resulting
<1>6. StreamSeqs'
  BY <1>1, <1>3, <1>4, <1>5 DEF StreamInv, StreamSeqs
<1>7. StreamPlaces'
  <2>1. ASSUME NEW i \in StreamItem, i > putCount
        PROVE  task'[i] = "none" /\ i \notin Range(buffer') /\ \A q \in Flushers : i \notin Batch(q)'
    BY <1>3, <1>4, <2>1 DEF StreamInv, StreamPlaces
  <2>2. ASSUME NEW q \in Flushers, NEW i \in Batch(q)', NEW r \in Flushers, i \in Batch(r)'
        PROVE  q = r
    BY <1>2, <1>4, <2>2 DEF StreamInv, StreamPlaces
  <2>3. ASSUME NEW i \in StreamItem, i <= putCount
        PROVE  /\ task'[i] = "none" => \E q \in Flushers : i \in Batch(q)'
               /\ task'[i] \in {"running", "done"} => \E q \in Flushers : i \in Batch(q)'
               /\ task'[i] = "collected" <=> i \in Range(Resulting) \cup yielded
    <3>1. CASE i \in Range(buffer)
      <4>1. i \notin Range(Resulting) \cup yielded
        BY <1>2, <2>3, <3>1 DEF StreamInv, StreamPlaces
      <4> QED BY <1>1, <1>4, <3>1, <4>1
    <3>2. CASE i \notin Range(buffer)
      <4>1. task'[i] = task[i]
        BY <1>4, <3>2
      <4>2. ASSUME NEW q \in Flushers, i \in Batch(q) PROVE i \in Batch(q)'
        BY <1>3, <1>4, <4>2
      <4> QED BY <2>3, <3>2, <4>1, <4>2 DEF StreamInv, StreamPlaces
    <3> QED BY <3>1, <3>2
  <2> QED BY <1>1, <1>3, <1>4, <1>5, <2>1, <2>2, <2>3 DEF StreamInv, StreamPlaces
<1> QED BY <1>6, <1>7 DEF StreamInv

LEMMA StreamReads ==
  ASSUME StreamInv, ReadResult
  PROVE  StreamInv'
<1> DEFINE h == Head(results).item
<1>1. /\ results # <<>> /\ results' = Tail(results) /\ yielded' = yielded \cup {h}
      /\ UNCHANGED <<putCount, buffer, flush, task, tracked, closer, returned>>
  BY DEF ReadResult
<1>2. /\ results \in Seq(StreamResult) /\ Resulting \in Seq(StreamItem) /\ IsInjective(Resulting)
  BY DEF StreamInv, StreamSeqs
<1>3. /\ DOMAIN results = 1 .. Len(results) /\ Len(results) \in Nat /\ Len(results) > 0
      /\ Tail(results) \in Seq(StreamResult) /\ DOMAIN Tail(results) = 1 .. (Len(results) - 1)
      /\ \A n \in 1 .. (Len(results) - 1) : Tail(results)[n] = results[n + 1]
      /\ Head(results) = results[1]
  BY <1>1, <1>2, HeadTailProperties, LenProperties, EmptySeq
<1>4. /\ DOMAIN Resulting = 1 .. Len(results) /\ Len(Resulting) = Len(results)
      /\ \A n \in 1 .. Len(results) : Resulting[n] = results[n].item
      /\ Resulting # <<>>
  BY <1>2, <1>3, LenProperties, EmptySeq DEF Resulting
<1>5. /\ Head(Resulting) = h
      /\ DOMAIN Tail(Resulting) = 1 .. (Len(results) - 1)
      /\ \A n \in 1 .. (Len(results) - 1) : Tail(Resulting)[n] = Resulting[n + 1]
      /\ Tail(Resulting) \in Seq(StreamItem)
  BY <1>2, <1>3, <1>4, HeadTailProperties, LenProperties
<1>6. Resulting' = Tail(Resulting)
  <2>1. /\ DOMAIN Resulting' = 1 .. (Len(results) - 1)
        /\ \A n \in 1 .. (Len(results) - 1) : Resulting'[n] = Tail(results)[n].item
        /\ Resulting' = [n \in 1 .. (Len(results) - 1) |-> Resulting'[n]]
    BY <1>1, <1>3 DEF Resulting
  <2>2. Tail(Resulting) = [n \in 1 .. (Len(results) - 1) |-> Tail(Resulting)[n]]
    BY <1>5, LenProperties
  <2>3. ASSUME NEW n \in 1 .. (Len(results) - 1) PROVE Resulting'[n] = Tail(Resulting)[n]
    <3>1. n + 1 \in 1 .. Len(results)
      BY <1>3
    <3> QED BY <1>3, <1>4, <1>5, <2>1, <3>1
  <2> QED BY <2>1, <2>2, <2>3
<1>7. /\ Resulting' \in Seq(StreamItem) /\ IsInjective(Resulting') /\ h \in StreamItem
      /\ Range(Resulting') = Range(Resulting) \ {h} /\ h \in Range(Resulting)
  BY <1>2, <1>4, <1>5, <1>6, TailDistinct
<1> HIDE DEF h
<1>8. StreamSeqs'
  BY <1>1, <1>3, <1>7 DEF StreamInv, StreamSeqs
<1>9. Range(Resulting') \cup yielded' = Range(Resulting) \cup yielded
      /\ \A q \in Flushers : Batch(q)' = Batch(q)
  BY <1>1, <1>7 DEF Batch
<1>10. StreamPlaces'
  BY <1>1, <1>7, <1>9 DEF StreamInv, StreamPlaces
<1> QED BY <1>8, <1>10 DEF StreamInv

\* close() has no flush before it begins, and leaves no buffer; the tasks it
\* knows of are all there are, but for those of the flushes in the queue.
Queued(B) == \A p \in Flushers : flush[p].at = "semaphore" => Batch(p) \subseteq B

CloserInv ==
  /\ closer \in {"open", "flush", "gather", "returned"}
  /\ closer = "open" => flush[Closer] = NoFlush
  /\ closer # "open" => buffer = <<>>
  /\ closer \in {"gather", "returned"} => Queued(unheard)
  /\ \A i \in StreamItem : task[i] # "none" => i \in tracked
  /\ CloseReturnsAll

\* A step of a flush after close(): none gets into the queue.
LEMMA FlushesGoOn ==
  ASSUME StreamInv, CloserInv, UNCHANGED <<putCount, buffer, closer, unheard, returned, yielded>>,
         flush' \in [Flushers -> FlushState],
         \A p \in Flushers : flush'[p].at = "semaphore" => flush'[p] = flush[p],
         flush'[Closer] = flush[Closer] \/ flush[Closer] # NoFlush,
         \A i \in StreamItem : task'[i] # "none" => i \in tracked'
  PROVE  CloserInv'
<1>1. CloseReturnsAll'
  BY DEF CloserInv, CloseReturnsAll
<1>2. closer' \in {"gather", "returned"} => Queued(unheard)'
  BY DEF CloserInv, Queued, Batch
<1> QED BY <1>1, <1>2 DEF CloserInv

LEMMA CloserReturns ==
  ASSUME StreamInv, CloserInv, StreamCloses
  PROVE  CloserInv'
<1>1. /\ closer = "gather" /\ Gathered /\ closer' = "returned" /\ returned' = Range(results)
      /\ UNCHANGED <<putCount, buffer, flush, task, results, tracked, unheard, yielded>>
  BY DEF StreamCloses
<1>2. /\ buffer = <<>> /\ Range(buffer) = {} /\ Queued(unheard)
  BY <1>1, EmptyDistinct DEF CloserInv
<1>3. ASSUME NEW i \in 1 .. putCount, i \notin unheard
      PROVE  i \in yielded \/ \E r \in returned' : r.item = i
  <2>1. i \in StreamItem /\ i <= putCount
    BY StreamAssumption DEF StreamInv, StreamSeqs, StreamItem
  <2>2. task[i] # "none"
    <3> SUFFICES ASSUME task[i] = "none" PROVE FALSE
      OBVIOUS
    <3>1. PICK p \in Flushers : i \in Batch(p)
      BY <1>2, <2>1 DEF StreamInv, StreamPlaces
    <3>2. flush[p].at # "semaphore"
      BY <1>2, <1>3, <3>1 DEF Queued
    <3>3. flush[p].at # "collect"
      BY <3>1 DEF StreamInv, StreamPlaces
    <3>4. flush[p] = NoFlush
      BY <3>2, <3>3 DEF StreamInv, StreamSeqs, FlushState
    <3> QED BY <3>1, <3>4, EmptyDistinct DEF Batch, NoFlush
  <2>3. task[i] = "collected"
    BY <1>1, <1>3, <2>1, <2>2 DEF CloserInv, Gathered
  <2>4. i \in Range(Resulting) \cup yielded
    BY <2>1, <2>3 DEF StreamInv, StreamPlaces
  <2>5. ASSUME i \in Range(Resulting) PROVE \E r \in returned' : r.item = i
    <3>1. PICK n \in DOMAIN Resulting : Resulting[n] = i
      BY <2>5 DEF Range
    <3>2. n \in DOMAIN results /\ results[n].item = i
      BY <3>1 DEF Resulting
    <3> QED BY <1>1, <3>2 DEF Range
  <2> QED BY <2>4, <2>5
<1>4. CloseReturnsAll'
  BY <1>1, <1>3 DEF CloseReturnsAll
<1>5. Queued(unheard)'
  BY <1>1, <1>2 DEF Queued, Batch
<1> QED BY <1>1, <1>2, <1>4, <1>5 DEF CloserInv

\* gather is called.
LEMMA GatherHears ==
  ASSUME GatherCalled, UNCHANGED flush
  PROVE  closer' = "gather" /\ Queued(unheard)'
<1>1. unheard' = UNION {Batch(p) : p \in InQueue}
  BY DEF GatherCalled, Batch
<1>2. ASSUME NEW p \in Flushers, flush'[p].at = "semaphore" PROVE Batch(p)' \subseteq unheard'
  <2>1. p \in InQueue /\ Batch(p)' = Batch(p)
    BY <1>2 DEF InQueue, Batch
  <2> QED BY <1>1, <2>1
<1> QED BY <1>2 DEF GatherCalled, Queued

LEMMA CloserInductive ==
  ASSUME StreamInv, CloserInv, Closer \notin Producers, [StreamNext]_streamVars
  PROVE  CloserInv'
<1>1. /\ Closer \in Flushers /\ \A p \in Producers : p # Closer /\ p \in Flushers
      /\ flush \in [Flushers -> FlushState]
      /\ task \in [StreamItem -> {"none", "running", "done", "collected"}]
  BY DEF Flushers, StreamInv, StreamSeqs
<1>0. \A batch : StartTasks(batch) =>
        ((\A i \in StreamItem : task[i] # "none" => i \in tracked) =>
           \A i \in StreamItem : task'[i] # "none" => i \in tracked')
  BY DEF StartTasks
<1>2. CASE UNCHANGED streamVars
  BY <1>2 DEF streamVars, CloserInv, Queued, Batch, CloseReturnsAll
<1>3. ASSUME NEW p \in Producers, Put(p) PROVE CloserInv'
  <2>1. /\ closer = "open" /\ closer' = closer /\ flush'[Closer] = flush[Closer]
        /\ \A i \in StreamItem : task'[i] # "none" => i \in tracked'
    BY <1>0, <1>1, <1>3 DEF Put, Flush, CloserInv
  <2> QED BY <2>1 DEF CloserInv, CloseReturnsAll
<1>4. ASSUME NEW p \in Flushers, FlushStarts(p) PROVE CloserInv'
  <2>1. /\ UNCHANGED <<putCount, buffer, closer, unheard, returned, yielded>>
        /\ flush' = [flush EXCEPT ![p].at = "collect"] /\ flush[p] # NoFlush
        /\ \A i \in StreamItem : task'[i] # "none" => i \in tracked'
    BY <1>0, <1>4 DEF FlushStarts, InQueue, NoFlush, CloserInv
  <2>2. /\ flush' \in [Flushers -> FlushState]
        /\ \A q \in Flushers : flush'[q].at = "semaphore" => flush'[q] = flush[q]
        /\ flush'[Closer] = flush[Closer] \/ flush[Closer] # NoFlush
    BY <1>1, <2>1 DEF FlushState
  <2> QED BY <2>1, <2>2, FlushesGoOn
<1>5. ASSUME NEW p \in Flushers, NEW i \in StreamItem, FlushCollects(p, i) PROVE CloserInv'
  <2>1. /\ UNCHANGED <<putCount, buffer, closer, unheard, returned, yielded>>
        /\ flush' = [flush EXCEPT ![p] = NoFlush] \/ flush' = flush
        /\ flush[p].at = "collect" /\ task[i] = "done"
        /\ task' = [task EXCEPT ![i] = "collected"] /\ tracked' = tracked
    BY <1>5 DEF FlushCollects, TrackedAfter
  <2>2. \A k \in StreamItem : task'[k] # "none" => k \in tracked'
    BY <1>1, <2>1 DEF CloserInv
  <2>3. NoFlush \in FlushState /\ NoFlush.at = "none"
    BY EmptyDistinct DEF NoFlush, FlushState
  <2>4. /\ flush' \in [Flushers -> FlushState]
        /\ \A q \in Flushers : flush'[q].at = "semaphore" => flush'[q] = flush[q]
        /\ flush'[Closer] = flush[Closer] \/ flush[Closer] # NoFlush
    BY <1>1, <2>1, <2>3
  <2> QED BY <2>1, <2>2, <2>4, FlushesGoOn
<1>6. ASSUME NEW i \in StreamItem, TaskEnds(i) PROVE CloserInv'
  <2>1. /\ UNCHANGED <<putCount, buffer, flush, tracked, closer, unheard, returned, yielded>>
        /\ \A k \in StreamItem : task'[k] # "none" => task[k] # "none"
    BY <1>1, <1>6 DEF TaskEnds
  <2>2. \A k \in StreamItem : task'[k] # "none" => k \in tracked'
    BY <2>1 DEF CloserInv
  <2> QED BY <1>1, <2>1, <2>2, FlushesGoOn
<1>7. CASE CloseStream
  <2>1. /\ closer = "open" /\ buffer' = <<>> /\ Flush(Closer, buffer)
        /\ closer' # "returned"
        /\ closer' # "open" /\ closer' \in {"flush", "gather"}
    BY <1>7 DEF CloseStream, GatherCalled
  <2>2. \A k \in StreamItem : task'[k] # "none" => k \in tracked'
    BY <1>0, <2>1 DEF Flush, CloserInv
  <2>3. closer' = "gather" => Queued(unheard)'
    <3>1. closer' = "gather" => GatherCalled /\ UNCHANGED flush
      BY <1>7 DEF CloseStream, Flush
    <3> QED BY <3>1, GatherHears
  <2> QED BY <2>1, <2>2, <2>3 DEF CloserInv, CloseReturnsAll
<1>8. CASE CloseGathers
  <2>1. /\ closer = "flush" /\ closer' = "gather" /\ Queued(unheard)'
        /\ UNCHANGED <<buffer, task, tracked>>
    BY <1>8, GatherHears DEF CloseGathers
  <2> QED BY <2>1 DEF CloserInv, CloseReturnsAll
<1>9. CASE ReadResult
  <2>1. /\ UNCHANGED <<putCount, buffer, flush, task, tracked, closer, unheard, returned>>
        /\ yielded \subseteq yielded'
    BY <1>9 DEF ReadResult
  <2>2. CloseReturnsAll'
    BY <2>1 DEF CloserInv, CloseReturnsAll
  <2> QED BY <2>1, <2>2 DEF CloserInv, Queued, Batch
<1> QED BY <1>2, <1>3, <1>4, <1>5, <1>6, <1>7, <1>8, <1>9, CloserReturns DEF StreamNext

LEMMA StreamInductive ==
  ASSUME StreamInv, CloserInv, [StreamNext]_streamVars
  PROVE  StreamInv'
<1>1. CASE UNCHANGED streamVars \/ CloseGathers \/ StreamCloses
  <2>1. UNCHANGED <<putCount, buffer, flush, task, results, yielded>>
    BY <1>1 DEF streamVars, CloseGathers, StreamCloses
  <2> QED BY <2>1 DEF StreamInv, StreamSeqs, StreamPlaces, Resulting, Batch
<1> QED BY <1>1, StreamPuts, StreamFlushStarts, StreamTaskEnds, StreamCollects, StreamShuts, StreamReads
    DEF StreamNext, CloserInv

\* A sequence without repetition has an element once, or not at all.
LEMMA TimesOnce ==
  ASSUME NEW S, NEW s \in Seq(S), IsInjective(s), NEW i
  PROVE  Times(s, i) = IF i \in Range(s) THEN 1 ELSE 0
<1>1. CASE i \in Range(s)
  <2>1. PICK n \in DOMAIN s : s[n] = i
    BY <1>1 DEF Range
  <2>2. {m \in DOMAIN s : s[m] = i} = {n}
    BY <2>1 DEF IsInjective
  <2> QED BY <1>1, <2>2, FS_Singleton DEF Times
<1>2. CASE i \notin Range(s)
  <2>1. {m \in DOMAIN s : s[m] = i} = {}
    BY <1>2 DEF Range
  <2> QED BY <1>2, <2>1, FS_EmptySet DEF Times
<1> QED BY <1>1, <1>2

LEMMA StreamInvSafe ==
  ASSUME StreamInv
  PROVE  StreamKeeps
<1> SUFFICES ASSUME NEW i \in 1 .. putCount
             PROVE  LET inBuffer == {p \in Flushers : task[i] # "collected" /\ i \in Range(flush[p].batch)}
                    IN  Times(buffer, i) + Cardinality(inBuffer) + Times(Resulting, i)
                          + Cardinality(yielded \cap {i}) = 1
  BY DEF StreamKeeps
<1> DEFINE inBuffer == {p \in Flushers : task[i] # "collected" /\ i \in Batch(p)}
<1>1. i \in StreamItem /\ i <= putCount
  BY StreamAssumption DEF StreamInv, StreamSeqs, StreamItem
<1>2. /\ Times(buffer, i) = IF i \in Range(buffer) THEN 1 ELSE 0
      /\ Times(Resulting, i) = IF i \in Range(Resulting) THEN 1 ELSE 0
  BY TimesOnce DEF StreamInv, StreamSeqs
<1>3. Cardinality(yielded \cap {i}) = IF i \in yielded THEN 1 ELSE 0
  <2>1. CASE i \in yielded
    <3>1. yielded \cap {i} = {i}
      BY <2>1
    <3> QED BY <2>1, <3>1, FS_Singleton
  <2>2. CASE i \notin yielded
    <3>1. yielded \cap {i} = {}
      BY <2>2
    <3> QED BY <2>2, <3>1, FS_EmptySet
  <2> QED BY <2>1, <2>2
<1>4. Cardinality(inBuffer) = IF task[i] # "collected" /\ \E p \in Flushers : i \in Batch(p) THEN 1 ELSE 0
  <2>1. CASE inBuffer # {}
    <3>1. PICK p \in inBuffer : TRUE
      BY <2>1
    <3>2. inBuffer = {p}
      BY <3>1 DEF StreamInv, StreamPlaces
    <3> QED BY <3>1, <3>2, FS_Singleton
  <2>2. CASE inBuffer = {}
    BY <2>2, FS_EmptySet
  <2> QED BY <2>1, <2>2
<1>5. /\ task[i] \in {"none", "running", "done", "collected"}
      /\ task[i] = "none" => i \in Range(buffer) \/ \E p \in Flushers : i \in Batch(p)
      /\ task[i] \in {"running", "done"} => \E p \in Flushers : i \in Batch(p)
      /\ task[i] = "collected" <=> i \in Range(Resulting) \cup yielded
      /\ ~(i \in Range(Resulting) /\ i \in yielded)
      /\ i \in Range(buffer) => task[i] = "none" /\ \A p \in Flushers : i \notin Batch(p)
  BY <1>1 DEF StreamInv, StreamSeqs, StreamPlaces
<1>6. Times(buffer, i) + Cardinality(inBuffer) + Times(Resulting, i) + Cardinality(yielded \cap {i}) = 1
  BY <1>2, <1>3, <1>4, <1>5
<1> QED BY <1>6 DEF Batch

-----------------------------------------------------------------------------
(***************************************************************************)
(* The metrics.  A counter and the calls that are still to increment it     *)
(* make up what happened; a call that will count as special has already     *)
(* been counted as one of its kind.  A scrape never sees more than is there.*)
(***************************************************************************)
MetCall == [kind : MetricKinds, by : {"direct", "context"}, extra : BOOLEAN, long : 1 .. 2,
            at : {"idle", "run", "total", "observe", "extra"}]

\* A call is still to increment counter c.
Owes(next, c) ==
  \/ next.at = "total" /\ TotalOf[next.kind] = c
  \/ next.at \in {"total", "observe", "extra"} /\ next.extra /\ ExtraOf[next.kind] = c
Owing(c) == {t \in Recorders : Owes(recording[t], c)}

\* A special call of kind k that has been counted, and not yet as special.
Late(next, k) == next.kind = k /\ next.extra /\ next.at \in {"observe", "extra"}
LateOnes(k) == {t \in Recorders : Late(recording[t], k)}

One(p) == IF p THEN 1 ELSE 0

Readings == DOMAIN Read
IsReading(s) == s = [r \in ToSet(ReadOrder) |-> s[r]] /\ \A r \in Readings : s[r] \in Nat

CountsInv ==
  /\ counters \in [Counters -> Nat] /\ happened \in [Counters -> Nat]
  /\ recording \in [Recorders -> MetCall]
  /\ \A t \in Recorders :
       recording[t].extra /\ recording[t].at # "idle" => recording[t].kind \in {"projection", "request"}
  /\ \A c \in Counters : counters[c] + Cardinality(Owing(c)) = happened[c]
  /\ counters["failed"] + Cardinality(LateOnes("request")) <= counters["requests"]
  /\ counters["cached"] + Cardinality(LateOnes("projection")) <= counters["projections"]

ScrapesInv ==
  /\ scraping.at \in 0 .. Len(ReadOrder)
  /\ scraping = [at |-> scraping.at, saw |-> scraping.saw]
  /\ IsReading(scraping.saw) /\ IsReading(lastScrape)
  /\ \A r \in Readings : scraping.saw[r] <= counters[Read[r]] /\ lastScrape[r] <= counters[Read[r]]
  /\ \A i \in 1 .. (scraping.at - 1) :
       ReadOrder[i] \in Readings => scraping.saw[ReadOrder[i]] >= lastScrape[ReadOrder[i]]

MetInv == CountsInv /\ ScrapesInv

LEMMA MetricTables ==
  /\ MetricKinds = {"projection", "operation", "request", "hit", "miss"}
  /\ TotalOf["projection"] = "projections" /\ TotalOf["operation"] = "operations"
  /\ TotalOf["request"] = "requests" /\ TotalOf["hit"] = "hits" /\ TotalOf["miss"] = "misses"
  /\ ExtraOf["projection"] = "cached" /\ ExtraOf["request"] = "failed"
BY DEF MetricKinds, TotalOf, ExtraOf

LEMMA ReadTables ==
  /\ Len(ReadOrder) = 14 /\ DOMAIN ReadOrder = 1 .. 14
  /\ \A i \in 1 .. 14 : /\ ReadOrder[i] \in ToSet(ReadOrder)
                        /\ ReadOrder[i] \in Readings \/ ReadOrder[i] \in {"le", "inf", "count"}
  /\ \A r \in Readings : Read[r] \in Counters /\ r \in ToSet(ReadOrder)
                         /\ r # "le" /\ r # "inf" /\ r # "count"
<1>1. Len(ReadOrder) = 14 /\ DOMAIN ReadOrder = 1 .. 14
  BY DEF ReadOrder
<1>2. Readings = {"projections", "cached", "operations", "hits", "misses", "rateHits", "rateMisses",
                  "requests", "failed", "rateTotal", "rateFailed"}
  BY DEF Readings, Read
<1>3. /\ ReadOrder[1] = "projections" /\ ReadOrder[2] = "cached" /\ ReadOrder[3] = "le"
      /\ ReadOrder[4] = "inf" /\ ReadOrder[5] = "count" /\ ReadOrder[6] = "operations"
      /\ ReadOrder[7] = "hits" /\ ReadOrder[8] = "misses" /\ ReadOrder[9] = "rateHits"
      /\ ReadOrder[10] = "rateMisses" /\ ReadOrder[11] = "requests" /\ ReadOrder[12] = "failed"
      /\ ReadOrder[13] = "rateTotal" /\ ReadOrder[14] = "rateFailed"
  BY DEF ReadOrder
<1>4. \A i \in 1 .. 14 : ReadOrder[i] \in ToSet(ReadOrder)
  BY <1>1 DEF ToSet
<1>5. \A i \in 1 .. 14 : i = 1 \/ i = 2 \/ i = 3 \/ i = 4 \/ i = 5 \/ i = 6 \/ i = 7 \/ i = 8
                         \/ i = 9 \/ i = 10 \/ i = 11 \/ i = 12 \/ i = 13 \/ i = 14
  OBVIOUS
<1>6. \A i \in 1 .. 14 : ReadOrder[i] \in Readings \/ ReadOrder[i] \in {"le", "inf", "count"}
  BY <1>2, <1>3, <1>5
<1>7. \A r \in Readings : Read[r] \in Counters
  BY <1>2 DEF Read, Counters
<1>8. \A r \in Readings : r \in ToSet(ReadOrder)
  <2>1. 1 \in 1 .. 14 /\ 2 \in 1 .. 14 /\ 6 \in 1 .. 14 /\ 7 \in 1 .. 14 /\ 8 \in 1 .. 14
        /\ 9 \in 1 .. 14 /\ 10 \in 1 .. 14 /\ 11 \in 1 .. 14 /\ 12 \in 1 .. 14 /\ 13 \in 1 .. 14
        /\ 14 \in 1 .. 14
    OBVIOUS
  <2> QED BY <1>2, <1>3, <1>4, <2>1
<1>9. \A r \in Readings : r # "le" /\ r # "inf" /\ r # "count"
  BY <1>2
<1> QED BY <1>1, <1>4, <1>6, <1>7, <1>8, <1>9

\* Two sets that agree but for one element.
LEMMA ChangeOne ==
  ASSUME NEW S, IsFiniteSet(S), NEW T, NEW x, T \ {x} = S \ {x}
  PROVE  /\ IsFiniteSet(T) /\ Cardinality(S) \in Nat /\ Cardinality(T) \in Nat
         /\ Cardinality(T) + One(x \in S) = Cardinality(S) + One(x \in T)
<1>1. Cardinality(S) \in Nat
  BY FS_CardinalityType
<1>2. /\ IsFiniteSet(S \ {x})
      /\ Cardinality(S \ {x}) = IF x \in S THEN Cardinality(S) - 1 ELSE Cardinality(S)
  BY FS_RemoveElement
<1>3. T = (S \ {x}) \cup (IF x \in T THEN {x} ELSE {})
  OBVIOUS
<1>4. CASE x \in T
  <2>1. T = (S \ {x}) \cup {x} /\ x \notin S \ {x}
    BY <1>3, <1>4
  <2>2. IsFiniteSet(T) /\ Cardinality(T) = Cardinality(S \ {x}) + 1
    BY <1>2, <2>1, FS_AddElement
  <2> QED BY <1>1, <1>2, <1>4, <2>2 DEF One
<1>5. CASE x \notin T
  <2>1. T = S \ {x}
    BY <1>3, <1>5
  <2> QED BY <1>1, <1>2, <1>5, <2>1, FS_CardinalityType DEF One
<1> QED BY <1>4, <1>5

LEMMA MetStarts ==
  ASSUME MetInit
  PROVE  MetInv
<1>1. /\ counters = [c \in Counters |-> 0] /\ happened = [c \in Counters |-> 0]
      /\ recording = [t \in Recorders |-> NoCall]
      /\ scraping = [at |-> 0, saw |-> NothingRead] /\ lastScrape = NothingRead
  BY DEF MetInit
<1>2. \A c \in Counters : Owing(c) = {}
  BY <1>1 DEF Owing, Owes, NoCall
<1>3. \A k : LateOnes(k) = {}
  BY <1>1 DEF LateOnes, Late, NoCall
<1>4. NoCall \in MetCall /\ ~NoCall.extra
  BY MetricTables DEF NoCall, MetCall
<1>5. CountsInv
  <2>1. "failed" \in Counters /\ "requests" \in Counters /\ "cached" \in Counters /\ "projections" \in Counters
    BY DEF Counters
  <2> QED BY <1>1, <1>2, <1>3, <1>4, <2>1, FS_EmptySet DEF CountsInv
<1>6. IsReading(NothingRead) /\ \A r \in Readings : NothingRead[r] = 0 /\ Read[r] \in Counters
  BY ReadTables DEF IsReading, NothingRead
<1>7. ScrapesInv
  BY <1>1, <1>6, ReadTables DEF ScrapesInv
<1> QED BY <1>5, <1>7 DEF MetInv

\* One recorder makes a step: what it owes, and what is due, is counted again.
LEMMA RecorderSteps ==
  ASSUME CountsInv, NEW t \in Recorders, NEW next \in MetCall,
         recording' = [recording EXCEPT ![t] = next],
         next.extra /\ next.at # "idle" => next.kind \in {"projection", "request"},
         counters' \in [Counters -> Nat], happened' \in [Counters -> Nat],
         \A c \in Counters :
            counters'[c] + One(Owes(next, c)) + happened[c]
              = happened'[c] + counters[c] + One(Owes(recording[t], c)),
         counters'["failed"] + One(Late(next, "request")) + counters["requests"]
           <= counters'["requests"] + counters["failed"] + One(Late(recording[t], "request")),
         counters'["cached"] + One(Late(next, "projection")) + counters["projections"]
           <= counters'["projections"] + counters["cached"] + One(Late(recording[t], "projection"))
  PROVE  CountsInv'
<1>1. /\ recording \in [Recorders -> MetCall] /\ IsFiniteSet(Recorders)
      /\ recording' \in [Recorders -> MetCall] /\ recording'[t] = next
      /\ \A u \in Recorders : u # t => recording'[u] = recording[u]
      /\ counters \in [Counters -> Nat] /\ happened \in [Counters -> Nat]
  BY MetAssumption DEF CountsInv
<1>2. ASSUME NEW c \in Counters
      PROVE  counters'[c] + Cardinality(Owing(c)') = happened'[c]
  <2>1. Owing(c)' \ {t} = Owing(c) \ {t} /\ IsFiniteSet(Owing(c))
    BY <1>1, FS_Subset DEF Owing
  <2>2. /\ t \in Owing(c) <=> Owes(recording[t], c)
        /\ t \in Owing(c)' <=> Owes(next, c)
    BY <1>1 DEF Owing
  <2>3. /\ Cardinality(Owing(c)) \in Nat /\ Cardinality(Owing(c)') \in Nat
        /\ Cardinality(Owing(c)') + One(Owes(recording[t], c)) = Cardinality(Owing(c)) + One(Owes(next, c))
    BY <2>1, <2>2, ChangeOne DEF One
  <2>4. counters[c] + Cardinality(Owing(c)) = happened[c]
    BY DEF CountsInv
  <2>5. /\ counters[c] \in Nat /\ counters'[c] \in Nat /\ happened[c] \in Nat /\ happened'[c] \in Nat
        /\ One(Owes(next, c)) \in Nat /\ One(Owes(recording[t], c)) \in Nat
    BY <1>1 DEF One
  <2>6. counters'[c] + One(Owes(next, c)) + happened[c]
          = happened'[c] + counters[c] + One(Owes(recording[t], c))
    OBVIOUS
  <2> QED BY <2>3, <2>4, <2>5, <2>6
<1>3. ASSUME NEW k
      PROVE  /\ Cardinality(LateOnes(k)) \in Nat /\ Cardinality(LateOnes(k)') \in Nat
             /\ Cardinality(LateOnes(k)') + One(Late(recording[t], k))
                  = Cardinality(LateOnes(k)) + One(Late(next, k))
  <2>1. LateOnes(k)' \ {t} = LateOnes(k) \ {t} /\ IsFiniteSet(LateOnes(k))
    BY <1>1, FS_Subset DEF LateOnes
  <2>2. /\ t \in LateOnes(k) <=> Late(recording[t], k)
        /\ t \in LateOnes(k)' <=> Late(next, k)
    BY <1>1 DEF LateOnes
  <2> QED BY <2>1, <2>2, ChangeOne DEF One
<1>4. /\ "failed" \in Counters /\ "requests" \in Counters /\ "cached" \in Counters
      /\ "projections" \in Counters /\ \A p : One(p) \in Nat
  BY DEF Counters, One
<1>5. counters'["failed"] + Cardinality(LateOnes("request")') <= counters'["requests"]
  <2>1. counters["failed"] + Cardinality(LateOnes("request")) <= counters["requests"]
    BY DEF CountsInv
  <2> QED BY <1>1, <1>3, <1>4, <2>1
<1>6. counters'["cached"] + Cardinality(LateOnes("projection")') <= counters'["projections"]
  <2>1. counters["cached"] + Cardinality(LateOnes("projection")) <= counters["projections"]
    BY DEF CountsInv
  <2> QED BY <1>1, <1>3, <1>4, <2>1
<1>7. \A u \in Recorders :
        recording'[u].extra /\ recording'[u].at # "idle" => recording'[u].kind \in {"projection", "request"}
  BY <1>1 DEF CountsInv
<1> QED BY <1>1, <1>2, <1>5, <1>6, <1>7 DEF CountsInv


LEMMA MetMeasures ==
  ASSUME CountsInv, NEW t \in Recorders, NEW next \in MeasuredCalls, Measure(t, next)
  PROVE  CountsInv'
<1>1. /\ recording[t].at = "idle" /\ recording' = [recording EXCEPT ![t] = next]
      /\ counters' = counters /\ happened' = happened
  BY DEF Measure
<1>2. next \in MetCall /\ next.at = "run" /\ (next.extra => next.kind \in {"projection", "request"})
  <2>1. CASE \E k \in {"projection", "request"}, e \in BOOLEAN, d \in 1 .. 2 :
               next = [kind |-> k, by |-> "direct", extra |-> e, long |-> d, at |-> "run"]
    BY <2>1, MetricTables DEF MetCall
  <2>2. CASE \E k \in {"hit", "miss", "operation"} :
               next = [kind |-> k, by |-> "direct", extra |-> FALSE, long |-> 1, at |-> "run"]
    BY <2>2, MetricTables DEF MetCall
  <2>3. CASE next = [kind |-> "request", by |-> "context", extra |-> TRUE, long |-> 1, at |-> "run"]
    BY <2>3, MetricTables DEF MetCall
  <2> QED BY <2>1, <2>2, <2>3 DEF MeasuredCalls
<1>3. \A c : ~Owes(next, c) /\ ~Owes(recording[t], c) /\ ~Late(next, c) /\ ~Late(recording[t], c)
  BY <1>1, <1>2 DEF Owes, Late
<1>4. counters \in [Counters -> Nat] /\ happened \in [Counters -> Nat]
      /\ "failed" \in Counters /\ "requests" \in Counters /\ "cached" \in Counters
      /\ "projections" \in Counters
  BY DEF CountsInv, Counters
<1>5. \A c \in Counters : counters'[c] + One(Owes(next, c)) + happened[c]
                            = happened'[c] + counters[c] + One(Owes(recording[t], c))
  BY <1>1, <1>3, <1>4 DEF One
<1>6. \A k : One(Late(next, k)) = 0 /\ One(Late(recording[t], k)) = 0
  BY <1>3 DEF One
<1>7. /\ counters'["failed"] + One(Late(next, "request")) + counters["requests"]
           <= counters'["requests"] + counters["failed"] + One(Late(recording[t], "request"))
      /\ counters'["cached"] + One(Late(next, "projection")) + counters["projections"]
           <= counters'["projections"] + counters["cached"] + One(Late(recording[t], "projection"))
  BY <1>1, <1>4, <1>6
<1> QED BY <1>1, <1>2, <1>4, <1>5, <1>7, RecorderSteps

\* A call is noted: its counters are due from now on.
LEMMA MetNotes ==
  ASSUME CountsInv, NEW t \in Recorders, recording[t].at = "run", NEW e \in BOOLEAN,
         e => recording[t].extra,
         NEW next, next = [recording[t] EXCEPT !.extra = e, !.at = "total"],
         recording' = [recording EXCEPT ![t] = next], counters' = counters, Note(next)
  PROVE  CountsInv'
<1>1. recording[t] \in MetCall /\ counters \in [Counters -> Nat] /\ happened \in [Counters -> Nat]
  BY DEF CountsInv
<1>2. /\ next \in MetCall /\ next.at = "total" /\ next.extra = e /\ next.kind = recording[t].kind
      /\ (next.extra => next.kind \in {"projection", "request"})
      /\ next.kind \in {"projection", "operation", "request", "hit", "miss"}
  <2>1. recording[t].extra => recording[t].kind \in {"projection", "request"}
    BY DEF CountsInv
  <2> QED BY <1>1, <2>1, MetricTables DEF MetCall
<1>3. \A c \in Counters : happened'[c] = happened[c] + One(Owes(next, c))
  <2>1. ASSUME NEW c \in Counters
        PROVE  happened'[c] = happened[c] + (IF c = TotalOf[next.kind] THEN 1
                                             ELSE IF next.extra /\ c = ExtraOf[next.kind] THEN 1 ELSE 0)
    BY DEF Note
  <2>2. ASSUME NEW c \in Counters
        PROVE  Owes(next, c) <=> c = TotalOf[next.kind] \/ (next.extra /\ c = ExtraOf[next.kind])
    BY <1>2 DEF Owes
  <2> QED BY <1>1, <2>1, <2>2 DEF One
<1>4. /\ "failed" \in Counters /\ "requests" \in Counters /\ "cached" \in Counters
      /\ "projections" \in Counters /\ \A p : One(p) \in Nat
  BY DEF Counters, One
<1>5. happened' \in [Counters -> Nat]
  <2>1. happened' = [c \in Counters |-> happened'[c]]
    BY DEF Note
  <2>2. \A c \in Counters : happened'[c] \in Nat
    BY <1>1, <1>3, <1>4
  <2> QED BY <2>1, <2>2
<1>6. \A c \in Counters : One(Owes(recording[t], c)) = 0
  BY DEF One, Owes
<1>7. \A k : One(Late(next, k)) = 0 /\ One(Late(recording[t], k)) = 0
  BY <1>2 DEF One, Late
<1>8. \A c \in Counters : counters'[c] + One(Owes(next, c)) + happened[c]
                            = happened'[c] + counters[c] + One(Owes(recording[t], c))
  BY <1>1, <1>3, <1>4, <1>6
<1>9. /\ counters'["failed"] + One(Late(next, "request")) + counters["requests"]
           <= counters'["requests"] + counters["failed"] + One(Late(recording[t], "request"))
      /\ counters'["cached"] + One(Late(next, "projection")) + counters["projections"]
           <= counters'["projections"] + counters["cached"] + One(Late(recording[t], "projection"))
  BY <1>1, <1>4, <1>7
<1> QED BY <1>1, <1>2, <1>5, <1>8, <1>9, RecorderSteps

LEMMA MetContextEnds ==
  ASSUME CountsInv, NEW t \in Recorders,
         NEW end \in {"returns", "raises", "cancelled"}, ContextEnds(t, end)
  PROVE  CountsInv'
<1> DEFINE next == [recording[t] EXCEPT !.extra = @ /\ end = "raises", !.at = "total"]
<1>1. recording \in [Recorders -> MetCall] /\ recording[t] \in MetCall /\ recording[t].extra \in BOOLEAN
  BY DEF CountsInv, MetCall
<1>2. recording[t].at = "run" /\ counters' = counters
  BY DEF ContextEnds
<1>3. next = [recording[t] EXCEPT !.extra = recording[t].extra /\ end = "raises", !.at = "total"]
  BY <1>1
<1>4. recording' = [recording EXCEPT ![t] = next] /\ Note(next)
  BY DEF ContextEnds
<1> HIDE DEF next
<1> QED BY <1>1, <1>2, <1>3, <1>4, MetNotes

LEMMA MetBegins ==
  ASSUME CountsInv, NEW t \in Recorders, RecordBegins(t)
  PROVE  CountsInv'
<1> DEFINE next == [recording[t] EXCEPT !.extra = recording[t].extra, !.at = "total"]
<1>1. recording \in [Recorders -> MetCall] /\ recording[t] \in MetCall /\ recording[t].extra \in BOOLEAN
  BY DEF CountsInv, MetCall
<1>2. /\ recording[t].at = "run" /\ recording' = [recording EXCEPT ![t].at = "total"]
      /\ counters' = counters /\ Note(recording[t])
  BY DEF RecordBegins
<1>3. next = [recording[t] EXCEPT !.at = "total"]
  BY <1>1 DEF MetCall
<1>4. recording' = [recording EXCEPT ![t] = next] /\ Note(next)
  <2>1. next.kind = recording[t].kind /\ next.extra = recording[t].extra
    BY <1>1 DEF MetCall
  <2>2. recording' = [recording EXCEPT ![t] = [recording[t] EXCEPT !.at = "total"]]
    BY <1>2
  <2> QED BY <1>2, <1>3, <2>1, <2>2 DEF Note
<1> HIDE DEF next
<1>5. next = [recording[t] EXCEPT !.extra = recording[t].extra, !.at = "total"]
  BY DEF next
<1> QED BY <1>1, <1>2, <1>4, <1>5, MetNotes

LEMMA MetTotals ==
  ASSUME CountsInv, NEW t \in Recorders, Total(t)
  PROVE  CountsInv'
<1> DEFINE old == recording[t]
           next == IF old.kind \in {"hit", "miss"} THEN NoCall ELSE [old EXCEPT !.at = "observe"]
           k == TotalOf[old.kind]
<1>1. recording \in [Recorders -> MetCall] /\ old \in MetCall
      /\ counters \in [Counters -> Nat] /\ happened \in [Counters -> Nat]
  BY DEF CountsInv
<1>2. /\ old.at = "total" /\ counters' = [counters EXCEPT ![k] = @ + 1]
      /\ recording' = [recording EXCEPT ![t] = next] /\ happened' = happened
  BY DEF Total, Inc
<1>3. /\ old.kind \in {"projection", "operation", "request", "hit", "miss"}
      /\ (old.extra => old.kind \in {"projection", "request"}) /\ k \in Counters
      /\ old.extra \in BOOLEAN
  <2>1. old.extra => old.kind \in {"projection", "request"}
    BY <1>2 DEF CountsInv
  <2>2. old.kind \in {"projection", "operation", "request", "hit", "miss"} /\ old.extra \in BOOLEAN
    BY <1>1, MetricTables DEF MetCall
  <2> QED BY <2>1, <2>2, MetricTables DEF Counters
<1>4. /\ next \in MetCall /\ (next.extra /\ next.at # "idle" => next.kind \in {"projection", "request"})
      /\ old.kind \notin {"hit", "miss"}
           => next.kind = old.kind /\ next.extra = old.extra /\ next.at = "observe"
      /\ old.kind \in {"hit", "miss"} => next.at = "idle" /\ ~next.extra
  <2>1. NoCall \in MetCall /\ NoCall.at = "idle" /\ ~NoCall.extra
    BY MetricTables DEF NoCall, MetCall
  <2> QED BY <1>1, <1>3, <2>1 DEF MetCall
<1> HIDE DEF next, old
<1>5. \A c \in Counters : One(Owes(old, c)) = One(Owes(next, c)) + One(c = k)
  <2>1. ASSUME NEW c \in Counters
        PROVE  /\ Owes(old, c) <=> c = k \/ (old.extra /\ c = ExtraOf[old.kind])
               /\ Owes(next, c) <=> old.extra /\ c = ExtraOf[old.kind]
    BY <1>2, <1>3, <1>4 DEF Owes
  <2>2. old.extra => ExtraOf[old.kind] # k
    BY <1>3, MetricTables
  <2> QED BY <2>1, <2>2 DEF One
<1>6. counters' \in [Counters -> Nat] /\ \A c \in Counters : counters'[c] = counters[c] + One(c = k)
  BY <1>1, <1>2, <1>3 DEF One
<1>7. \A p : One(p) \in Nat
  BY DEF One
<1>8. \A c \in Counters : counters'[c] + One(Owes(next, c)) + happened[c]
                            = happened'[c] + counters[c] + One(Owes(old, c))
  <2>1. ASSUME NEW c \in Counters
        PROVE  counters'[c] + One(Owes(next, c)) + happened[c]
                 = happened'[c] + counters[c] + One(Owes(old, c))
    <3>1. /\ One(Owes(old, c)) = One(Owes(next, c)) + One(c = k)
          /\ counters'[c] = counters[c] + One(c = k) /\ happened'[c] = happened[c]
          /\ counters[c] \in Nat /\ happened[c] \in Nat
          /\ One(Owes(next, c)) \in Nat /\ One(c = k) \in Nat
      BY <1>1, <1>2, <1>5, <1>6, <1>7
    <3> QED BY <3>1
  <2> QED BY <2>1
<1>9. /\ "failed" \in Counters /\ "requests" \in Counters /\ "cached" \in Counters
      /\ "projections" \in Counters
  BY DEF Counters
<1>10. /\ One(Late(old, "request")) = 0 /\ One(Late(old, "projection")) = 0
       /\ One("failed" = k) = 0 /\ One("cached" = k) = 0
  BY <1>2, <1>3, MetricTables DEF Late, One
<1>11. /\ One(Late(next, "request")) <= One("requests" = k)
       /\ One(Late(next, "projection")) <= One("projections" = k)
  BY <1>3, <1>4, MetricTables DEF Late, One
<1>12. /\ counters'["failed"] + One(Late(next, "request")) + counters["requests"]
            <= counters'["requests"] + counters["failed"] + One(Late(old, "request"))
       /\ counters'["cached"] + One(Late(next, "projection")) + counters["projections"]
            <= counters'["projections"] + counters["cached"] + One(Late(old, "projection"))
  <2>1. /\ counters["failed"] \in Nat /\ counters["requests"] \in Nat /\ counters["cached"] \in Nat
        /\ counters["projections"] \in Nat
        /\ counters'["failed"] = counters["failed"] + One("failed" = k)
        /\ counters'["requests"] = counters["requests"] + One("requests" = k)
        /\ counters'["cached"] = counters["cached"] + One("cached" = k)
        /\ counters'["projections"] = counters["projections"] + One("projections" = k)
        /\ One("requests" = k) \in Nat /\ One("projections" = k) \in Nat
        /\ One(Late(next, "request")) \in Nat /\ One(Late(next, "projection")) \in Nat
    BY <1>1, <1>6, <1>7, <1>9
  <2> QED BY <1>10, <1>11, <2>1
<1>13. happened' \in [Counters -> Nat]
  BY <1>1, <1>2
<1> QED BY <1>1, <1>2, <1>4, <1>6, <1>8, <1>12, <1>13, RecorderSteps DEF old


LEMMA MetObserves ==
  ASSUME CountsInv, NEW t \in Recorders, Observe(t)
  PROVE  CountsInv'
<1> DEFINE old == recording[t]
           next == IF old.extra THEN [old EXCEPT !.at = "extra"] ELSE NoCall
<1>1. recording \in [Recorders -> MetCall] /\ old \in MetCall
      /\ counters \in [Counters -> Nat] /\ happened \in [Counters -> Nat]
  BY DEF CountsInv
<1>2. /\ old.at = "observe" /\ counters' = counters
      /\ recording' = [recording EXCEPT ![t] = next] /\ happened' = happened
  BY DEF Observe
<1>3. (old.extra => old.kind \in {"projection", "request"}) /\ old.extra \in BOOLEAN
  BY <1>1, <1>2 DEF CountsInv, MetCall
<1>4. /\ next \in MetCall /\ (next.extra /\ next.at # "idle" => next.kind \in {"projection", "request"})
      /\ old.extra => next.kind = old.kind /\ next.extra /\ next.at = "extra"
      /\ ~old.extra => next.at = "idle" /\ ~next.extra
  <2>1. NoCall \in MetCall /\ NoCall.at = "idle" /\ ~NoCall.extra
    BY MetricTables DEF NoCall, MetCall
  <2> QED BY <1>1, <1>3, <2>1 DEF MetCall
<1> HIDE DEF next, old
<1>5. \A c : One(Owes(old, c)) = One(Owes(next, c)) /\ One(Late(old, c)) = One(Late(next, c))
             /\ One(Owes(old, c)) \in Nat /\ One(Late(old, c)) \in Nat
  <2>1. ASSUME NEW c
        PROVE  (Owes(old, c) <=> Owes(next, c)) /\ (Late(old, c) <=> Late(next, c))
    BY <1>2, <1>3, <1>4 DEF Owes, Late
  <2> QED BY <2>1 DEF One
<1>6. /\ "failed" \in Counters /\ "requests" \in Counters /\ "cached" \in Counters
      /\ "projections" \in Counters
  BY DEF Counters
<1>7. \A c \in Counters : counters'[c] + One(Owes(next, c)) + happened[c]
                            = happened'[c] + counters[c] + One(Owes(old, c))
  BY <1>1, <1>2, <1>5
<1>8. /\ counters'["failed"] + One(Late(next, "request")) + counters["requests"]
           <= counters'["requests"] + counters["failed"] + One(Late(old, "request"))
      /\ counters'["cached"] + One(Late(next, "projection")) + counters["projections"]
           <= counters'["projections"] + counters["cached"] + One(Late(old, "projection"))
  BY <1>1, <1>2, <1>5, <1>6
<1> QED BY <1>1, <1>2, <1>4, <1>7, <1>8, RecorderSteps DEF old

LEMMA MetExtras ==
  ASSUME CountsInv, NEW t \in Recorders, Extra(t), recording[t].extra
  PROVE  CountsInv'
<1> DEFINE old == recording[t]
           k == ExtraOf[old.kind]
<1>1. recording \in [Recorders -> MetCall] /\ old \in MetCall
      /\ counters \in [Counters -> Nat] /\ happened \in [Counters -> Nat]
  BY DEF CountsInv
<1>2. /\ old.at = "extra" /\ counters' = [counters EXCEPT ![k] = @ + 1]
      /\ recording' = [recording EXCEPT ![t] = NoCall] /\ happened' = happened
  BY DEF Extra, Inc
<1>3. old.kind \in {"projection", "request"} /\ old.extra /\ k \in Counters
  <2>1. old.kind \in {"projection", "request"}
    BY <1>2 DEF CountsInv
  <2> QED BY <2>1, MetricTables DEF Counters
<1>4. NoCall \in MetCall /\ NoCall.at = "idle" /\ ~NoCall.extra
  BY MetricTables DEF NoCall, MetCall
<1> HIDE DEF old
<1>5. \A c : /\ One(Owes(NoCall, c)) = 0 /\ One(Late(NoCall, c)) = 0
             /\ One(Owes(old, c)) = One(c = k) /\ One(c = k) \in Nat
  <2>1. ASSUME NEW c PROVE ~Owes(NoCall, c) /\ ~Late(NoCall, c) /\ (Owes(old, c) <=> c = k)
    BY <1>2, <1>3, <1>4 DEF Owes, Late
  <2> QED BY <2>1 DEF One
<1>6. counters' \in [Counters -> Nat] /\ \A c \in Counters : counters'[c] = counters[c] + One(c = k)
  BY <1>1, <1>2, <1>3 DEF One
<1>7. \A c \in Counters : counters'[c] + One(Owes(NoCall, c)) + happened[c]
                            = happened'[c] + counters[c] + One(Owes(old, c))
  <2>1. ASSUME NEW c \in Counters
        PROVE  counters'[c] + One(Owes(NoCall, c)) + happened[c]
                 = happened'[c] + counters[c] + One(Owes(old, c))
    <3>1. /\ One(Owes(NoCall, c)) = 0 /\ One(Owes(old, c)) = One(c = k) /\ One(c = k) \in Nat
          /\ counters'[c] = counters[c] + One(c = k) /\ happened'[c] = happened[c]
          /\ counters[c] \in Nat /\ happened[c] \in Nat
      BY <1>1, <1>2, <1>5, <1>6
    <3> QED BY <3>1
  <2> QED BY <2>1
<1>8. /\ "failed" \in Counters /\ "requests" \in Counters /\ "cached" \in Counters
      /\ "projections" \in Counters
  BY DEF Counters
<1>9. /\ One(Late(old, "request")) = One("failed" = k)
      /\ One(Late(old, "projection")) = One("cached" = k)
      /\ One("requests" = k) = 0 /\ One("projections" = k) = 0
  BY <1>2, <1>3, MetricTables DEF Late, One
<1>10. /\ counters'["failed"] + One(Late(NoCall, "request")) + counters["requests"]
            <= counters'["requests"] + counters["failed"] + One(Late(old, "request"))
       /\ counters'["cached"] + One(Late(NoCall, "projection")) + counters["projections"]
            <= counters'["projections"] + counters["cached"] + One(Late(old, "projection"))
  <2>1. /\ counters["failed"] \in Nat /\ counters["requests"] \in Nat /\ counters["cached"] \in Nat
        /\ counters["projections"] \in Nat
        /\ counters'["failed"] = counters["failed"] + One("failed" = k)
        /\ counters'["requests"] = counters["requests"] + One("requests" = k)
        /\ counters'["cached"] = counters["cached"] + One("cached" = k)
        /\ counters'["projections"] = counters["projections"] + One("projections" = k)
        /\ One("failed" = k) \in Nat /\ One("cached" = k) \in Nat
        /\ One(Late(NoCall, "request")) = 0 /\ One(Late(NoCall, "projection")) = 0
    BY <1>1, <1>5, <1>6, <1>8
  <2> QED BY <1>9, <2>1
<1>11. happened' \in [Counters -> Nat]
  BY <1>1, <1>2
<1>12. NoCall.extra /\ NoCall.at # "idle" => NoCall.kind \in {"projection", "request"}
  BY <1>4
<1> QED BY <1>1, <1>2, <1>4, <1>6, <1>7, <1>10, <1>11, <1>12, RecorderSteps DEF old

\* Only a special call comes to its last step.
ExtraOnly == \A t \in Recorders : recording[t].at = "extra" => recording[t].extra

LEMMA CountersOnlyGrow ==
  ASSUME CountsInv, MetNext
  PROVE  \A c \in Counters : counters'[c] >= counters[c]
<1>1. counters \in [Counters -> Nat]
  BY DEF CountsInv
<1>2. counters' = counters \/ \E c : counters' = [counters EXCEPT ![c] = @ + 1]
  BY DEF MetNext, Measure, ContextEnds, RecordBegins, Total, Observe, Extra, Inc,
         BeginScrape, ReadNext
<1>3. CASE counters' = counters
  BY <1>1, <1>3
<1>4. ASSUME NEW d, counters' = [counters EXCEPT ![d] = @ + 1]
      PROVE  \A c \in Counters : counters'[c] >= counters[c]
  BY <1>1, <1>4
<1> QED BY <1>2, <1>3, <1>4

LEMMA ScrapeReads ==
  ASSUME MetInv, ReadNext
  PROVE  ScrapesInv'
<1> DEFINE r == ReadOrder[scraping.at]
           old == scraping.saw
           saw == CASE r = "le" -> [scraping.saw EXCEPT !["le"] = Le, !["inf"] = Len(durations)]
                    [] r = "inf" -> scraping.saw
                    [] r = "count" -> [scraping.saw EXCEPT !["count"] = Len(durations)]
                    [] OTHER -> [scraping.saw EXCEPT ![r] = counters[Read[r]]]
<1>1. /\ scraping.at > 0 /\ counters' = counters
      /\ IF scraping.at = Len(ReadOrder)
         THEN scraping' = [at |-> 0, saw |-> NothingRead] /\ lastScrape' = saw
         ELSE scraping' = [at |-> scraping.at + 1, saw |-> saw] /\ lastScrape' = lastScrape
  BY DEF ReadNext
<1>2. /\ scraping.at \in 1 .. 14 /\ Len(ReadOrder) = 14 /\ IsReading(old) /\ IsReading(lastScrape)
      /\ counters \in [Counters -> Nat]
  BY <1>1, ReadTables DEF MetInv, ScrapesInv, CountsInv
<1>3. r \in ToSet(ReadOrder) /\ (r \in Readings \/ r \in {"le", "inf", "count"})
  BY <1>2, ReadTables
<1>4. \A x \in Readings : old[x] \in Nat /\ old[x] <= counters[Read[x]] /\ Read[x] \in Counters
                          /\ counters[Read[x]] \in Nat /\ lastScrape[x] \in Nat
                          /\ lastScrape[x] <= counters[Read[x]]
  BY <1>2, ReadTables DEF MetInv, ScrapesInv, IsReading
<1>5. /\ DOMAIN saw = ToSet(ReadOrder) /\ saw = [x \in ToSet(ReadOrder) |-> saw[x]]
      /\ \A x \in Readings : saw[x] = IF x = r THEN counters[Read[x]] ELSE old[x]
  <2>1. old = [x \in ToSet(ReadOrder) |-> old[x]]
    BY <1>2 DEF IsReading
  <2>2. \A x \in Readings : x \in ToSet(ReadOrder) /\ x # "le" /\ x # "inf" /\ x # "count"
    BY ReadTables
  <2>3. CASE r = "le"
    BY <2>1, <2>2, <2>3
  <2>4. CASE r = "inf"
    BY <2>1, <2>2, <2>4
  <2>5. CASE r = "count"
    BY <2>1, <2>2, <2>5
  <2>6. CASE r \in Readings
    BY <1>3, <2>1, <2>2, <2>6
  <2> QED BY <1>3, <2>3, <2>4, <2>5, <2>6
<1> HIDE DEF saw
<1>6. IsReading(saw) /\ \A x \in Readings : saw[x] <= counters[Read[x]] /\ saw[x] >= old[x]
  BY <1>4, <1>5 DEF IsReading
<1>7. IsReading(NothingRead) /\ \A x \in Readings : NothingRead[x] = 0
  BY ReadTables DEF IsReading, NothingRead
<1>8. CASE scraping.at = 14
  <2>1. scraping' = [at |-> 0, saw |-> NothingRead] /\ lastScrape' = saw
    BY <1>1, <1>2, <1>8
  <2>2. scraping'.at = 0 /\ scraping'.saw = NothingRead
    BY <2>1
  <2> QED BY <1>1, <1>2, <1>4, <1>6, <1>7, <2>1, <2>2 DEF ScrapesInv
<1>9. CASE scraping.at # 14
  <2>1. scraping' = [at |-> scraping.at + 1, saw |-> saw] /\ lastScrape' = lastScrape
    BY <1>1, <1>2, <1>9
  <2>2. scraping'.at = scraping.at + 1 /\ scraping'.saw = saw /\ scraping'.at \in 0 .. 14
    BY <1>2, <1>9, <2>1
  <2>3. ASSUME NEW i \in 1 .. (scraping'.at - 1), ReadOrder[i] \in Readings
        PROVE  saw[ReadOrder[i]] >= lastScrape[ReadOrder[i]]
    <3>1. CASE ReadOrder[i] = r
      BY <1>4, <1>5, <2>3, <3>1
    <3>2. CASE ReadOrder[i] # r
      <4>1. i \in 1 .. (scraping.at - 1)
        BY <1>2, <2>2, <3>2
      <4>2. old[ReadOrder[i]] >= lastScrape[ReadOrder[i]]
        BY <2>3, <4>1 DEF MetInv, ScrapesInv
      <4> QED BY <1>5, <2>3, <3>2, <4>2
    <3> QED BY <3>1, <3>2
  <2> QED BY <1>1, <1>2, <1>4, <1>6, <2>1, <2>2, <2>3 DEF ScrapesInv
<1> QED BY <1>8, <1>9

LEMMA ScrapesInductive ==
  ASSUME MetInv, MetNext
  PROVE  ScrapesInv'
<1>1. /\ counters \in [Counters -> Nat] /\ \A c \in Counters : counters'[c] >= counters[c]
      /\ \A c \in Counters : counters'[c] \in Nat
  <2>1. \A c \in Counters : counters'[c] >= counters[c]
    BY CountersOnlyGrow DEF MetInv
  <2>2. counters' = counters \/ \E c : counters' = [counters EXCEPT ![c] = @ + 1]
    BY DEF MetNext, Measure, ContextEnds, RecordBegins, Total, Observe, Extra, Inc,
           BeginScrape, ReadNext
  <2>3. counters \in [Counters -> Nat]
    BY DEF MetInv, CountsInv
  <2>4. ASSUME NEW d, counters' = [counters EXCEPT ![d] = @ + 1], NEW c \in Counters
        PROVE  counters'[c] \in Nat
    BY <2>3, <2>4
  <2> QED BY <2>1, <2>2, <2>3, <2>4
<1>2. \A r \in Readings : /\ Read[r] \in Counters /\ scraping.saw[r] \in Nat /\ lastScrape[r] \in Nat
                          /\ scraping.saw[r] <= counters[Read[r]]
                          /\ lastScrape[r] <= counters[Read[r]]
  BY ReadTables DEF MetInv, ScrapesInv, IsReading
<1>3. CASE UNCHANGED <<scraping, lastScrape>>
  <2>1. \A r \in Readings : scraping.saw[r] <= counters'[Read[r]] /\ lastScrape[r] <= counters'[Read[r]]
    BY <1>1, <1>2
  <2> QED BY <1>3, <2>1 DEF MetInv, ScrapesInv
<1>4. CASE BeginScrape
  <2>1. /\ scraping' = [at |-> 1, saw |-> NothingRead] /\ lastScrape' = lastScrape
        /\ counters' = counters
    BY <1>4 DEF BeginScrape
  <2>2. scraping'.at = 1 /\ scraping'.saw = NothingRead
    BY <2>1
  <2>3. IsReading(NothingRead) /\ \A x \in Readings : NothingRead[x] = 0
    BY ReadTables DEF IsReading, NothingRead
  <2>4. \A x \in Readings : NothingRead[x] <= counters[Read[x]]
    BY <1>1, <1>2, <2>3
  <2> QED BY <1>2, <2>1, <2>2, <2>3, <2>4, ReadTables DEF MetInv, ScrapesInv
<1>5. CASE ReadNext
  BY <1>5, ScrapeReads
<1> QED BY <1>3, <1>4, <1>5
    DEF MetNext, Measure, ContextEnds, RecordBegins, Total, Observe, Extra, ScrapeUnchanged

LEMMA ExtraOnlyInductive ==
  ASSUME CountsInv, ExtraOnly, MetNext
  PROVE  ExtraOnly'
<1>1. recording \in [Recorders -> MetCall] /\ NoCall.at # "extra"
  BY DEF CountsInv, NoCall
<1> USE DEF ExtraOnly
<1>2. ASSUME NEW t \in Recorders, NEW next, recording' = [recording EXCEPT ![t] = next],
             next.at = "extra" => next.extra
      PROVE  ExtraOnly'
  BY <1>1, <1>2
<1>3. ASSUME NEW t \in Recorders, NEW next \in MeasuredCalls, Measure(t, next) PROVE ExtraOnly'
  <2>1. next.at = "run"
    BY DEF MeasuredCalls
  <2> QED BY <1>2, <1>3, <2>1 DEF Measure
<1>4. ASSUME NEW t \in Recorders, NEW end \in {"returns", "raises", "cancelled"},
             ContextEnds(t, end)
      PROVE  ExtraOnly'
  <2> DEFINE next == [recording[t] EXCEPT !.extra = @ /\ end = "raises", !.at = "total"]
  <2>1. next.at = "total"
    BY <1>1 DEF MetCall
  <2>2. recording' = [recording EXCEPT ![t] = next]
    BY <1>4 DEF ContextEnds
  <2> HIDE DEF next
  <2> QED BY <1>1, <1>2, <2>1, <2>2
<1>5. ASSUME NEW t \in Recorders, RecordBegins(t) PROVE ExtraOnly'
  BY <1>1, <1>5 DEF RecordBegins, MetCall
<1>6. ASSUME NEW t \in Recorders, Total(t) PROVE ExtraOnly'
  <2> DEFINE next == IF recording[t].kind \in {"hit", "miss"} THEN NoCall
                     ELSE [recording[t] EXCEPT !.at = "observe"]
  <2>1. next.at # "extra"
    BY <1>1 DEF MetCall
  <2> QED BY <1>2, <1>6, <2>1 DEF Total
<1>7. ASSUME NEW t \in Recorders, Observe(t) PROVE ExtraOnly'
  <2> DEFINE next == IF recording[t].extra THEN [recording[t] EXCEPT !.at = "extra"] ELSE NoCall
  <2>1. next.at = "extra" => next.extra
    BY <1>1 DEF MetCall
  <2> QED BY <1>2, <1>7, <2>1 DEF Observe
<1>8. ASSUME NEW t \in Recorders, Extra(t) PROVE ExtraOnly'
  BY <1>1, <1>2, <1>8 DEF Extra
<1>9. CASE BeginScrape \/ ReadNext
  BY <1>9 DEF BeginScrape, ReadNext
<1> QED BY <1>3, <1>4, <1>5, <1>6, <1>7, <1>8, <1>9 DEF MetNext

MetWhole == MetInv /\ ExtraOnly

LEMMA MetWholeStarts ==
  ASSUME MetInit
  PROVE  MetWhole
<1>1. ExtraOnly
  BY DEF MetInit, ExtraOnly, NoCall
<1> QED BY <1>1, MetStarts DEF MetWhole

LEMMA MetInductive ==
  ASSUME MetWhole, [MetNext]_metVars
  PROVE  MetWhole'
<1>1. CASE UNCHANGED metVars
  BY <1>1 DEF metVars, MetWhole, MetInv, CountsInv, ScrapesInv, ExtraOnly, Owing, LateOnes
<1>2. CASE MetNext
  <2>1. ScrapesInv' /\ ExtraOnly'
    BY <1>2, ScrapesInductive, ExtraOnlyInductive DEF MetWhole, MetInv
  <2>2. CASE BeginScrape \/ ReadNext
    <3>1. CountsInv'
      BY <2>2 DEF BeginScrape, ReadNext, MetWhole, MetInv, CountsInv, Owing, LateOnes
    <3> QED BY <2>1, <3>1 DEF MetWhole, MetInv
  <2>3. ASSUME NEW t \in Recorders, Extra(t) PROVE CountsInv'
    <3>1. recording[t].extra /\ CountsInv
      BY <2>3 DEF Extra, MetWhole, MetInv, ExtraOnly
    <3> QED BY <2>3, <3>1, MetExtras
  <2>4. CountsInv'
    BY <1>2, <2>2, <2>3, MetMeasures, MetContextEnds, MetBegins, MetTotals, MetObserves
       DEF MetNext, MetWhole, MetInv
  <2> QED BY <2>1, <2>4 DEF MetWhole, MetInv
<1> QED BY <1>1, <1>2

LEMMA MetSafe ==
  ASSUME MetWhole
  PROVE  MetricsSound
<1>1. CountsInv /\ ScrapesInv
  BY DEF MetWhole, MetInv
<1>2. /\ counters \in [Counters -> Nat] /\ happened \in [Counters -> Nat] /\ IsFiniteSet(Recorders)
      /\ "failed" \in Counters /\ "requests" \in Counters /\ "cached" \in Counters
      /\ "projections" \in Counters
  BY <1>1, MetAssumption DEF CountsInv, Counters
<1>3. \A k : Cardinality(LateOnes(k)) \in Nat
  <2>1. \A k : IsFiniteSet(LateOnes(k))
    BY <1>2, FS_Subset DEF LateOnes
  <2> QED BY <2>1, FS_CardinalityType
<1>4. counters["failed"] <= counters["requests"] /\ counters["cached"] <= counters["projections"]
  BY <1>1, <1>2, <1>3 DEF CountsInv
<1>5. ASSUME \A t \in Recorders : recording[t].at \in {"idle", "run"}
      PROVE  counters = happened
  <2>1. \A c \in Counters : Owing(c) = {}
    BY <1>5 DEF Owing, Owes
  <2>2. ASSUME NEW c \in Counters PROVE counters[c] = happened[c]
    <3>1. counters[c] + 0 = happened[c]
      BY <1>1, <2>1, FS_EmptySet DEF CountsInv
    <3> QED BY <1>2, <3>1
  <2> QED BY <1>2, <2>2
<1>6. ScrapesGrow
  BY <1>1 DEF ScrapesInv, ScrapesGrow, Readings
<1> QED BY <1>4, <1>5, <1>6 DEF MetricsSound, CountersExact


-----------------------------------------------------------------------------
(***************************************************************************)
(* The gRPC service.  What a client has got is the answers of the first     *)
(* requests of its stream; the handler is at the next one, and its job is   *)
(* in one place of the queue; the store has what encode answered.           *)
(***************************************************************************)
Text == GrpcClients \X Nat
GrpcJob == [client : GrpcClients, text : Text]
JobFor(c, n) == [client |-> c, text |-> <<c, n>>]
AnswerFor(c, n) == [n |-> n, sem |-> Projection(<<c, n>>)]
Gots == {AnswerFor(c, n) : c \in GrpcClients, n \in Nat} \cup {StreamError}

\* Stream c, with handler h, requests r and what its client got.
InOrder(c, r, got) ==
  \A i \in DOMAIN got : \/ got[i] = StreamError /\ i = Len(got)
                        \/ i <= Len(r.asked) /\ got[i] = AnswerFor(c, r.asked[i])

IsNext(c, r, got, n) == Len(got) + 1 + r.unread = Len(r.asked) /\ n = r.asked[Len(got) + 1]

StreamFine(c, h, r, got) ==
  /\ r = [made |-> r.made, asked |-> r.asked, unread |-> r.unread]
  /\ r.made \in Nat /\ r.asked \in Seq(Nat) /\ r.unread \in 0 .. Len(r.asked)
  /\ got \in Seq(Gots) /\ InOrder(c, r, got)
  /\ h.at \in {"none", "reading", "push", "reply", "full", "gone"}
  /\ h.at \in {"push", "reply"} => h = [at |-> h.at, n |-> h.n] /\ IsNext(c, r, got, h.n)
  /\ h.at = "reading" => Len(got) + r.unread = Len(r.asked)
  /\ h.at = "full" => /\ h.item \in Gots
                      /\ h.item # StreamError => \E n : IsNext(c, r, got, n) /\ h.item = AnswerFor(c, n)
  /\ h.at = "none" => got = <<>> /\ r.asked = <<>> /\ r.unread = 0 /\ h = NoItem
  /\ h.at # "gone" => \A i \in DOMAIN got : got[i] # StreamError

GrpcStreams ==
  /\ handler = [c \in GrpcClients |-> handler[c]] /\ requested = [c \in GrpcClients |-> requested[c]]
  /\ received \in [GrpcClients -> Seq(Gots)] /\ answers \in [GrpcClients -> Seq(Gots)]
  /\ streamState \in [GrpcClients -> {"none", "open", "ended", "broken"}]
  /\ \A c \in GrpcClients : /\ StreamFine(c, handler[c], requested[c], AnswersOf(c))
                            /\ streamState[c] = "none" <=> handler[c].at = "none"

\* The jobs of s are those their handlers wait for.
Fits(s, hs) == \A i \in DOMAIN s : s[i] = JobFor(s[i].client, hs[s[i].client].n)

GrpcJobs ==
  /\ senders \in Seq(GrpcJob) /\ jobQueue \in Seq(GrpcJob) /\ pendingJobs \in Seq(GrpcJob)
  /\ Fits(senders, handler) /\ Fits(jobQueue, handler) /\ Fits(pendingJobs, handler)
  /\ reply = [c \in GrpcClients |-> reply[c]]
  /\ \A c \in GrpcClients :
       /\ reply[c] = <<>> \/ reply[c] = <<Projection(<<c, handler[c].n>>)>>
       /\ JobsOf(senders, c) = One(handler[c].at = "push")
       /\ JobsOf(jobQueue, c) + JobsOf(pendingJobs, c) + Len(reply[c]) = One(handler[c].at = "reply")

GrpcStored ==
  /\ IsFiniteSet(cogons)
  /\ \A x \in cogons : x.sem = Projection(x.id)
  /\ \A r \in encoded : r \in Text /\ CogonOf(r[1], r[2], Projection(r)) \in cogons

GrpcInv == GrpcStreams /\ GrpcJobs /\ GrpcStored

\* Jobs are counted along a sequence.
LEMMA JobsCounted ==
  ASSUME NEW S, NEW s \in Seq(S), NEW c
  PROVE  JobsOf(s, c) \in Nat /\ (JobsOf(s, c) = 0 <=> \A i \in DOMAIN s : s[i].client # c)
<1> DEFINE I == {i \in DOMAIN s : s[i].client = c}
<1>1. DOMAIN s = 1 .. Len(s) /\ Len(s) \in Nat
  BY LenProperties
<1>2. IsFiniteSet(1 .. Len(s))
  BY <1>1, FS_Interval
<1>3. IsFiniteSet(I)
  BY <1>1, <1>2, FS_Subset
<1>4. Cardinality(I) \in Nat /\ (Cardinality(I) = 0 <=> I = {})
  BY <1>3, FS_CardinalityType, FS_EmptySet
<1>5. I = {} <=> \A i \in DOMAIN s : s[i].client # c
  OBVIOUS
<1> QED BY <1>4, <1>5 DEF JobsOf

LEMMA JobsAppended ==
  ASSUME NEW S, NEW s \in Seq(S), NEW j \in S, NEW c
  PROVE  JobsOf(Append(s, j), c) = JobsOf(s, c) + One(j.client = c)
<1> DEFINE t == Append(s, j)
           n == Len(s) + 1
           I == {i \in DOMAIN s : s[i].client = c}
           K == {i \in DOMAIN t : t[i].client = c}
<1>1. /\ DOMAIN s = 1 .. Len(s) /\ Len(s) \in Nat /\ DOMAIN t = 1 .. n /\ t[n] = j
      /\ \A i \in 1 .. Len(s) : t[i] = s[i]
  BY AppendProperties, LenProperties
<1>2. IsFiniteSet(I)
  <2>1. IsFiniteSet(1 .. Len(s))
    BY <1>1, FS_Interval
  <2> QED BY <1>1, <2>1, FS_Subset
<1> HIDE DEF t
<1>3. \A i \in DOMAIN t : i = n \/ (i \in DOMAIN s /\ t[i] = s[i])
  BY <1>1
<1>4. \A i \in DOMAIN s : i # n /\ i \in DOMAIN t
  BY <1>1
<1>5. K \ {n} = I \ {n} /\ n \notin I
  BY <1>1, <1>3, <1>4
<1>6. n \in K <=> j.client = c
  <2>1. Len(s) \in Nat /\ DOMAIN t = 1 .. n /\ t[n] = j
    BY <1>1
  <2>2. n \in 1 .. n
    BY ONLY <2>1
  <2>3. n \in DOMAIN t
    BY <2>1, <2>2
  <2> HIDE DEF n
  <2> QED BY <2>1, <2>3
<1>7. JobsOf(s, c) = Cardinality(I) /\ JobsOf(Append(s, j), c) = Cardinality(K)
  BY DEF JobsOf, t
<1> HIDE DEF I, K, n
<1>8. /\ Cardinality(K) + One(n \in I) = Cardinality(I) + One(n \in K)
      /\ Cardinality(K) \in Nat /\ Cardinality(I) \in Nat
  BY <1>2, <1>5, ChangeOne
<1>9. One(n \in I) = 0 /\ One(n \in K) = One(j.client = c) /\ One(j.client = c) \in Nat
  BY <1>5, <1>6 DEF One
<1> QED BY <1>7, <1>8, <1>9

LEMMA JobsTaken ==
  ASSUME NEW S, NEW s \in Seq(S), s # <<>>, NEW c
  PROVE  JobsOf(s, c) = JobsOf(Tail(s), c) + One(Head(s).client = c)
<1> DEFINE t == Tail(s)
           I == {i \in DOMAIN s : s[i].client = c}
           K == {i \in DOMAIN t : t[i].client = c}
           J == I \ {1}
           f == [i \in K |-> i + 1]
<1>1. /\ DOMAIN s = 1 .. Len(s) /\ Len(s) \in Nat \ {0} /\ t \in Seq(S)
      /\ DOMAIN t = 1 .. (Len(s) - 1) /\ Head(s) = s[1]
      /\ \A i \in 1 .. (Len(s) - 1) : t[i] = s[i + 1]
  BY HeadTailProperties, LenProperties, EmptySeq
<1>2. IsFiniteSet(I) /\ IsFiniteSet(K)
  <2>1. IsFiniteSet(1 .. Len(s)) /\ IsFiniteSet(1 .. (Len(s) - 1))
    BY <1>1, FS_Interval
  <2> QED BY <1>1, <2>1, FS_Subset
<1> HIDE DEF t
<1>3. \A i \in DOMAIN t : i + 1 \in DOMAIN s /\ i + 1 # 1 /\ t[i] = s[i + 1] /\ i \in Int
  BY <1>1
<1>4. \A i \in DOMAIN s : i # 1 => i - 1 \in DOMAIN t /\ t[i - 1] = s[i] /\ (i - 1) + 1 = i
  BY <1>1
<1>5. f \in Bijection(K, J)
  <2>1. \A i \in K : i + 1 \in J
    BY <1>3
  <2>2. \A i, k \in K : i + 1 = k + 1 => i = k
    BY <1>3
  <2>3. ASSUME NEW i \in J PROVE \E k \in K : k + 1 = i
    BY <1>4
  <2>4. f \in Injection(K, J)
    BY <2>1, <2>2 DEF Injection, IsInjective
  <2>5. f \in Surjection(K, J)
    BY <2>1, <2>3 DEF Surjection
  <2> QED BY <2>4, <2>5 DEF Bijection
<1>6. Cardinality(J) = Cardinality(K)
  BY <1>2, <1>5, FS_Bijection DEF ExistsBijection
<1>7. 1 \in I <=> Head(s).client = c
  BY <1>1
<1>8. /\ Cardinality(J) = IF 1 \in I THEN Cardinality(I) - 1 ELSE Cardinality(I)
      /\ Cardinality(I) \in Nat
  BY <1>2, FS_RemoveElement, FS_CardinalityType
<1>9. JobsOf(s, c) = Cardinality(I) /\ JobsOf(Tail(s), c) = Cardinality(K)
  BY DEF JobsOf, t
<1> HIDE DEF I, K, J
<1>10. CASE 1 \in I
  <2>1. One(Head(s).client = c) = 1
    BY <1>7, <1>10 DEF One
  <2> QED BY <1>6, <1>8, <1>9, <1>10, <2>1
<1>11. CASE 1 \notin I
  <2>1. One(Head(s).client = c) = 0
    BY <1>7, <1>11 DEF One
  <2> QED BY <1>6, <1>8, <1>9, <1>11, <2>1
<1> QED BY <1>10, <1>11

LEMMA JobsOfClients ==
  ASSUME NEW s \in Seq(GrpcJob)
  PROVE  \A i \in DOMAIN s : s[i] \in GrpcJob /\ s[i].client \in GrpcClients
<1>1. DOMAIN s = 1 .. Len(s)
  BY LenProperties
<1>2. \A i \in DOMAIN s : s[i] \in GrpcJob
  BY <1>1, ElementOfSeq
<1>3. \A j \in GrpcJob : j.client \in GrpcClients
  BY DEF GrpcJob
<1> QED BY <1>2, <1>3

\* A job is taken from one sequence and put at the end of another.
LEMMA FitsMoved ==
  ASSUME NEW s \in Seq(GrpcJob), NEW hs, Fits(s, hs)
  PROVE  /\ s # <<>> => /\ Tail(s) \in Seq(GrpcJob) /\ Head(s) \in GrpcJob /\ Fits(Tail(s), hs)
                        /\ Head(s) = JobFor(Head(s).client, hs[Head(s).client].n)
         /\ \A j \in GrpcJob : j = JobFor(j.client, hs[j.client].n)
              => Append(s, j) \in Seq(GrpcJob) /\ Fits(Append(s, j), hs)
<1>1. DOMAIN s = 1 .. Len(s) /\ Len(s) \in Nat
  BY LenProperties
<1>2. ASSUME s # <<>>
      PROVE  /\ Tail(s) \in Seq(GrpcJob) /\ Head(s) \in GrpcJob /\ Fits(Tail(s), hs)
             /\ Head(s) = JobFor(Head(s).client, hs[Head(s).client].n)
  <2>1. /\ Len(s) > 0 /\ Tail(s) \in Seq(GrpcJob) /\ Head(s) \in GrpcJob /\ Head(s) = s[1]
        /\ DOMAIN Tail(s) = 1 .. (Len(s) - 1)
        /\ \A i \in 1 .. (Len(s) - 1) : Tail(s)[i] = s[i + 1]
    BY <1>1, <1>2, HeadTailProperties, LenProperties, EmptySeq
  <2>2. 1 \in DOMAIN s /\ \A i \in DOMAIN Tail(s) : i + 1 \in DOMAIN s /\ Tail(s)[i] = s[i + 1]
    BY <1>1, <2>1
  <2> QED BY <2>1, <2>2 DEF Fits
<1>3. ASSUME NEW j \in GrpcJob, j = JobFor(j.client, hs[j.client].n)
      PROVE  Append(s, j) \in Seq(GrpcJob) /\ Fits(Append(s, j), hs)
  <2> DEFINE t == Append(s, j)
  <2>1. /\ t \in Seq(GrpcJob) /\ DOMAIN t = 1 .. (Len(s) + 1) /\ t[Len(s) + 1] = j
        /\ \A i \in 1 .. Len(s) : t[i] = s[i]
    BY <1>1, AppendProperties, LenProperties
  <2> HIDE DEF t
  <2>2. \A i \in DOMAIN t : i = Len(s) + 1 \/ (i \in DOMAIN s /\ t[i] = s[i])
    BY <1>1, <2>1
  <2>3. ASSUME NEW i \in DOMAIN t PROVE t[i] = JobFor(t[i].client, hs[t[i].client].n)
    <3>1. CASE i = Len(s) + 1
      BY <1>3, <2>1, <3>1
    <3>2. CASE i \in DOMAIN s /\ t[i] = s[i]
      BY <3>2 DEF Fits
    <3> QED BY <2>2, <3>1, <3>2
  <2> QED BY <2>1, <2>3 DEF Fits, t
<1> QED BY <1>2, <1>3

LEMMA GrpcStarts ==
  ASSUME GrpcInit
  PROVE  GrpcInv
<1>1. /\ cogons = {} /\ encoded = {}
      /\ requested = [c \in GrpcClients |-> [made |-> 0, asked |-> <<>>, unread |-> 0]]
      /\ streamState = [c \in GrpcClients |-> "none"] /\ handler = [c \in GrpcClients |-> NoItem]
      /\ jobQueue = <<>> /\ senders = <<>> /\ pendingJobs = <<>>
      /\ reply = [c \in GrpcClients |-> <<>>]
      /\ answers = [c \in GrpcClients |-> <<>>] /\ received = [c \in GrpcClients |-> <<>>]
  BY DEF GrpcInit
<1>2. /\ <<>> \in Seq(Nat) /\ <<>> \in Seq(Gots) /\ <<>> \in Seq(GrpcJob) /\ Len(<<>>) = 0
      /\ DOMAIN <<>> = {} /\ <<>> \o <<>> = <<>>
  BY EmptySeq, ConcatEmptySeq
<1>3. ASSUME NEW c \in GrpcClients
      PROVE  StreamFine(c, handler[c], requested[c], AnswersOf(c))
  <2>1. AnswersOf(c) = <<>> /\ requested[c] = [made |-> 0, asked |-> <<>>, unread |-> 0]
        /\ handler[c] = NoItem /\ NoItem.at = "none"
    BY <1>1, <1>2 DEF AnswersOf, NoItem
  <2> QED BY <1>2, <2>1 DEF StreamFine, InOrder
<1>4. GrpcStreams
  BY <1>1, <1>2, <1>3 DEF GrpcStreams, NoItem
<1>5. \A c : JobsOf(<<>>, c) = 0
  BY <1>2, JobsCounted
<1>6. GrpcJobs
  BY <1>1, <1>2, <1>5 DEF GrpcJobs, Fits, NoItem, One
<1>7. GrpcStored
  BY <1>1, FS_EmptySet DEF GrpcStored
<1> QED BY <1>4, <1>6, <1>7 DEF GrpcInv


-----------------------------------------------------------------------------
(* What the clients get *)

\* A stream that is not touched, and one whose answers grow at their end.
LEMMA AnswersGrow ==
  ASSUME GrpcStreams, NEW c \in GrpcClients, NEW item \in Gots,
         answers' = [answers EXCEPT ![c] = Append(@, item)], received' = received
  PROVE  /\ answers' \in [GrpcClients -> Seq(Gots)]
         /\ AnswersOf(c)' = Append(AnswersOf(c), item)
         /\ \A d \in GrpcClients : d # c => AnswersOf(d)' = AnswersOf(d)
<1>1. received[c] \in Seq(Gots) /\ answers[c] \in Seq(Gots) /\ answers \in [GrpcClients -> Seq(Gots)]
  BY DEF GrpcStreams
<1>2. Append(answers[c], item) \in Seq(Gots)
  BY <1>1, AppendProperties
<1>3. /\ answers' \in [GrpcClients -> Seq(Gots)] /\ answers'[c] = Append(answers[c], item)
      /\ \A d \in GrpcClients : d # c => answers'[d] = answers[d]
  BY <1>1, <1>2
<1>4. received[c] \o Append(answers[c], item) = Append(received[c] \o answers[c], item)
  <2> DEFINE a == received[c] \o Append(answers[c], item)
             b == Append(received[c] \o answers[c], item)
             m == Len(received[c])
             n == Len(answers[c])
  <2>1. /\ m \in Nat /\ n \in Nat /\ a \in Seq(Gots) /\ b \in Seq(Gots)
        /\ Len(a) = m + (n + 1) /\ Len(b) = (m + n) + 1
        /\ \A i \in 1 .. (m + (n + 1)) :
             a[i] = IF i <= m THEN received[c][i] ELSE Append(answers[c], item)[i - m]
        /\ \A i \in 1 .. (m + n) : (received[c] \o answers[c])[i]
                                     = IF i <= m THEN received[c][i] ELSE answers[c][i - m]
        /\ \A i \in 1 .. (m + n) : b[i] = (received[c] \o answers[c])[i]
        /\ b[(m + n) + 1] = item
        /\ \A i \in 1 .. n : Append(answers[c], item)[i] = answers[c][i]
        /\ Append(answers[c], item)[n + 1] = item
    <3>1. m \in Nat /\ n \in Nat
      BY <1>1, LenProperties
    <3>2. /\ Append(answers[c], item) \in Seq(Gots) /\ Len(Append(answers[c], item)) = n + 1
          /\ \A i \in 1 .. n : Append(answers[c], item)[i] = answers[c][i]
          /\ Append(answers[c], item)[n + 1] = item
      BY <1>1, AppendProperties
    <3>3. /\ received[c] \o answers[c] \in Seq(Gots) /\ Len(received[c] \o answers[c]) = m + n
          /\ \A i \in 1 .. (m + n) : (received[c] \o answers[c])[i]
                                     = IF i <= m THEN received[c][i] ELSE answers[c][i - m]
      BY <1>1, ConcatProperties
    <3>4. /\ b \in Seq(Gots) /\ Len(b) = (m + n) + 1 /\ b[(m + n) + 1] = item
          /\ \A i \in 1 .. (m + n) : b[i] = (received[c] \o answers[c])[i]
      <4> DEFINE g == received[c] \o answers[c]
      <4>1. g \in Seq(Gots) /\ Len(g) = m + n
        BY <3>3
      <4> HIDE DEF g, m, n
      <4>2. /\ Append(g, item) \in Seq(Gots) /\ Len(Append(g, item)) = Len(g) + 1
            /\ Append(g, item)[Len(g) + 1] = item
            /\ \A i \in 1 .. Len(g) : Append(g, item)[i] = g[i]
        BY <4>1, AppendProperties
      <4> QED BY <4>1, <4>2 DEF g
    <3>5. /\ a \in Seq(Gots) /\ Len(a) = m + (n + 1)
          /\ \A i \in 1 .. (m + (n + 1)) :
               a[i] = IF i <= m THEN received[c][i] ELSE Append(answers[c], item)[i - m]
      <4> DEFINE z == Append(answers[c], item)
      <4>1. z \in Seq(Gots) /\ Len(z) = n + 1
        BY <3>2
      <4> HIDE DEF z, n
      <4>2. /\ received[c] \o z \in Seq(Gots) /\ Len(received[c] \o z) = m + Len(z)
            /\ \A i \in 1 .. (m + Len(z)) :
                 (received[c] \o z)[i] = IF i <= m THEN received[c][i] ELSE z[i - m]
        BY <1>1, <4>1, ConcatProperties
      <4> HIDE DEF m
      <4> QED BY <4>1, <4>2 DEF z
    <3> QED BY <3>1, <3>2, <3>3, <3>4, <3>5
  <2> HIDE DEF a, b, m, n
  <2>2. ASSUME NEW i \in 1 .. Len(a) PROVE a[i] = b[i]
    <3>1. CASE i <= m
      <4>1. i \in 1 .. (m + (n + 1)) /\ i \in 1 .. (m + n)
        BY <2>1, <3>1
      <4>2. a[i] = received[c][i]
        BY <2>1, <3>1, <4>1
      <4>3. b[i] = received[c][i]
        BY <2>1, <3>1, <4>1
      <4> QED BY <4>2, <4>3
    <3>2. CASE i = (m + n) + 1
      <4>1. i - m = n + 1 /\ ~(i <= m) /\ i \in 1 .. (m + (n + 1))
        BY <2>1, <3>2
      <4>2. a[i] = Append(answers[c], item)[n + 1]
        BY <2>1, <4>1
      <4> QED BY <2>1, <3>2, <4>2
    <3>3. CASE i > m /\ i # (m + n) + 1
      <4>1. i - m \in 1 .. n /\ ~(i <= m) /\ i \in 1 .. (m + n)
        BY <2>1, <3>3
      <4> QED BY <2>1, <4>1
    <3> QED BY <2>1, <3>1, <3>2, <3>3
  <2>3. Len(a) = Len(b)
    BY <2>1
  <2>4. a = b
    BY <2>1, <2>2, <2>3, SeqEqual
  <2> QED BY <2>4 DEF a, b
<1> QED BY <1>3, <1>4 DEF AnswersOf

LEMMA AnswersMove ==
  ASSUME GrpcStreams, NEW c \in GrpcClients, answers[c] # <<>>,
         received' = [received EXCEPT ![c] = Append(@, Head(answers[c]))],
         answers' = [answers EXCEPT ![c] = Tail(@)]
  PROVE  /\ answers' \in [GrpcClients -> Seq(Gots)] /\ received' \in [GrpcClients -> Seq(Gots)]
         /\ \A d \in GrpcClients : AnswersOf(d)' = AnswersOf(d)
<1> DEFINE r == received[c]
           s == answers[c]
           a == Append(r, Head(s)) \o Tail(s)
           b == r \o s
<1>1. /\ r \in Seq(Gots) /\ s \in Seq(Gots)
      /\ received \in [GrpcClients -> Seq(Gots)] /\ answers \in [GrpcClients -> Seq(Gots)]
  BY DEF GrpcStreams
<1>2. /\ Head(s) \in Gots /\ Tail(s) \in Seq(Gots) /\ Append(r, Head(s)) \in Seq(Gots)
      /\ Head(s) = s[1] /\ Len(s) \in Nat \ {0} /\ Len(r) \in Nat /\ Len(Tail(s)) = Len(s) - 1
      /\ Len(Append(r, Head(s))) = Len(r) + 1
      /\ \A i \in 1 .. (Len(s) - 1) : Tail(s)[i] = s[i + 1]
      /\ \A i \in 1 .. Len(r) : Append(r, Head(s))[i] = r[i]
      /\ Append(r, Head(s))[Len(r) + 1] = s[1]
  BY <1>1, HeadTailProperties, AppendProperties, LenProperties, EmptySeq
<1>3. a = b
  <2>1. /\ a \in Seq(Gots) /\ Len(a) = (Len(r) + 1) + (Len(s) - 1)
        /\ \A i \in 1 .. ((Len(r) + 1) + (Len(s) - 1)) :
             a[i] = IF i <= Len(r) + 1 THEN Append(r, Head(s))[i] ELSE Tail(s)[i - (Len(r) + 1)]
    BY <1>1, <1>2, ConcatProperties
  <2>2. /\ b \in Seq(Gots) /\ Len(b) = Len(r) + Len(s)
        /\ \A i \in 1 .. (Len(r) + Len(s)) : b[i] = IF i <= Len(r) THEN r[i] ELSE s[i - Len(r)]
    BY <1>1, ConcatProperties
  <2> HIDE DEF a, b, r, s
  <2>3. ASSUME NEW i \in 1 .. Len(a) PROVE a[i] = b[i]
    <3>1. CASE i <= Len(r)
      <4>1. i \in 1 .. Len(r) /\ i <= Len(r) + 1
        BY <1>2, <3>1
      <4>2. a[i] = r[i]
        BY <1>2, <2>1, <4>1
      <4>3. b[i] = r[i]
        <5>1. i \in 1 .. (Len(r) + Len(s))
          BY <1>2, <4>1
        <5> QED BY <2>2, <3>1, <5>1
      <4> QED BY <4>2, <4>3
    <3>2. CASE i = Len(r) + 1
      <4>1. i - Len(r) = 1 /\ ~(i <= Len(r)) /\ i \in 1 .. (Len(r) + Len(s)) /\ i <= Len(r) + 1
        BY <1>2, <3>2
      <4>2. a[i] = s[1]
        BY <1>2, <2>1, <3>2, <4>1
      <4>3. b[i] = s[1]
        BY <2>2, <4>1
      <4> QED BY <4>2, <4>3
    <3>3. CASE i > Len(r) + 1
      <4>1. /\ i - (Len(r) + 1) \in 1 .. (Len(s) - 1) /\ (i - (Len(r) + 1)) + 1 = i - Len(r)
            /\ ~(i <= Len(r) + 1) /\ ~(i <= Len(r)) /\ i \in 1 .. (Len(r) + Len(s))
        BY <1>2, <2>1, <3>3
      <4>2. a[i] = Tail(s)[i - (Len(r) + 1)] /\ Tail(s)[i - (Len(r) + 1)] = s[i - Len(r)]
        BY <1>2, <2>1, <4>1
      <4>3. b[i] = s[i - Len(r)]
        BY <2>2, <4>1
      <4> QED BY <4>2, <4>3
    <3>4. i \in Int /\ Len(r) \in Int
      BY <1>2
    <3> QED BY <3>1, <3>2, <3>3, <3>4
  <2>4. Len(a) = Len(b)
    BY <1>2, <2>1, <2>2
  <2> QED BY <2>1, <2>2, <2>3, <2>4, SeqEqual
<1>4. /\ answers' \in [GrpcClients -> Seq(Gots)] /\ received' \in [GrpcClients -> Seq(Gots)]
      /\ received'[c] = Append(r, Head(s)) /\ answers'[c] = Tail(s)
      /\ \A d \in GrpcClients : d # c => received'[d] = received[d] /\ answers'[d] = answers[d]
  BY <1>1, <1>2
<1> QED BY <1>3, <1>4 DEF AnswersOf

\* What is sent next is the answer of the next request, or an error behind all.
LEMMA SendFits ==
  ASSUME GrpcStreams, NEW c \in GrpcClients, NEW item \in Gots, SendTo(c, item),
         UNCHANGED <<requested, streamState, received>>,
         handler[c].at \in {"reading", "reply", "full"},
         item # StreamError => \E n : IsNext(c, requested[c], AnswersOf(c), n) /\ item = AnswerFor(c, n)
  PROVE  /\ GrpcStreams' /\ handler'[c].at \in {"reading", "full", "gone"}
         /\ \A d \in GrpcClients : d # c => handler'[d] = handler[d]
<1> DEFINE r == requested[c]
           got == AnswersOf(c)
<1>1. /\ handler = [d \in GrpcClients |-> handler[d]] /\ StreamFine(c, handler[c], r, got)
      /\ streamState[c] # "none"
  BY DEF GrpcStreams
<1>2. /\ got \in Seq(Gots) /\ InOrder(c, r, got) /\ r.asked \in Seq(Nat) /\ r.unread \in 0 .. Len(r.asked)
      /\ \A i \in DOMAIN got : got[i] # StreamError
      /\ DOMAIN got = 1 .. Len(got) /\ Len(got) \in Nat /\ Len(r.asked) \in Nat
  BY <1>1, LenProperties DEF StreamFine
<1>3. CASE handler' = [handler EXCEPT ![c] = [at |-> "gone"]] /\ answers' = answers
  <2>1. /\ \A d \in GrpcClients : AnswersOf(d)' = AnswersOf(d)
        /\ handler'[c] = [at |-> "gone"] /\ \A d \in GrpcClients : d # c => handler'[d] = handler[d]
        /\ handler' = [d \in GrpcClients |-> handler'[d]]
    BY <1>1, <1>3 DEF AnswersOf
  <2>2. StreamFine(c, handler'[c], r, got)
    BY <1>1, <2>1 DEF StreamFine
  <2> QED BY <1>1, <1>3, <2>1, <2>2 DEF GrpcStreams
<1>4. CASE handler' = [handler EXCEPT ![c] = [at |-> "full", item |-> item]] /\ answers' = answers
  <2>1. /\ \A d \in GrpcClients : AnswersOf(d)' = AnswersOf(d)
        /\ handler'[c] = [at |-> "full", item |-> item]
        /\ \A d \in GrpcClients : d # c => handler'[d] = handler[d]
        /\ handler' = [d \in GrpcClients |-> handler'[d]]
    BY <1>1, <1>4 DEF AnswersOf
  <2>2. StreamFine(c, handler'[c], r, got)
    BY <1>1, <1>2, <2>1 DEF StreamFine
  <2> QED BY <1>1, <1>4, <2>1, <2>2 DEF GrpcStreams
<1>5. CASE /\ answers' = [answers EXCEPT ![c] = Append(@, item)]
           /\ handler' = [handler EXCEPT ![c] = AfterSend(item)]
  <2>1. /\ answers' \in [GrpcClients -> Seq(Gots)] /\ AnswersOf(c)' = Append(got, item)
        /\ \A d \in GrpcClients : d # c => AnswersOf(d)' = AnswersOf(d)
    BY <1>5, AnswersGrow
  <2>2. /\ handler'[c] = AfterSend(item) /\ handler' = [d \in GrpcClients |-> handler'[d]]
        /\ \A d \in GrpcClients : d # c => handler'[d] = handler[d]
        /\ handler'[c].at = IF item = StreamError THEN "gone" ELSE "reading"
    BY <1>1, <1>5 DEF AfterSend
  <2> DEFINE new == Append(got, item)
  <2>3. /\ new \in Seq(Gots) /\ Len(new) = Len(got) + 1 /\ DOMAIN new = 1 .. (Len(got) + 1)
        /\ new[Len(got) + 1] = item /\ \A i \in 1 .. Len(got) : new[i] = got[i]
    BY <1>2, AppendProperties, LenProperties
  <2> HIDE DEF new
  <2>4. \A i \in DOMAIN new : i = Len(got) + 1 \/ (i \in DOMAIN got /\ new[i] = got[i])
    BY <1>2, <2>3
  <2>5. item # StreamError => /\ (Len(got) + 1) + r.unread = Len(r.asked)
                              /\ item = AnswerFor(c, r.asked[Len(got) + 1])
                              /\ Len(got) + 1 <= Len(r.asked)
    BY <1>2 DEF IsNext
  <2>6. InOrder(c, r, new)
    <3>1. ASSUME NEW i \in DOMAIN new
          PROVE  \/ new[i] = StreamError /\ i = Len(new)
                 \/ i <= Len(r.asked) /\ new[i] = AnswerFor(c, r.asked[i])
      <4>1. CASE i = Len(got) + 1
        BY <2>3, <2>5, <4>1
      <4>2. CASE i \in DOMAIN got /\ new[i] = got[i]
        BY <1>2, <4>2 DEF InOrder
      <4> QED BY <2>4, <4>1, <4>2
    <3> QED BY <3>1 DEF InOrder
  <2>7. item # StreamError => \A i \in DOMAIN new : new[i] # StreamError
    BY <1>2, <2>3, <2>4
  <2>8. StreamFine(c, handler'[c], r, new)
    BY <1>1, <1>2, <2>2, <2>3, <2>5, <2>6, <2>7 DEF StreamFine
  <2> QED BY <1>1, <2>1, <2>2, <2>8 DEF GrpcStreams, new
<1> QED BY <1>3, <1>4, <1>5 DEF SendTo


\* An action that leaves the streams as they are but for one.
LEMMA OneStream ==
  ASSUME GrpcStreams, NEW c \in GrpcClients,
         handler' = [d \in GrpcClients |-> handler'[d]],
         requested' = [d \in GrpcClients |-> requested'[d]],
         received' = received, answers' = answers, streamState' = streamState,
         \A d \in GrpcClients : d # c => handler'[d] = handler[d] /\ requested'[d] = requested[d],
         StreamFine(c, handler'[c], requested'[c], AnswersOf(c)),
         handler'[c].at = "none" <=> handler[c].at = "none"
  PROVE  GrpcStreams'
<1>1. \A d \in GrpcClients : AnswersOf(d)' = AnswersOf(d)
  BY DEF AnswersOf
<1>2. ASSUME NEW d \in GrpcClients
      PROVE  /\ StreamFine(d, handler'[d], requested'[d], AnswersOf(d)')
             /\ streamState'[d] = "none" <=> handler'[d].at = "none"
  <2>1. CASE d = c
    BY <1>1, <2>1 DEF GrpcStreams
  <2>2. CASE d # c
    BY <1>1, <2>2 DEF GrpcStreams
  <2> QED BY <2>1, <2>2
<1> QED BY <1>2 DEF GrpcStreams

LEMMA StreamSends ==
  ASSUME GrpcStreams, NEW c \in GrpcClients, ClientSends(c)
  PROVE  GrpcStreams'
<1> DEFINE r == requested[c]
           n == r.made + 1
           new == [made |-> n, asked |-> Append(r.asked, n), unread |-> r.unread + 1]
           got == AnswersOf(c)
           h == handler[c]
<1>1. /\ streamState[c] = "open" /\ requested' = [requested EXCEPT ![c] = new]
      /\ UNCHANGED <<streamState, received, handler, answers>>
  BY DEF ClientSends
<1>2. /\ StreamFine(c, h, r, got) /\ requested = [d \in GrpcClients |-> requested[d]]
      /\ handler = [d \in GrpcClients |-> handler[d]] /\ h.at # "none"
  BY <1>1 DEF GrpcStreams
<1>3. /\ requested' = [d \in GrpcClients |-> requested'[d]] /\ requested'[c] = new
      /\ \A d \in GrpcClients : d # c => requested'[d] = requested[d]
  BY <1>1, <1>2
<1>4. /\ r.asked \in Seq(Nat) /\ n \in Nat /\ r.unread \in 0 .. Len(r.asked) /\ Len(r.asked) \in Nat
      /\ got \in Seq(Gots) /\ DOMAIN got = 1 .. Len(got) /\ Len(got) \in Nat
  BY <1>2, LenProperties DEF StreamFine
<1>5. /\ new.asked \in Seq(Nat) /\ Len(new.asked) = Len(r.asked) + 1
      /\ \A i \in 1 .. Len(r.asked) : new.asked[i] = r.asked[i]
      /\ new.made = n /\ new.unread = r.unread + 1
  BY <1>4, AppendProperties
<1> HIDE DEF new, h, got, r, n
<1>6. InOrder(c, new, got)
  <2>1. ASSUME NEW i \in DOMAIN got, i <= Len(r.asked), got[i] = AnswerFor(c, r.asked[i])
        PROVE  i <= Len(new.asked) /\ got[i] = AnswerFor(c, new.asked[i])
    <3>1. i \in 1 .. Len(r.asked)
      BY <1>4, <2>1
    <3>2. i <= Len(new.asked)
      BY <1>4, <1>5, <3>1
    <3>3. new.asked[i] = r.asked[i]
      BY <1>5, <3>1
    <3> QED BY <2>1, <3>2, <3>3
  <2>2. InOrder(c, r, got)
    BY <1>2 DEF StreamFine
  <2> QED BY <2>1, <2>2 DEF InOrder
<1>7. ASSUME NEW m, IsNext(c, r, got, m) PROVE IsNext(c, new, got, m)
  <2>1. Len(got) + 1 + r.unread = Len(r.asked) /\ m = r.asked[Len(got) + 1]
    BY <1>7 DEF IsNext
  <2>2. Len(got) + 1 + new.unread = Len(new.asked) /\ Len(got) + 1 \in 1 .. Len(r.asked)
    <3>1. /\ r.unread \in Nat /\ Len(r.asked) \in Nat /\ Len(got) \in Nat
          /\ new.unread = r.unread + 1 /\ Len(new.asked) = Len(r.asked) + 1
      BY <1>4, <1>5
    <3>2. Len(got) + 1 + r.unread = Len(r.asked)
      BY <2>1
    <3> QED BY ONLY <3>1, <3>2
  <2> QED BY <1>5, <2>1, <2>2 DEF IsNext
<1>8. h.at = "reading" => Len(got) + new.unread = Len(new.asked)
  <2>1. h.at = "reading" => Len(got) + r.unread = Len(r.asked)
    BY <1>2 DEF StreamFine
  <2> QED BY <1>4, <1>5, <2>1
<1>9. /\ new = [made |-> new.made, asked |-> new.asked, unread |-> new.unread]
      /\ new.unread \in 0 .. Len(new.asked)
  BY <1>4, <1>5 DEF new
<1>10. StreamFine(c, h, new, got)
  BY <1>2, <1>4, <1>5, <1>6, <1>7, <1>8, <1>9 DEF StreamFine
<1> QED BY <1>1, <1>2, <1>3, <1>10, OneStream DEF got, h

LEMMA StreamNexts ==
  ASSUME GrpcStreams, NEW c \in GrpcClients, HandlerReads(c)
  PROVE  LET n == requested[c].asked[Len(requested[c].asked) - requested[c].unread + 1]
         IN  /\ n \in Nat /\ Push([client |-> c, text |-> <<c, n>>]) /\ handler[c].at = "reading"
             /\ IsNext(c, requested'[c], AnswersOf(c), n)
             /\ UNCHANGED <<cogons, streamState, received, pendingJobs, reply, answers, encoded>>
             /\ GrpcStreams'
<1> DEFINE r == requested[c]
           n == r.asked[Len(r.asked) - r.unread + 1]
           new == [r EXCEPT !.unread = @ - 1]
           got == AnswersOf(c)
<1>1. /\ handler[c].at = "reading" /\ r.unread > 0
      /\ requested' = [requested EXCEPT ![c].unread = @ - 1]
      /\ Push([client |-> c, text |-> <<c, n>>])
      /\ UNCHANGED <<cogons, streamState, rxOpen, received, pendingJobs, reply, answers, encoded>>
  BY DEF HandlerReads
<1>2. /\ StreamFine(c, handler[c], r, got) /\ requested = [d \in GrpcClients |-> requested[d]]
      /\ handler = [d \in GrpcClients |-> handler[d]]
  BY DEF GrpcStreams
<1>3. /\ r = [made |-> r.made, asked |-> r.asked, unread |-> r.unread]
      /\ r.asked \in Seq(Nat) /\ r.unread \in 0 .. Len(r.asked) /\ Len(r.asked) \in Nat
      /\ r.made \in Nat
      /\ got \in Seq(Gots) /\ DOMAIN got = 1 .. Len(got) /\ Len(got) \in Nat
      /\ Len(got) + r.unread = Len(r.asked) /\ InOrder(c, r, got)
      /\ \A i \in DOMAIN got : got[i] # StreamError
  BY <1>1, <1>2, LenProperties DEF StreamFine
<1>4. n = r.asked[Len(got) + 1] /\ n \in Nat
  <2>1. Len(r.asked) - r.unread + 1 = Len(got) + 1 /\ Len(got) + 1 \in 1 .. Len(r.asked)
    BY <1>1, <1>3
  <2> QED BY <1>3, <2>1, ElementOfSeq
<1>5. /\ requested' = [d \in GrpcClients |-> requested'[d]] /\ requested'[c] = new
      /\ \A d \in GrpcClients : d # c => requested'[d] = requested[d]
  BY <1>1, <1>2
<1>6. /\ new = [made |-> new.made, asked |-> new.asked, unread |-> new.unread]
      /\ new.asked = r.asked /\ new.made = r.made /\ new.unread = r.unread - 1
  BY <1>3
<1> HIDE DEF n, new
<1>7. IsNext(c, new, got, n)
  BY <1>1, <1>3, <1>4, <1>6 DEF IsNext
<1>8. \E w \in {"reply", "push"} : handler' = [handler EXCEPT ![c] = [at |-> w, n |-> n]]
  <2>1. [client |-> c, text |-> <<c, n>>].client = c /\ [client |-> c, text |-> <<c, n>>].text[2] = n
    OBVIOUS
  <2> QED BY <1>1, <2>1 DEF Push
<1>9. GrpcStreams'
  <2>1. PICK w \in {"reply", "push"} : handler' = [handler EXCEPT ![c] = [at |-> w, n |-> n]]
    BY <1>8
  <2>2. /\ handler' = [d \in GrpcClients |-> handler'[d]] /\ handler'[c] = [at |-> w, n |-> n]
        /\ \A d \in GrpcClients : d # c => handler'[d] = handler[d]
    BY <1>2, <2>1
  <2>3. InOrder(c, new, got)
    BY <1>3, <1>6 DEF InOrder
  <2>4. new.unread \in 0 .. Len(new.asked)
    BY <1>1, <1>3, <1>6
  <2>5. StreamFine(c, handler'[c], new, got)
    BY <1>3, <1>6, <1>7, <2>2, <2>3, <2>4 DEF StreamFine
  <2>6. handler'[c].at # "none" /\ handler[c].at # "none"
    BY <1>1, <2>2
  <2> QED BY <1>1, <1>5, <2>2, <2>5, <2>6, OneStream
<1> QED BY <1>1, <1>4, <1>5, <1>7, <1>9 DEF n


LEMMA StreamsInductive ==
  ASSUME GrpcInv, GrpcNext
  PROVE  GrpcStreams'
<1>1. /\ GrpcStreams /\ GrpcJobs
      /\ handler = [d \in GrpcClients |-> handler[d]] /\ requested = [d \in GrpcClients |-> requested[d]]
      /\ reply = [d \in GrpcClients |-> reply[d]]
      /\ senders \in Seq(GrpcJob) /\ Fits(senders, handler)
      /\ streamState \in [GrpcClients -> {"none", "open", "ended", "broken"}]
      /\ \A c \in GrpcClients : /\ StreamFine(c, handler[c], requested[c], AnswersOf(c))
                                /\ streamState[c] = "none" <=> handler[c].at = "none"
  BY DEF GrpcInv, GrpcStreams, GrpcJobs
<1>2. ASSUME NEW c \in GrpcClients, EncodeUnary(c) PROVE GrpcStreams'
  <2> DEFINE r == requested[c]
             new == [r EXCEPT !.made = r.made + 1]
  <2>1. /\ requested' = [requested EXCEPT ![c].made = r.made + 1]
        /\ UNCHANGED <<streamState, received, handler, answers>>
    BY <1>2 DEF EncodeUnary
  <2>2. StreamFine(c, handler[c], r, AnswersOf(c)) /\ r.made \in Nat
        /\ r = [made |-> r.made, asked |-> r.asked, unread |-> r.unread]
    BY <1>1 DEF StreamFine
  <2>3. /\ requested' = [d \in GrpcClients |-> requested'[d]] /\ requested'[c] = new
        /\ \A d \in GrpcClients : d # c => requested'[d] = requested[d]
    BY <1>1, <2>1
  <2>4. /\ new = [made |-> new.made, asked |-> new.asked, unread |-> new.unread]
        /\ new.made \in Nat /\ new.asked = r.asked /\ new.unread = r.unread
    BY <2>2
  <2> HIDE DEF new, r
  <2>5. StreamFine(c, handler[c], new, AnswersOf(c))
    BY <2>2, <2>4 DEF StreamFine, InOrder, IsNext
  <2> QED BY <1>1, <2>1, <2>3, <2>5, OneStream DEF r
<1>3. ASSUME NEW c \in GrpcClients, EncodeBatch(c) PROVE GrpcStreams'
  <2>1. /\ streamState[c] = "none" /\ streamState' = [streamState EXCEPT ![c] = "open"]
        /\ handler' = [handler EXCEPT ![c].at = "reading"]
        /\ UNCHANGED <<requested, received, answers>>
    BY <1>3 DEF EncodeBatch
  <2>2. /\ handler[c].at = "none" /\ StreamFine(c, handler[c], requested[c], AnswersOf(c))
        /\ handler[c] = NoItem
    BY <1>1, <2>1 DEF StreamFine
  <2>3. /\ handler' = [d \in GrpcClients |-> handler'[d]] /\ handler'[c].at = "reading"
        /\ \A d \in GrpcClients : d # c => handler'[d] = handler[d]
    BY <1>1, <2>1, <2>2 DEF NoItem
  <2>4. \A d \in GrpcClients : AnswersOf(d)' = AnswersOf(d)
    BY <2>1 DEF AnswersOf
  <2>5. Len(<<>>) = 0 /\ DOMAIN <<>> = {}
    BY EmptySeq
  <2>6. StreamFine(c, handler'[c], requested[c], AnswersOf(c))
    <3>1. /\ AnswersOf(c) = <<>> /\ requested[c].asked = <<>> /\ requested[c].unread = 0
      BY <2>2 DEF StreamFine
    <3> QED BY <2>2, <2>3, <2>5, <3>1 DEF StreamFine
  <2>7. streamState' \in [GrpcClients -> {"none", "open", "ended", "broken"}]
        /\ streamState'[c] = "open" /\ \A d \in GrpcClients : d # c => streamState'[d] = streamState[d]
    BY <1>1, <2>1
  <2>8. ASSUME NEW d \in GrpcClients
        PROVE  /\ StreamFine(d, handler'[d], requested'[d], AnswersOf(d)')
               /\ streamState'[d] = "none" <=> handler'[d].at = "none"
    <3>1. CASE d = c
      BY <2>1, <2>3, <2>4, <2>6, <2>7, <3>1
    <3>2. CASE d # c
      BY <1>1, <2>1, <2>3, <2>4, <2>7, <3>2
    <3> QED BY <3>1, <3>2
  <2>9. received' \in [GrpcClients -> Seq(Gots)] /\ answers' \in [GrpcClients -> Seq(Gots)]
        /\ requested' = [d \in GrpcClients |-> requested'[d]]
    BY <1>1, <2>1 DEF GrpcStreams
  <2> QED BY <2>3, <2>7, <2>8, <2>9 DEF GrpcStreams
<1>4. ASSUME NEW c \in GrpcClients, ClientReceives(c) PROVE GrpcStreams'
  <2>1. /\ answers[c] # <<>>
        /\ received' = [received EXCEPT ![c] = Append(@, Head(answers[c]))]
        /\ answers' = [answers EXCEPT ![c] = Tail(@)]
        /\ UNCHANGED <<requested, streamState, handler>>
    BY <1>4 DEF ClientReceives
  <2>2. /\ answers' \in [GrpcClients -> Seq(Gots)] /\ received' \in [GrpcClients -> Seq(Gots)]
        /\ \A d \in GrpcClients : AnswersOf(d)' = AnswersOf(d)
    BY <1>1, <2>1, AnswersMove
  <2> QED BY <1>1, <2>1, <2>2 DEF GrpcStreams
<1>5. ASSUME NEW c \in GrpcClients, NEW how \in {"ended", "broken"}, NEW reads, StreamEnds(c, how, reads)
      PROVE  GrpcStreams'
  <2>1. /\ streamState[c] = "open" /\ streamState' = [streamState EXCEPT ![c] = how]
        /\ UNCHANGED <<requested, received, handler, answers>>
    BY <1>5 DEF StreamEnds
  <2>2. \A d \in GrpcClients : AnswersOf(d)' = AnswersOf(d)
    BY <2>1 DEF AnswersOf
  <2>3. /\ streamState' \in [GrpcClients -> {"none", "open", "ended", "broken"}]
        /\ \A d \in GrpcClients : streamState'[d] = "none" <=> streamState[d] = "none"
    BY <1>1, <2>1
  <2> QED BY <1>1, <2>1, <2>2, <2>3 DEF GrpcStreams
<1>6. ASSUME NEW c \in GrpcClients, HandlerAnswers(c) PROVE GrpcStreams'
  <2> DEFINE n == handler[c].n
             item == [n |-> n, sem |-> Head(reply[c])]
  <2>1. /\ handler[c].at = "reply" /\ reply[c] # <<>> /\ SendTo(c, item)
        /\ UNCHANGED <<requested, streamState, received>>
    BY <1>6 DEF HandlerAnswers, clientVars
  <2>2. reply[c] = <<Projection(<<c, n>>)>>
    BY <1>1, <2>1 DEF GrpcJobs
  <2>3. item = AnswerFor(c, n)
    BY <2>2 DEF AnswerFor
  <2>4. IsNext(c, requested[c], AnswersOf(c), n)
    BY <1>1, <2>1 DEF StreamFine
  <2>5. n \in Nat
    <3> DEFINE r == requested[c]
               got == AnswersOf(c)
    <3>1. /\ r.asked \in Seq(Nat) /\ r.unread \in 0 .. Len(r.asked) /\ got \in Seq(Gots)
          /\ Len(r.asked) \in Nat /\ Len(got) \in Nat
      BY <1>1, LenProperties DEF StreamFine
    <3>2. Len(got) + 1 + r.unread = Len(r.asked) /\ n = r.asked[Len(got) + 1]
      BY <2>4 DEF IsNext
    <3> HIDE DEF r, got, n
    <3>3. Len(got) + 1 \in 1 .. Len(r.asked)
      BY <3>1, <3>2
    <3> QED BY <3>1, <3>2, <3>3, ElementOfSeq
  <2> HIDE DEF n, item
  <2>6. item \in Gots
    BY <2>3, <2>5 DEF Gots
  <2> QED BY <1>1, <2>1, <2>3, <2>4, <2>6, SendFits
<1>7. ASSUME NEW c \in GrpcClients, HandlerSends(c) PROVE GrpcStreams'
  <2> DEFINE item == handler[c].item
  <2>1. /\ handler[c].at = "full" /\ SendTo(c, item)
        /\ UNCHANGED <<requested, streamState, received>>
    BY <1>7 DEF HandlerSends, clientVars
  <2>2. /\ item \in Gots
        /\ item # StreamError
             => \E n : IsNext(c, requested[c], AnswersOf(c), n) /\ item = AnswerFor(c, n)
    BY <1>1, <2>1 DEF StreamFine
  <2> HIDE DEF item
  <2> QED BY <1>1, <2>1, <2>2, SendFits
<1>8. ASSUME NEW c \in GrpcClients, HandlerBreaks(c) PROVE GrpcStreams'
  <2>1. /\ handler[c].at = "reading" /\ SendTo(c, StreamError)
        /\ UNCHANGED <<requested, streamState, received>>
    BY <1>8 DEF HandlerBreaks, clientVars
  <2>2. StreamError \in Gots
    BY DEF Gots
  <2> QED BY <1>1, <2>1, <2>2, SendFits
<1>9. ASSUME NEW c \in GrpcClients, HandlerEnds(c) PROVE GrpcStreams'
  <2>1. /\ handler[c].at = "reading" /\ handler' = [handler EXCEPT ![c] = [at |-> "gone"]]
        /\ UNCHANGED <<requested, streamState, received, answers>>
    BY <1>9 DEF HandlerEnds, clientVars
  <2>2. /\ handler' = [d \in GrpcClients |-> handler'[d]] /\ handler'[c].at = "gone"
        /\ \A d \in GrpcClients : d # c => handler'[d] = handler[d]
    BY <1>1, <2>1
  <2>3. StreamFine(c, handler'[c], requested[c], AnswersOf(c))
    BY <1>1, <2>2 DEF StreamFine
  <2> QED BY <1>1, <2>1, <2>2, <2>3, OneStream
<1>10. CASE JobEnters
  <2> DEFINE j == Head(senders)
             c == j.client
  <2>1. /\ senders # <<>> /\ handler' = [handler EXCEPT ![c].at = "reply"]
        /\ UNCHANGED <<requested, streamState, received, answers>>
    BY <1>10 DEF JobEnters, clientVars
  <2>2. j \in GrpcJob /\ c \in GrpcClients
    <3>1. j \in GrpcJob
      BY <1>1, <2>1, FitsMoved
    <3> QED BY <3>1 DEF GrpcJob
  <2>3. handler[c].at = "push"
    <3>1. JobsOf(senders, c) # 0
      <4>1. 1 \in DOMAIN senders /\ senders[1].client = c
        BY <1>1, <2>1, LenProperties, EmptySeq
      <4> QED BY <1>1, <4>1, JobsCounted
    <3> QED BY <1>1, <2>2, <3>1 DEF GrpcJobs, One
  <2> HIDE DEF j, c
  <2>4. /\ handler[c] = [at |-> "push", n |-> handler[c].n]
        /\ IsNext(c, requested[c], AnswersOf(c), handler[c].n)
    BY <1>1, <2>2, <2>3 DEF StreamFine
  <2>5. /\ handler'[c] = [at |-> "reply", n |-> handler[c].n]
        /\ handler' = [d \in GrpcClients |-> handler'[d]]
        /\ \A d \in GrpcClients : d # c => handler'[d] = handler[d]
    BY <1>1, <2>1, <2>2, <2>4
  <2>6. /\ handler'[c].at = "reply" /\ handler'[c].n = handler[c].n
        /\ handler'[c] = [at |-> handler'[c].at, n |-> handler'[c].n]
    BY <2>5
  <2>7. StreamFine(c, handler'[c], requested[c], AnswersOf(c))
    BY <1>1, <2>2, <2>3, <2>4, <2>6 DEF StreamFine
  <2> QED BY <1>1, <2>1, <2>2, <2>3, <2>5, <2>6, <2>7, OneStream
<1>11. CASE WorkerReceives \/ Tick
  <2>1. UNCHANGED <<requested, streamState, received, handler, answers>>
    BY <1>11 DEF WorkerReceives, Tick, clientVars
  <2> QED BY <1>1, <2>1 DEF GrpcStreams, AnswersOf
<1>12. CASE ServiceStops
  <2>1. /\ streamState' = [c \in GrpcClients |-> IF streamState[c] = "none" THEN "none" ELSE "broken"]
        /\ handler' = [c \in GrpcClients |-> IF streamState[c] = "none" THEN NoItem ELSE [at |-> "gone"]]
        /\ answers' = [c \in GrpcClients |-> <<>>]
        /\ requested' = [c \in GrpcClients |-> [requested[c] EXCEPT !.asked = <<>>, !.unread = 0]]
        /\ received' = [c \in GrpcClients |-> <<>>]
    BY <1>12 DEF ServiceStops
  <2>2. /\ <<>> \in Seq(Gots) /\ <<>> \in Seq(Nat) /\ Len(<<>>) = 0 /\ DOMAIN <<>> = {}
        /\ <<>> \o <<>> = <<>>
    BY EmptySeq, ConcatEmptySeq
  <2>3. ASSUME NEW c \in GrpcClients
        PROVE  StreamFine(c, handler'[c], requested'[c], AnswersOf(c)')
    <3>1. AnswersOf(c)' = <<>>
      BY <2>1, <2>2 DEF AnswersOf
    <3>2. /\ requested[c] = [made |-> requested[c].made, asked |-> requested[c].asked,
                             unread |-> requested[c].unread]
          /\ requested[c].made \in Nat
      BY <1>1 DEF StreamFine
    <3>3. requested'[c] = [made |-> requested[c].made, asked |-> <<>>, unread |-> 0]
      BY <2>1, <3>2
    <3>4. \/ handler'[c] = NoItem /\ NoItem.at = "none"
          \/ handler'[c] = [at |-> "gone"] /\ handler'[c].at = "gone"
      BY <2>1 DEF NoItem
    <3>5. InOrder(c, requested'[c], <<>>)
      BY <2>2 DEF InOrder
    <3> QED BY <2>2, <3>1, <3>2, <3>3, <3>4, <3>5 DEF StreamFine
  <2>4. \A c \in GrpcClients : streamState'[c] = "none" <=> handler'[c].at = "none"
    BY <2>1 DEF NoItem
  <2>5. streamState' \in [GrpcClients -> {"none", "open", "ended", "broken"}]
    BY <2>1
  <2>6. /\ handler' = [c \in GrpcClients |-> handler'[c]]
        /\ requested' = [c \in GrpcClients |-> requested'[c]]
    BY <2>1
  <2>7. received' \in [GrpcClients -> Seq(Gots)] /\ answers' \in [GrpcClients -> Seq(Gots)]
    BY <2>1, <2>2
  <2> QED BY <2>3, <2>4, <2>5, <2>6, <2>7 DEF GrpcStreams
<1> QED BY <1>1, <1>2, <1>3, <1>4, <1>5, <1>6, <1>7, <1>8, <1>9, <1>10, <1>11, <1>12, StreamSends,
           StreamNexts DEF GrpcNext


-----------------------------------------------------------------------------
(* The jobs *)

\* A handler that waits for no job changes, and waits for none after: the jobs stay.
LEMMA JobsUntouched ==
  ASSUME GrpcJobs, NEW c \in GrpcClients, UNCHANGED <<jobQueue, senders, pendingJobs>>,
         reply' = reply, handler[c].at \notin {"push", "reply"}, handler'[c].at \notin {"push", "reply"},
         \A d \in GrpcClients : d # c => handler'[d] = handler[d]
  PROVE  GrpcJobs'
<1>1. /\ senders \in Seq(GrpcJob) /\ jobQueue \in Seq(GrpcJob) /\ pendingJobs \in Seq(GrpcJob)
      /\ Fits(senders, handler) /\ Fits(jobQueue, handler) /\ Fits(pendingJobs, handler)
      /\ reply = [d \in GrpcClients |-> reply[d]]
      /\ JobsOf(senders, c) = 0
      /\ JobsOf(jobQueue, c) + JobsOf(pendingJobs, c) + Len(reply[c]) = 0
      /\ reply[c] = <<>> \/ reply[c] = <<Projection(<<c, handler[c].n>>)>>
  BY DEF GrpcJobs, One
<1>2. JobsOf(jobQueue, c) = 0 /\ JobsOf(pendingJobs, c) = 0 /\ Len(reply[c]) = 0 /\ reply[c] = <<>>
  <2>1. JobsOf(jobQueue, c) \in Nat /\ JobsOf(pendingJobs, c) \in Nat
    BY <1>1, JobsCounted
  <2>2. Len(reply[c]) \in Nat /\ (Len(reply[c]) = 0 => reply[c] = <<>>)
    BY <1>1
  <2> QED BY <1>1, <2>1, <2>2
<1>3. ASSUME NEW s \in Seq(GrpcJob), Fits(s, handler), JobsOf(s, c) = 0 PROVE Fits(s, handler')
  <2>1. \A i \in DOMAIN s : s[i].client # c /\ s[i].client \in GrpcClients
    BY <1>3, JobsCounted, JobsOfClients
  <2> QED BY <1>3, <2>1 DEF Fits
<1>4. ASSUME NEW d \in GrpcClients
      PROVE  /\ reply[d] = <<>> \/ reply[d] = <<Projection(<<d, handler'[d].n>>)>>
             /\ JobsOf(senders, d) = One(handler'[d].at = "push")
             /\ JobsOf(jobQueue, d) + JobsOf(pendingJobs, d) + Len(reply[d]) = One(handler'[d].at = "reply")
  <2>1. CASE d = c
    BY <1>1, <1>2, <2>1 DEF One
  <2>2. CASE d # c
    BY <2>2 DEF GrpcJobs
  <2> QED BY <2>1, <2>2
<1> QED BY <1>1, <1>2, <1>3, <1>4 DEF GrpcJobs

\* push: the job of a handler that had none.
LEMMA JobsPushed ==
  ASSUME GrpcJobs, NEW c \in GrpcClients, NEW n \in Nat,
         handler = [d \in GrpcClients |-> handler[d]],
         Push([client |-> c, text |-> <<c, n>>]), handler[c].at = "reading",
         pendingJobs' = pendingJobs, reply' = reply
  PROVE  GrpcJobs'
<1> DEFINE j == [client |-> c, text |-> <<c, n>>]
<1>1. /\ senders \in Seq(GrpcJob) /\ jobQueue \in Seq(GrpcJob) /\ pendingJobs \in Seq(GrpcJob)
      /\ Fits(senders, handler) /\ Fits(jobQueue, handler) /\ Fits(pendingJobs, handler)
      /\ reply = [d \in GrpcClients |-> reply[d]]
      /\ JobsOf(senders, c) = 0
      /\ JobsOf(jobQueue, c) + JobsOf(pendingJobs, c) + Len(reply[c]) = 0
      /\ reply[c] = <<>> \/ reply[c] = <<Projection(<<c, handler[c].n>>)>>
  BY DEF GrpcJobs, One
<1>2. /\ JobsOf(jobQueue, c) = 0 /\ JobsOf(pendingJobs, c) = 0 /\ reply[c] = <<>> /\ Len(reply[c]) = 0
      /\ \A d : JobsOf(jobQueue, d) \in Nat /\ JobsOf(pendingJobs, d) \in Nat /\ JobsOf(senders, d) \in Nat
  <2>1. \A d : JobsOf(jobQueue, d) \in Nat /\ JobsOf(pendingJobs, d) \in Nat /\ JobsOf(senders, d) \in Nat
    BY <1>1, JobsCounted
  <2>2. Len(reply[c]) \in Nat /\ (Len(reply[c]) = 0 => reply[c] = <<>>)
    BY <1>1
  <2> QED BY <1>1, <2>1, <2>2
<1>3. j \in GrpcJob /\ j.client = c /\ j = JobFor(c, n) /\ j.text[2] = n
  BY DEF GrpcJob, Text, JobFor
<1>4. \/ /\ jobQueue' = Append(jobQueue, j) /\ senders' = senders
         /\ handler' = [handler EXCEPT ![c] = [at |-> "reply", n |-> n]]
      \/ /\ senders' = Append(senders, j) /\ jobQueue' = jobQueue
         /\ handler' = [handler EXCEPT ![c] = [at |-> "push", n |-> n]]
  BY <1>3 DEF Push
<1> HIDE DEF j
<1>5. /\ handler'[c].n = n /\ \A d \in GrpcClients : d # c => handler'[d] = handler[d]
  BY <1>4
<1>6. ASSUME NEW s \in Seq(GrpcJob), Fits(s, handler), JobsOf(s, c) = 0
      PROVE  Fits(s, handler') /\ Append(s, j) \in Seq(GrpcJob) /\ Fits(Append(s, j), handler')
  <2>1. \A i \in DOMAIN s : s[i].client # c /\ s[i].client \in GrpcClients
    BY <1>6, JobsCounted, JobsOfClients
  <2>2. Fits(s, handler')
    BY <1>5, <1>6, <2>1 DEF Fits
  <2> QED BY <1>3, <1>5, <2>2, FitsMoved
<1>7. \A d : /\ JobsOf(Append(senders, j), d) = JobsOf(senders, d) + One(c = d)
             /\ JobsOf(Append(jobQueue, j), d) = JobsOf(jobQueue, d) + One(c = d)
  BY <1>1, <1>3, JobsAppended
<1>8. CASE /\ jobQueue' = Append(jobQueue, j) /\ senders' = senders
           /\ handler' = [handler EXCEPT ![c] = [at |-> "reply", n |-> n]]
  <2>1. handler'[c].at = "reply"
    BY <1>8
  <2>2. ASSUME NEW d \in GrpcClients
        PROVE  /\ reply[d] = <<>> \/ reply[d] = <<Projection(<<d, handler'[d].n>>)>>
               /\ JobsOf(senders', d) = One(handler'[d].at = "push")
               /\ JobsOf(jobQueue', d) + JobsOf(pendingJobs, d) + Len(reply[d]) = One(handler'[d].at = "reply")
    <3>1. CASE d = c
      <4>1. One(c = c) = 1
        BY DEF One
      <4>2. JobsOf(jobQueue', c) = 1
        BY <1>2, <1>7, <1>8, <4>1
      <4> QED BY <1>1, <1>2, <1>8, <2>1, <3>1, <4>2 DEF One
    <3>2. CASE d # c
      <4>1. One(c = d) = 0 /\ JobsOf(jobQueue, d) \in Nat
        BY <1>2, <3>2 DEF One
      <4>2. JobsOf(jobQueue', d) = JobsOf(jobQueue, d)
        BY <1>7, <1>8, <4>1
      <4> QED BY <1>5, <1>8, <3>2, <4>2 DEF GrpcJobs
    <3> QED BY <3>1, <3>2
  <2>3. Fits(senders', handler') /\ Fits(pendingJobs, handler') /\ jobQueue' \in Seq(GrpcJob)
        /\ Fits(jobQueue', handler') /\ senders' \in Seq(GrpcJob)
    BY <1>1, <1>2, <1>6, <1>8
  <2> QED BY <1>1, <2>2, <2>3 DEF GrpcJobs
<1>9. CASE /\ senders' = Append(senders, j) /\ jobQueue' = jobQueue
           /\ handler' = [handler EXCEPT ![c] = [at |-> "push", n |-> n]]
  <2>1. handler'[c].at = "push"
    BY <1>9
  <2>2. ASSUME NEW d \in GrpcClients
        PROVE  /\ reply[d] = <<>> \/ reply[d] = <<Projection(<<d, handler'[d].n>>)>>
               /\ JobsOf(senders', d) = One(handler'[d].at = "push")
               /\ JobsOf(jobQueue', d) + JobsOf(pendingJobs, d) + Len(reply[d]) = One(handler'[d].at = "reply")
    <3>1. CASE d = c
      <4>1. One(c = c) = 1
        BY DEF One
      <4>2. JobsOf(senders', c) = 1
        BY <1>1, <1>2, <1>7, <1>9, <4>1
      <4> QED BY <1>1, <1>2, <1>9, <2>1, <3>1, <4>2 DEF One
    <3>2. CASE d # c
      <4>1. One(c = d) = 0 /\ JobsOf(senders, d) \in Nat
        BY <1>2, <3>2 DEF One
      <4>2. JobsOf(senders', d) = JobsOf(senders, d)
        BY <1>7, <1>9, <4>1
      <4> QED BY <1>5, <1>9, <3>2, <4>2 DEF GrpcJobs
    <3> QED BY <3>1, <3>2
  <2>3. Fits(senders', handler') /\ Fits(pendingJobs, handler') /\ jobQueue' \in Seq(GrpcJob)
        /\ Fits(jobQueue', handler') /\ senders' \in Seq(GrpcJob)
    BY <1>1, <1>2, <1>6, <1>9
  <2> QED BY <1>1, <2>2, <2>3 DEF GrpcJobs
<1> QED BY <1>4, <1>8, <1>9

\* A job of the senders enters the channel.
LEMMA JobsEnter ==
  ASSUME GrpcStreams, GrpcJobs, JobEnters
  PROVE  GrpcJobs'
<1> DEFINE j == Head(senders)
           c == j.client
<1>1. /\ senders # <<>> /\ jobQueue' = Append(jobQueue, j) /\ senders' = Tail(senders)
      /\ handler' = [handler EXCEPT ![c].at = "reply"]
      /\ UNCHANGED <<pendingJobs, reply>>
  BY DEF JobEnters
<1>2. /\ senders \in Seq(GrpcJob) /\ jobQueue \in Seq(GrpcJob) /\ pendingJobs \in Seq(GrpcJob)
      /\ Fits(senders, handler) /\ Fits(jobQueue, handler) /\ Fits(pendingJobs, handler)
      /\ reply = [d \in GrpcClients |-> reply[d]]
      /\ handler = [d \in GrpcClients |-> handler[d]]
      /\ \A d : /\ JobsOf(jobQueue, d) \in Nat /\ JobsOf(pendingJobs, d) \in Nat
                /\ JobsOf(senders, d) \in Nat
  BY JobsCounted DEF GrpcJobs, GrpcStreams
<1>3. /\ j \in GrpcJob /\ c \in GrpcClients /\ j = JobFor(c, handler[c].n)
      /\ Tail(senders) \in Seq(GrpcJob) /\ Fits(Tail(senders), handler)
      /\ Append(jobQueue, j) \in Seq(GrpcJob) /\ Fits(Append(jobQueue, j), handler)
  <2>1. /\ j \in GrpcJob /\ j = JobFor(c, handler[c].n)
        /\ Tail(senders) \in Seq(GrpcJob) /\ Fits(Tail(senders), handler)
    BY <1>1, <1>2, FitsMoved
  <2>2. Append(jobQueue, j) \in Seq(GrpcJob) /\ Fits(Append(jobQueue, j), handler)
    BY <1>2, <2>1, FitsMoved
  <2> QED BY <2>1, <2>2 DEF GrpcJob
<1>4. \A d : /\ JobsOf(senders, d) = JobsOf(Tail(senders), d) + One(c = d)
             /\ JobsOf(Append(jobQueue, j), d) = JobsOf(jobQueue, d) + One(c = d)
             /\ JobsOf(Tail(senders), d) \in Nat
  <2>1. j.client = c
    OBVIOUS
  <2> HIDE DEF c
  <2>2. ASSUME NEW d PROVE JobsOf(senders, d) = JobsOf(Tail(senders), d) + One(c = d)
    BY <1>1, <1>2, <2>1, JobsTaken
  <2> HIDE DEF j
  <2>3. ASSUME NEW d PROVE JobsOf(Append(jobQueue, j), d) = JobsOf(jobQueue, d) + One(c = d)
    BY <1>2, <1>3, <2>1, JobsAppended
  <2>4. ASSUME NEW d PROVE JobsOf(Tail(senders), d) \in Nat
    BY <1>3, JobsCounted
  <2> QED BY <2>2, <2>3, <2>4
<1> HIDE DEF j, c
<1>5. One(c = c) = 1 /\ \A d : d # c => One(c = d) = 0
  BY DEF One
<1>6. handler[c].at = "push" /\ JobsOf(Tail(senders), c) = 0
  <2>1. JobsOf(senders, c) = One(handler[c].at = "push")
        /\ JobsOf(senders, c) = JobsOf(Tail(senders), c) + 1 /\ JobsOf(Tail(senders), c) \in Nat
    BY <1>3, <1>4, <1>5 DEF GrpcJobs
  <2> QED BY <2>1 DEF One
<1>7. handler[c] = [at |-> "push", n |-> handler[c].n]
  BY <1>3, <1>6 DEF GrpcStreams, StreamFine
<1>8. /\ handler'[c] = [at |-> "reply", n |-> handler[c].n]
      /\ \A d \in GrpcClients : d # c => handler'[d] = handler[d]
  BY <1>1, <1>2, <1>3, <1>7
<1>9. handler'[c].at = "reply" /\ \A d \in GrpcClients : handler'[d].n = handler[d].n
  BY <1>3, <1>8
<1>10. ASSUME NEW s \in Seq(GrpcJob), Fits(s, handler) PROVE Fits(s, handler')
  <2>1. \A i \in DOMAIN s : s[i].client \in GrpcClients
    BY JobsOfClients
  <2> QED BY <1>9, <1>10, <2>1 DEF Fits
<1>11. ASSUME NEW d \in GrpcClients
       PROVE  /\ reply[d] = <<>> \/ reply[d] = <<Projection(<<d, handler'[d].n>>)>>
              /\ JobsOf(senders', d) = One(handler'[d].at = "push")
              /\ JobsOf(jobQueue', d) + JobsOf(pendingJobs, d) + Len(reply[d]) = One(handler'[d].at = "reply")
  <2>1. /\ reply[d] = <<>> \/ reply[d] = <<Projection(<<d, handler[d].n>>)>>
        /\ JobsOf(senders, d) = One(handler[d].at = "push")
        /\ JobsOf(jobQueue, d) + JobsOf(pendingJobs, d) + Len(reply[d]) = One(handler[d].at = "reply")
    BY DEF GrpcJobs
  <2>2. Len(reply[d]) \in Nat
    BY <2>1
  <2>3. CASE d = c
    <3>1. JobsOf(senders', c) = 0 /\ JobsOf(jobQueue', c) = JobsOf(jobQueue, c) + 1
      BY <1>1, <1>4, <1>5, <1>6
    <3>2. JobsOf(jobQueue, c) + JobsOf(pendingJobs, c) + Len(reply[c]) = 0
      BY <1>6, <2>1, <2>3 DEF One
    <3>3. JobsOf(jobQueue', c) + JobsOf(pendingJobs, c) + Len(reply[c]) = 1
      BY <1>2, <2>2, <2>3, <3>1, <3>2
    <3>4. One(handler'[d].at = "push") = 0 /\ One(handler'[d].at = "reply") = 1
      BY <1>9, <2>3 DEF One
    <3>5. handler'[d].n = handler[d].n
      BY <1>9
    <3>6. reply[d] = <<>> \/ reply[d] = <<Projection(<<d, handler'[d].n>>)>>
      BY <2>1, <3>5
    <3>7. JobsOf(senders', d) = One(handler'[d].at = "push")
      BY <2>3, <3>1, <3>4
    <3>8. JobsOf(jobQueue', d) + JobsOf(pendingJobs, d) + Len(reply[d]) = One(handler'[d].at = "reply")
      BY <2>3, <3>3, <3>4
    <3> QED BY <3>6, <3>7, <3>8
  <2>4. CASE d # c
    <3>1. JobsOf(senders', d) = JobsOf(senders, d) /\ JobsOf(jobQueue', d) = JobsOf(jobQueue, d)
      <4>1. /\ JobsOf(senders, d) = JobsOf(Tail(senders), d) + One(c = d)
            /\ JobsOf(Append(jobQueue, j), d) = JobsOf(jobQueue, d) + One(c = d)
            /\ JobsOf(Tail(senders), d) \in Nat /\ JobsOf(jobQueue, d) \in Nat
        BY <1>2, <1>4
      <4>2. One(c = d) = 0
        BY <1>5, <2>4
      <4> QED BY <1>1, <4>1, <4>2
    <3> QED BY <1>8, <2>1, <2>4, <3>1
  <2> QED BY <2>3, <2>4
<1> QED BY <1>1, <1>2, <1>3, <1>10, <1>11 DEF GrpcJobs


\* flush: those of the jobs get their vectors, which they wait for.
LEMMA JobsFlushed ==
  ASSUME GrpcJobs, handler' = handler, senders' = senders,
         NEW jobs \in Seq(GrpcJob), Fits(jobs, handler),
         NEW rest \in Seq(GrpcJob), Fits(rest, handler),
         \A c \in GrpcClients :
            JobsOf(jobs, c) + JobsOf(rest, c) = JobsOf(jobQueue, c) + JobsOf(pendingJobs, c),
         jobQueue' = rest, pendingJobs' = <<>>, reply' = Flushed(jobs)
  PROVE  GrpcJobs'
<1>1. /\ senders \in Seq(GrpcJob) /\ Fits(senders, handler)
      /\ \A d \in GrpcClients : /\ JobsOf(jobQueue, d) \in Nat /\ JobsOf(pendingJobs, d) \in Nat
                                /\ JobsOf(jobs, d) \in Nat /\ JobsOf(rest, d) \in Nat
  BY JobsCounted DEF GrpcJobs
<1>2. <<>> \in Seq(GrpcJob) /\ DOMAIN <<>> = {} /\ Fits(<<>>, handler) /\ \A d : JobsOf(<<>>, d) = 0
  <2>1. <<>> \in Seq(GrpcJob) /\ DOMAIN <<>> = {}
    BY EmptySeq
  <2> QED BY <2>1, JobsCounted DEF Fits
<1>3. reply' = [d \in GrpcClients |-> reply'[d]]
  BY DEF Flushed
<1>4. ASSUME NEW c \in GrpcClients
      PROVE  /\ reply'[c] = <<>> \/ reply'[c] = <<Projection(<<c, handler[c].n>>)>>
             /\ JobsOf(senders, c) = One(handler[c].at = "push")
             /\ JobsOf(rest, c) + JobsOf(<<>>, c) + Len(reply'[c]) = One(handler[c].at = "reply")
  <2>1. /\ reply[c] = <<>> \/ reply[c] = <<Projection(<<c, handler[c].n>>)>>
        /\ JobsOf(senders, c) = One(handler[c].at = "push")
        /\ JobsOf(jobQueue, c) + JobsOf(pendingJobs, c) + Len(reply[c]) = One(handler[c].at = "reply")
    BY DEF GrpcJobs
  <2>2. /\ Len(reply[c]) \in Nat /\ One(handler[c].at = "reply") \in 0 .. 1
        /\ JobsOf(jobs, c) + JobsOf(rest, c) = JobsOf(jobQueue, c) + JobsOf(pendingJobs, c)
    BY <2>1 DEF One
  <2>3. CASE \E i \in DOMAIN jobs : jobs[i].client = c
    <3> DEFINE i == CHOOSE i \in DOMAIN jobs : jobs[i].client = c
    <3>1. i \in DOMAIN jobs /\ jobs[i].client = c
      BY <2>3
    <3>2. reply'[c] = <<Projection(jobs[i].text)>>
      BY <2>3 DEF Flushed
    <3> HIDE DEF i
    <3>3. jobs[i].text = <<c, handler[c].n>>
      BY <3>1 DEF Fits, JobFor
    <3>4. JobsOf(jobs, c) # 0
      BY <3>1, JobsCounted
    <3>5. JobsOf(rest, c) = 0 /\ One(handler[c].at = "reply") = 1
      BY <1>1, <2>1, <2>2, <3>4
    <3>6. reply'[c] = <<Projection(<<c, handler[c].n>>)>> /\ Len(reply'[c]) = 1
      BY <3>2, <3>3
    <3> QED BY <1>2, <2>1, <3>5, <3>6
  <2>4. CASE ~\E i \in DOMAIN jobs : jobs[i].client = c
    <3>1. reply'[c] = reply[c]
      BY <2>4 DEF Flushed
    <3>2. JobsOf(jobs, c) = 0
      BY <2>4, JobsCounted
    <3>3. JobsOf(rest, c) + 0 + Len(reply[c]) = One(handler[c].at = "reply")
      BY <1>1, <2>1, <2>2, <3>2
    <3> QED BY <1>2, <2>1, <3>1, <3>3
  <2> QED BY <2>3, <2>4
<1> QED BY <1>1, <1>2, <1>3, <1>4 DEF GrpcJobs

LEMMA JobsWorked ==
  ASSUME GrpcJobs, WorkerReceives \/ Tick
  PROVE  GrpcJobs'
<1>1. /\ jobQueue \in Seq(GrpcJob) /\ pendingJobs \in Seq(GrpcJob)
      /\ Fits(jobQueue, handler) /\ Fits(pendingJobs, handler)
      /\ handler' = handler /\ senders' = senders
      /\ \A d : JobsOf(jobQueue, d) \in Nat /\ JobsOf(pendingJobs, d) \in Nat
  BY JobsCounted DEF GrpcJobs, WorkerReceives, Tick
<1>2. CASE Tick
  <2>1. pendingJobs' = <<>> /\ reply' = Flushed(pendingJobs) /\ jobQueue' = jobQueue
    BY <1>2 DEF Tick
  <2>2. \A d \in GrpcClients : JobsOf(pendingJobs, d) + JobsOf(jobQueue, d)
                                 = JobsOf(jobQueue, d) + JobsOf(pendingJobs, d)
    BY <1>1
  <2> QED BY <1>1, <2>1, <2>2, JobsFlushed
<1>3. CASE WorkerReceives
  <2> DEFINE j == Head(jobQueue)
             jobs == Append(pendingJobs, j)
             full == Len(jobs) >= BatchSize
  <2>1. /\ jobQueue # <<>> /\ jobQueue' = Tail(jobQueue)
        /\ pendingJobs' = IF full THEN <<>> ELSE jobs
        /\ reply' = IF full THEN Flushed(jobs) ELSE reply
    BY <1>3 DEF WorkerReceives
  <2>2. /\ Tail(jobQueue) \in Seq(GrpcJob) /\ j \in GrpcJob /\ Fits(Tail(jobQueue), handler)
        /\ j = JobFor(j.client, handler[j.client].n)
    BY <1>1, <2>1, FitsMoved
  <2> HIDE DEF j
  <2>3. jobs \in Seq(GrpcJob) /\ Fits(jobs, handler)
    BY <1>1, <2>2, FitsMoved
  <2>4. ASSUME NEW d
        PROVE  JobsOf(jobs, d) + JobsOf(Tail(jobQueue), d) = JobsOf(jobQueue, d) + JobsOf(pendingJobs, d)
    <3>1. JobsOf(jobs, d) = JobsOf(pendingJobs, d) + One(j.client = d)
      BY <1>1, <2>2, JobsAppended
    <3>2. JobsOf(jobQueue, d) = JobsOf(Tail(jobQueue), d) + One(j.client = d)
      BY <1>1, <2>1, JobsTaken DEF j
    <3>3. JobsOf(Tail(jobQueue), d) \in Nat /\ One(j.client = d) \in Nat
      BY <2>2, JobsCounted DEF One
    <3> QED BY <1>1, <3>1, <3>2, <3>3
  <2>5. CASE full
    <3>1. pendingJobs' = <<>> /\ reply' = Flushed(jobs)
      BY <2>1, <2>5
    <3> HIDE DEF jobs, full
    <3> QED BY <1>1, <2>1, <2>2, <2>3, <2>4, <3>1, JobsFlushed
  <2>6. CASE ~full
    <3>1. pendingJobs' = jobs /\ reply' = reply
      BY <2>1, <2>6
    <3> HIDE DEF jobs, full
    <3>2. \A d : JobsOf(jobs, d) \in Nat /\ JobsOf(Tail(jobQueue), d) \in Nat
      BY <2>2, <2>3, JobsCounted
    <3>3. ASSUME NEW d \in GrpcClients
          PROVE  JobsOf(Tail(jobQueue), d) + JobsOf(jobs, d) + Len(reply[d]) = One(handler[d].at = "reply")
      <4>1. JobsOf(jobQueue, d) + JobsOf(pendingJobs, d) + Len(reply[d]) = One(handler[d].at = "reply")
        BY DEF GrpcJobs
      <4>2. JobsOf(Tail(jobQueue), d) + JobsOf(jobs, d) = JobsOf(jobQueue, d) + JobsOf(pendingJobs, d)
        BY <1>1, <2>4, <3>2
      <4> QED BY <4>1, <4>2
    <3> QED BY <1>1, <2>1, <2>2, <2>3, <3>1, <3>3 DEF GrpcJobs
  <2> QED BY <2>5, <2>6
<1> QED BY <1>2, <1>3

\* The handler takes its vector.
LEMMA JobsAnswered ==
  ASSUME GrpcJobs, NEW c \in GrpcClients, UNCHANGED <<jobQueue, senders, pendingJobs>>,
         handler[c].at = "reply", reply[c] # <<>>, reply' = [reply EXCEPT ![c] = <<>>],
         handler'[c].at \notin {"push", "reply"},
         \A d \in GrpcClients : d # c => handler'[d] = handler[d]
  PROVE  GrpcJobs'
<1>1. /\ senders \in Seq(GrpcJob) /\ jobQueue \in Seq(GrpcJob) /\ pendingJobs \in Seq(GrpcJob)
      /\ Fits(senders, handler) /\ Fits(jobQueue, handler) /\ Fits(pendingJobs, handler)
      /\ reply = [d \in GrpcClients |-> reply[d]]
      /\ JobsOf(senders, c) = 0
      /\ JobsOf(jobQueue, c) + JobsOf(pendingJobs, c) + Len(reply[c]) = 1
      /\ reply[c] = <<>> \/ reply[c] = <<Projection(<<c, handler[c].n>>)>>
  BY DEF GrpcJobs, One
<1>2. JobsOf(jobQueue, c) = 0 /\ JobsOf(pendingJobs, c) = 0
  <2>1. JobsOf(jobQueue, c) \in Nat /\ JobsOf(pendingJobs, c) \in Nat
    BY <1>1, JobsCounted
  <2>2. Len(reply[c]) = 1
    BY <1>1
  <2> QED BY <1>1, <2>1, <2>2
<1>3. ASSUME NEW s \in Seq(GrpcJob), Fits(s, handler), JobsOf(s, c) = 0 PROVE Fits(s, handler')
  <2>1. \A i \in DOMAIN s : s[i].client # c /\ s[i].client \in GrpcClients
    BY <1>3, JobsCounted, JobsOfClients
  <2> QED BY <1>3, <2>1 DEF Fits
<1>4. reply' = [d \in GrpcClients |-> reply'[d]] /\ reply'[c] = <<>>
      /\ \A d \in GrpcClients : d # c => reply'[d] = reply[d]
  BY <1>1
<1>5. ASSUME NEW d \in GrpcClients
      PROVE  /\ reply'[d] = <<>> \/ reply'[d] = <<Projection(<<d, handler'[d].n>>)>>
             /\ JobsOf(senders, d) = One(handler'[d].at = "push")
             /\ JobsOf(jobQueue, d) + JobsOf(pendingJobs, d) + Len(reply'[d]) = One(handler'[d].at = "reply")
  <2>1. CASE d = c
    <3>1. Len(<<>>) = 0
      BY EmptySeq
    <3> QED BY <1>1, <1>2, <1>4, <2>1, <3>1 DEF One
  <2>2. CASE d # c
    BY <1>4, <2>2 DEF GrpcJobs
  <2> QED BY <2>1, <2>2
<1> QED BY <1>1, <1>2, <1>3, <1>4, <1>5 DEF GrpcJobs

LEMMA JobsInductive ==
  ASSUME GrpcInv, GrpcNext
  PROVE  GrpcJobs'
<1>1. /\ GrpcStreams /\ GrpcJobs
      /\ handler = [d \in GrpcClients |-> handler[d]]
      /\ \A c \in GrpcClients : StreamFine(c, handler[c], requested[c], AnswersOf(c))
  BY DEF GrpcInv, GrpcStreams
<1>2. ASSUME NEW c \in GrpcClients,
             EncodeUnary(c) \/ ClientSends(c) \/ ClientReceives(c) \/ \E how, reads : StreamEnds(c, how, reads)
      PROVE  GrpcJobs'
  <2>1. UNCHANGED <<jobQueue, senders, pendingJobs, reply, handler>>
    BY <1>2 DEF EncodeUnary, ClientSends, ClientReceives, StreamEnds, queueVars
  <2> QED BY <1>1, <2>1 DEF GrpcJobs
<1>3. ASSUME NEW c \in GrpcClients, EncodeBatch(c) PROVE GrpcJobs'
  <2>1. /\ streamState[c] = "none" /\ handler' = [handler EXCEPT ![c].at = "reading"]
        /\ UNCHANGED <<jobQueue, senders, pendingJobs, reply>>
    BY <1>3 DEF EncodeBatch, queueVars
  <2>2. handler[c] = NoItem /\ handler[c].at = "none"
    BY <1>1, <2>1 DEF GrpcStreams, StreamFine
  <2>3. handler'[c].at = "reading" /\ \A d \in GrpcClients : d # c => handler'[d] = handler[d]
    BY <1>1, <2>1, <2>2 DEF NoItem
  <2> QED BY <1>1, <2>1, <2>2, <2>3, JobsUntouched
<1>4. ASSUME NEW c \in GrpcClients, HandlerReads(c) PROVE GrpcJobs'
  <2> DEFINE n == requested[c].asked[Len(requested[c].asked) - requested[c].unread + 1]
  <2>1. /\ n \in Nat /\ Push([client |-> c, text |-> <<c, n>>]) /\ handler[c].at = "reading"
        /\ UNCHANGED <<pendingJobs, reply>>
    BY <1>1, <1>4, StreamNexts
  <2> HIDE DEF n
  <2> QED BY <1>1, <2>1, JobsPushed
<1>5. ASSUME NEW c \in GrpcClients, HandlerAnswers(c) PROVE GrpcJobs'
  <2>1. /\ handler[c].at = "reply" /\ reply[c] # <<>> /\ reply' = [reply EXCEPT ![c] = <<>>]
        /\ SendTo(c, [n |-> handler[c].n, sem |-> Head(reply[c])])
        /\ UNCHANGED <<jobQueue, senders, pendingJobs>>
    BY <1>5 DEF HandlerAnswers
  <2>2. handler'[c].at \notin {"push", "reply"} /\ \A d \in GrpcClients : d # c => handler'[d] = handler[d]
    BY <1>1, <2>1 DEF SendTo, AfterSend
  <2> QED BY <1>1, <2>1, <2>2, JobsAnswered
<1>6. ASSUME NEW c \in GrpcClients, HandlerSends(c) \/ HandlerBreaks(c) \/ HandlerEnds(c) PROVE GrpcJobs'
  <2>1. /\ handler[c].at \in {"full", "reading"}
        /\ (\E item : SendTo(c, item)) \/ handler' = [handler EXCEPT ![c] = [at |-> "gone"]]
        /\ UNCHANGED <<jobQueue, senders, pendingJobs, reply>>
    BY <1>6 DEF HandlerSends, HandlerBreaks, HandlerEnds, queueVars
  <2>2. handler'[c].at \notin {"push", "reply"} /\ \A d \in GrpcClients : d # c => handler'[d] = handler[d]
    BY <1>1, <2>1 DEF SendTo, AfterSend
  <2> QED BY <1>1, <2>1, <2>2, JobsUntouched
<1>7. CASE ServiceStops
  <2>1. /\ handler' = [c \in GrpcClients |-> IF streamState[c] = "none" THEN NoItem ELSE [at |-> "gone"]]
        /\ jobQueue' = <<>> /\ senders' = <<>> /\ pendingJobs' = <<>>
        /\ reply' = [c \in GrpcClients |-> <<>>]
    BY <1>7 DEF ServiceStops
  <2>2. <<>> \in Seq(GrpcJob) /\ Len(<<>>) = 0 /\ DOMAIN <<>> = {}
    BY EmptySeq
  <2>3. \A d : JobsOf(<<>>, d) = 0
    BY <2>2, JobsCounted
  <2>4. \A c \in GrpcClients : handler'[c].at \in {"none", "gone"}
    BY <2>1 DEF NoItem
  <2> QED BY <2>1, <2>2, <2>3, <2>4 DEF GrpcJobs, Fits, One
<1> QED BY <1>1, <1>2, <1>3, <1>4, <1>5, <1>6, <1>7, JobsEnter, JobsWorked DEF GrpcNext


-----------------------------------------------------------------------------
(* The store of the service *)

LEMMA StoreSaves ==
  ASSUME GrpcStored, NEW c, NEW n, agentOf' = agentOf,
         Saved(CogonOf(c, n, Projection(<<c, n>>))) \/ SaveFails,
         \/ encoded' = encoded
         \/ /\ encoded' = encoded \cup {<<c, n>>} /\ <<c, n>> \in Text
            /\ Saved(CogonOf(c, n, Projection(<<c, n>>)))
  PROVE  GrpcStored'
<1> DEFINE x == CogonOf(c, n, Projection(<<c, n>>))
<1>1. cogons' = cogons \/ cogons' = cogons \cup {x}
  BY DEF Saved, SaveFails
<1>2. x.sem = Projection(x.id)
  BY DEF CogonOf
<1> HIDE DEF x
<1>3. IsFiniteSet(cogons') /\ \A y \in cogons' : y.sem = Projection(y.id)
  BY <1>1, <1>2, FS_AddElement DEF GrpcStored
<1>4. ASSUME NEW r \in encoded'
      PROVE  r \in Text /\ CogonOf(r[1], r[2], Projection(r))' \in cogons'
  <2>1. CogonOf(r[1], r[2], Projection(r))' = CogonOf(r[1], r[2], Projection(r))
    BY DEF CogonOf, Projection
  <2>2. CASE r \in encoded
    BY <1>1, <2>1, <2>2 DEF GrpcStored
  <2>3. CASE r \notin encoded
    <3>1. r = <<c, n>> /\ r \in Text /\ cogons' = cogons \cup {x}
      BY <1>4, <2>3 DEF Saved, x
    <3>2. CogonOf(r[1], r[2], Projection(r)) = x
      BY <3>1 DEF x
    <3> QED BY <2>1, <3>1, <3>2
  <2> QED BY <2>2, <2>3
<1> QED BY <1>3, <1>4 DEF GrpcStored

LEMMA StoredInductive ==
  ASSUME GrpcInv, GrpcNext
  PROVE  GrpcStored'
<1>1. GrpcStored /\ GrpcStreams /\ GrpcJobs
  BY DEF GrpcInv
<1>2. ASSUME UNCHANGED <<agentOf, cogons, encoded>> PROVE GrpcStored'
  BY <1>1, <1>2 DEF GrpcStored, CogonOf
<1>3. ASSUME NEW c \in GrpcClients, EncodeUnary(c) PROVE GrpcStored'
  <2> DEFINE n == requested[c].made + 1
  <2>1. /\ EncodeAnswers(c, n) /\ agentOf' = agentOf
    BY <1>3 DEF EncodeUnary, configured
  <2>2. n \in Nat
    BY <1>1 DEF GrpcStreams, StreamFine
  <2>3. <<c, n>> \in Text
    BY <2>2 DEF Text
  <2> HIDE DEF n
  <2> QED BY <1>1, <2>1, <2>3, StoreSaves DEF EncodeAnswers
<1>4. ASSUME NEW c \in GrpcClients, HandlerAnswers(c) PROVE GrpcStored'
  <2> DEFINE n == handler[c].n
  <2>1. /\ reply[c] # <<>>
        /\ Saved(CogonOf(c, n, Head(reply[c]))) \/ SaveFails
        /\ agentOf' = agentOf /\ encoded' = encoded
    BY <1>4 DEF HandlerAnswers, configured
  <2>2. Head(reply[c]) = Projection(<<c, n>>)
    <3>1. reply[c] = <<>> \/ reply[c] = <<Projection(<<c, handler[c].n>>)>>
      BY <1>1 DEF GrpcJobs
    <3>2. reply[c] # <<>>
      BY <1>4 DEF HandlerAnswers
    <3> QED BY <3>1, <3>2
  <2> QED BY <1>1, <2>1, <2>2, StoreSaves
<1>5. CASE ServiceStops
  <2>1. agentOf' = agentOf
    BY <1>5 DEF ServiceStops
  <2>2. CASE serviceStore = "sqlite"
    BY <1>2, <1>5, <2>1, <2>2 DEF ServiceStops, CogonsAfter
  <2>3. CASE serviceStore # "sqlite"
    <3>1. cogons' = {} /\ encoded' = {}
      BY <1>5, <2>3 DEF ServiceStops, CogonsAfter
    <3> QED BY <3>1, FS_EmptySet DEF GrpcStored
  <2> QED BY <2>2, <2>3
<1> QED BY <1>2, <1>3, <1>4, <1>5
    DEF GrpcNext, EncodeBatch, ClientSends, ClientReceives, StreamEnds, HandlerReads, HandlerSends,
        HandlerEnds, HandlerBreaks, JobEnters, WorkerReceives, Tick, configured

LEMMA GrpcInductive ==
  ASSUME GrpcInv, [GrpcNext]_grpcVars
  PROVE  GrpcInv'
<1>1. CASE UNCHANGED grpcVars
  BY <1>1 DEF grpcVars, GrpcInv, GrpcStreams, GrpcJobs, GrpcStored, AnswersOf, CogonOf
<1>2. CASE GrpcNext
  BY <1>2, StreamsInductive, JobsInductive, StoredInductive DEF GrpcInv
<1> QED BY <1>1, <1>2

LEMMA GrpcInvSafe ==
  ASSUME GrpcInv
  PROVE  GrpcSound
<1>1. AnswersInOrder
  <2>1. ASSUME NEW c \in GrpcClients PROVE InOrder(c, requested[c], AnswersOf(c))
    BY DEF GrpcInv, GrpcStreams, StreamFine
  <2> QED BY <2>1 DEF AnswersInOrder, InOrder, AnswerFor
<1>2. NoJobLost
  BY DEF NoJobLost, GrpcInv, GrpcJobs, One
<1>3. EncodedRecalled
  <2> SUFFICES ASSUME NEW r \in encoded, NEW found \in Recall(agentOf[r[1]], Projection(r), 1)
               PROVE  found # {} /\ \A cogon \in found : cogon.id = r
    BY DEF EncodedRecalled
  <2> DEFINE own == {x \in cogons : x.agent = agentOf[r[1]]}
             mine == CogonOf(r[1], r[2], Projection(r))
  <2>1. /\ found \in SUBSET own
        /\ Cardinality(found) = IF 1 < Cardinality(own) THEN 1 ELSE Cardinality(own)
        /\ \A a \in found, b \in own \ found : CosineDist(Projection(r), a.sem) <= CosineDist(Projection(r), b.sem)
    BY DEF Recall
  <2>2. /\ IsFiniteSet(cogons) /\ \A x \in cogons : x.sem = Projection(x.id)
        /\ r \in Text /\ mine \in cogons
    BY DEF GrpcInv, GrpcStored
  <2>3. r = <<r[1], r[2]>>
    BY <2>2 DEF Text
  <2>4. mine \in own /\ mine.sem = Projection(r) /\ mine.id = r
    BY <2>2, <2>3 DEF CogonOf
  <2> HIDE DEF mine
  <2>5. IsFiniteSet(own) /\ Cardinality(own) \in Nat /\ Cardinality(own) # 0
    <3>1. IsFiniteSet(own)
      BY <2>2, FS_Subset
    <3> HIDE DEF own
    <3> QED BY <2>4, <3>1, FS_CardinalityType, FS_EmptySet
  <2>6. Cardinality(found) = 1
    BY <2>1, <2>5
  <2>7. IsFiniteSet(found)
    BY <2>1, <2>5, FS_Subset
  <2>8. PICK x : found = {x}
    BY <2>6, <2>7, FS_Singleton
  <2>9. x.id = r
    <3>1. CASE mine \in found
      BY <2>4, <2>8, <3>1
    <3>2. CASE mine \notin found
      <4>1. x \in own /\ x.sem = Projection(x.id)
        BY <2>1, <2>2, <2>8
      <4>2. CosineDist(Projection(r), x.sem) <= CosineDist(Projection(r), mine.sem)
        BY <2>1, <2>4, <2>8, <3>2
      <4>3. CosineDist(Projection(r), mine.sem) = 0
        BY <2>4 DEF CosineDist
      <4>4. x.sem = Projection(r)
        BY <4>2, <4>3 DEF CosineDist
      <4> QED BY <4>1, <4>4 DEF Projection
    <3> QED BY <3>1, <3>2
  <2> QED BY <2>8, <2>9
<1> QED BY <1>1, <1>2, <1>3 DEF GrpcSound

-----------------------------------------------------------------------------
(***************************************************************************)
(* One program is used in a behaviour: each keeps its own invariant.        *)
(***************************************************************************)
LEMMA OneProgram ==
  ASSUME [OtherProgramsNext]_programVars
  PROVE  /\ program' = program
         /\ program = "cache" => [CacheNext]_cacheVars
         /\ program = "batch" => [BatchNext]_batchVars
         /\ program = "stream" => [StreamNext]_streamVars
         /\ program = "metrics" => [MetNext]_metVars
         /\ program = "grpc" => [GrpcNext]_grpcVars
         /\ program = "debates" => [DebateNext]_debateVars
         /\ program = "comparison" => [ComparisonNext]_cmpVars
         /\ program = "versus" => [VersusNext]_vsVars
<1>1. CASE UNCHANGED programVars
  BY <1>1 DEF programVars
<1>2. CASE OtherProgramsNext
  BY <1>2 DEF OtherProgramsNext, Only
<1> QED BY <1>1, <1>2

CacheUsed == program = "cache" => CacheInv

\* A value of the cache is never older than its last invalidation, unless it was
\* being computed then, nor served after its time.
THEOREM CacheIsSafe == OtherProgramsSpec => []CacheSafe
<1>1. OtherProgramsInit => CacheUsed
  BY CacheStarts DEF OtherProgramsInit, CacheUsed
<1>2. CacheUsed /\ [OtherProgramsNext]_programVars => CacheUsed'
  BY OneProgram, CacheInductive DEF CacheUsed
<1>3. CacheUsed => CacheSafe
  BY CacheInvSafe DEF CacheUsed, CacheSafe
<1> QED BY <1>1, <1>2, <1>3, PTL DEF OtherProgramsSpec

CallsUsed ==
  /\ program = "batch" => BatchInv
  /\ program = "stream" => StreamInv /\ CloserInv
  /\ program = "metrics" => MetWhole
  /\ program = "grpc" => GrpcInv

\* Every call of a batch gets the results of its own items, a stream loses and repeats
\* none and its close() returns what it waited for, the counters agree with the
\* calls, and the gRPC service answers each request with its own vector.
THEOREM CallsAreSound == OtherProgramsSpec => []CallsSound
<1>1. OtherProgramsInit => CallsUsed
  <2>1. StreamInit => CloserInv
    BY DEF StreamInit, CloserInv, Flushers, CloseReturnsAll
  <2> QED BY <2>1, BatchStarts, StreamStarts, MetWholeStarts, GrpcStarts DEF OtherProgramsInit, CallsUsed
<1>2. CallsUsed /\ [OtherProgramsNext]_programVars => CallsUsed'
  <2> SUFFICES ASSUME CallsUsed, [OtherProgramsNext]_programVars PROVE CallsUsed'
    OBVIOUS
  <2>1. program' = program
    BY OneProgram
  <2>2. Closer \notin Producers
    BY StreamAssumption DEF Closer
  <2>3. CASE program = "batch"
    BY <2>1, <2>3, OneProgram, BatchInductive DEF CallsUsed
  <2>4. CASE program = "stream"
    BY <2>1, <2>2, <2>4, OneProgram, StreamInductive, CloserInductive DEF CallsUsed
  <2>5. CASE program = "metrics"
    BY <2>1, <2>5, OneProgram, MetInductive DEF CallsUsed
  <2>6. CASE program = "grpc"
    BY <2>1, <2>6, OneProgram, GrpcInductive DEF CallsUsed
  <2> QED BY <2>1, <2>3, <2>4, <2>5, <2>6 DEF CallsUsed
<1>3. CallsUsed => CallsSound
  <2>1. CloserInv => CloseReturnsAll
    BY DEF CloserInv
  <2> QED BY <2>1, BatchInvSafe, StreamInvSafe, MetSafe, GrpcInvSafe DEF CallsUsed, CallsSound
<1> QED BY <1>1, <1>2, <1>3, PTL DEF OtherProgramsSpec

DebatesUsed ==
  /\ program = "debates" => DebInv
  /\ program = "comparison" => CmpInv
  /\ program = "versus" => VsInv

\* In a discussion nobody answers itself or old news, histories and statistics
\* tell what was said and every agent gets its turns; the two experiments
\* compare the texts and the frames of the same turns, and count each once.
THEOREM DebatesAreSound == OtherProgramsSpec => []DebatesSound
<1>1. OtherProgramsInit => DebatesUsed
  BY DebStarts, CmpStarts, VsStarts DEF OtherProgramsInit, DebatesUsed
<1>2. DebatesUsed /\ [OtherProgramsNext]_programVars => DebatesUsed'
  <2> SUFFICES ASSUME DebatesUsed, [OtherProgramsNext]_programVars PROVE DebatesUsed'
    OBVIOUS
  <2>1. program' = program
    BY OneProgram
  <2>2. CASE program = "debates"
    BY <2>1, <2>2, OneProgram, DebInductive DEF DebatesUsed
  <2>3. CASE program = "comparison"
    BY <2>1, <2>3, OneProgram, CmpInductive DEF DebatesUsed
  <2>4. CASE program = "versus"
    BY <2>1, <2>4, OneProgram, VsInductive DEF DebatesUsed
  <2> QED BY <2>1, <2>2, <2>3, <2>4 DEF DebatesUsed
<1>3. DebatesUsed => DebatesSound
  BY DebInvSafe, CmpInvSafe, VsInvSafe DEF DebatesUsed, DebatesSound
<1> QED BY <1>1, <1>2, <1>3, PTL DEF OtherProgramsSpec
=============================================================================
