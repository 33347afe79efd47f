------------------------------- MODULE Cache -------------------------------
(***************************************************************************)
(* The cache of python/leet/cache.py: the facade Cache over one of four    *)
(* backends, and the callers of get_or_compute and aget_or_compute, which  *)
(* look a key up, compute its value when it is missing and store it: three *)
(* steps that other callers, the clock and an invalidation may separate.   *)
(*                                                                         *)
(* Each operation of a backend is one step: MemoryCache, SQLiteCache and   *)
(* MongoCache hold a lock, Redis serves one command at a time.  Time is    *)
(* counted in half seconds, for the ttl that Redis takes in whole ones.    *)
(***************************************************************************)
EXTENDS Naturals, Sequences, SequencesExt, Subsequences

CONSTANTS
    CacheKeys,   \* keys
    CacheTasks,  \* callers
    CacheTtls,   \* the ttl_seconds given, in half seconds, 0 for none
    DefaultTtl,  \* default_ttl, in half seconds
    MaxSizes,    \* the values of max_size, for MemoryCache
    ForeignKeys, \* the sets of keys that another Cache may have in the same collection
    MaxVersion,  \* bound: the versions of what is computed
    MaxCacheNow  \* bound: the clock

ASSUME CacheAssumption ==
    /\ CacheTtls \subseteq Nat /\ DefaultTtl \in Nat \ {0}
    /\ ForeignKeys \subseteq SUBSET CacheKeys
    /\ MaxSizes \subseteq Nat \ {0} /\ MaxVersion \in Nat /\ MaxCacheNow \in Nat

VARIABLES
    backend,   \* backend_type
    maxSize,   \* max_size
    entries,   \* the backend's entries, for MemoryCache in the order of _cache
    clock,     \* time.time()
    source,    \* the version compute_fn of a key would return now
    caller,    \* where each call of get_or_compute is
    foreign,   \* the keys that a Cache with another key_prefix keeps in the collection
    stored,    \* history: when a key that is there was last stored, and for how long
    order,     \* history: the pairs of keys that are there, the less recently used one first
    floor,     \* history: the version of a key when it was last removed
    late,      \* history: the keys a call was computing when they were removed
    servedOld  \* history: a value has been returned after its time

cacheVars == <<backend, maxSize, entries, clock, source, caller, foreign, stored, order, floor, late, servedOld>>
cacheHistory == <<stored, order, floor, late, servedOld>>

Idle == [step |-> "idle"]
Waiting(s, k, ttl) == [step |-> s, key |-> k, ttl |-> ttl]

CacheTypeOK ==
    /\ backend \in {"memory", "sqlite", "redis", "mongodb"}
    /\ entries \in Seq([key : CacheKeys, value : 0..MaxVersion, created : 0..MaxCacheNow, ttl : Nat \ {0}])
    /\ IsInjective([i \in DOMAIN entries |-> entries[i].key])
    /\ backend = "memory" => Len(entries) <= maxSize
    /\ clock \in 0..MaxCacheNow
    /\ source \in [CacheKeys -> 0..MaxVersion]
    /\ \A t \in CacheTasks : caller[t].step \in {"idle", "compute", "store"}
    /\ foreign \subseteq CacheKeys

Never == [at |-> 0, ttl |-> 0]

CacheInit ==
    /\ backend \in {"memory", "sqlite", "redis", "mongodb"}
    /\ maxSize \in IF backend = "memory" THEN MaxSizes ELSE {0}
    /\ entries = <<>> /\ clock = 0
    /\ source = [k \in CacheKeys |-> 0]
    /\ caller = [t \in CacheTasks |-> Idle]
    /\ foreign \in IF backend = "mongodb" THEN ForeignKeys ELSE {{}}
    /\ stored = [k \in CacheKeys |-> Never]
    /\ order = {}
    /\ floor = [k \in CacheKeys |-> 0] /\ late = {} /\ servedOld = FALSE

-----------------------------------------------------------------------------
(* The backends: what get() finds and leaves, and what set() leaves *)

Without(k) == Keeping(entries, {i \in DOMAIN entries : entries[i].key # k})
Present(k) == \E i \in DOMAIN entries : entries[i].key = k
With(k) == entries[CHOOSE i \in DOMAIN entries : entries[i].key = k]

\* is_expired, and the same comparison in SQLite and MongoDB; Redis drops a key
\* as soon as its time is over.
Expired(e) ==
    IF backend = "redis" THEN clock >= e.created + e.ttl ELSE clock - e.created > e.ttl

Hit(k) == Present(k) /\ ~Expired(With(k))

\* A hit moves the entry to the end.
MemoryGet(k) == IF Hit(k) THEN Append(Without(k), With(k)) ELSE Without(k)
SqliteGet(k) == IF Hit(k) THEN entries ELSE Without(k)
MongoGet(k) == IF Hit(k) THEN entries ELSE Without(k)

AfterGet(k) ==
    CASE backend = "memory" -> MemoryGet(k)
      [] backend = "mongodb" -> MongoGet(k)
      [] OTHER -> SqliteGet(k)

Entry(k, v, ttl) == [key |-> k, value |-> v, created |-> clock, ttl |-> ttl]

\* Mutant of MemorySet: an entry that is there keeps its place.
MemorySetInPlace(k, v, ttl) ==
    IF Present(k) THEN [i \in DOMAIN entries |-> IF entries[i].key = k THEN Entry(k, v, ttl) ELSE entries[i]]
    ELSE Append(IF Len(entries) < maxSize THEN entries
                ELSE SubSeq(entries, Len(entries) - maxSize + 2, Len(entries)), Entry(k, v, ttl))

\* Mutant of MemorySet: a full cache takes one entry more.
MemorySetOver(k, v, ttl) ==
    LET room == IF Present(k) THEN Without(k)
                ELSE IF Len(entries) <= maxSize THEN entries
                ELSE SubSeq(entries, Len(entries) - maxSize + 2, Len(entries))
    IN  Append(room, Entry(k, v, ttl))

\* A new key makes room by dropping the least recently used ones, expired or
\* not; a key that is there gets the value, the time and the last place.
MemorySet(k, v, ttl) ==
    LET room == IF Present(k) THEN Without(k)
                ELSE IF Len(entries) < maxSize THEN entries
                ELSE Keeping(entries, {i \in DOMAIN entries : i > Len(entries) - maxSize + 1})
    IN  Append(room, Entry(k, v, ttl))

SqliteSet(k, v, ttl) == Append(Without(k), Entry(k, v, ttl))

\* SETEX takes whole seconds, and refuses 0.
RedisSet(k, v, ttl) ==
    IF ttl < 2 THEN entries ELSE Append(Without(k), Entry(k, v, (ttl \div 2) * 2))

\* The index on "key" alone is unique in the whole collection: a document of
\* another prefix makes replace_one fail, and set() prints that and returns.
MongoSet(k, v, ttl) == IF k \in foreign THEN entries ELSE Append(Without(k), Entry(k, v, ttl))

\* ttl_seconds or default_ttl.
Ttl(ttl) == IF ttl = 0 THEN DefaultTtl ELSE ttl

AfterSet(k, v, ttl) ==
    CASE backend = "memory" -> MemorySet(k, v, Ttl(ttl))
      [] backend = "sqlite" -> SqliteSet(k, v, Ttl(ttl))
      [] backend = "redis" -> RedisSet(k, v, Ttl(ttl))
      [] backend = "mongodb" -> MongoSet(k, v, Ttl(ttl))

\* The histories follow the entries: what is gone is forgotten.
MovedToEnd(o, k) ==
    IF backend = "memory"
    THEN {p \in o : k \notin {p[1], p[2]}} \cup {<<x, k>> : x \in CacheKeys \ {k}}
    ELSE o
Kept == {entries'[i].key : i \in DOMAIN entries'}
Follow(o, st) ==
    /\ order' = o \cap (Kept \X Kept)
    /\ stored' = [k \in CacheKeys |-> IF k \in Kept THEN st[k] ELSE Never]

-----------------------------------------------------------------------------
(* get_or_compute, aget_or_compute *)

\* get(): a hit, an expired entry, which is removed, or a miss.  The None that
\* stands for a miss sends the call on to compute_fn.
Look(t, k, ttl) ==
    /\ caller[t] = Idle
    /\ entries' = AfterGet(k)
    /\ IF Hit(k)
       THEN /\ Follow(MovedToEnd(order, k), stored)
            /\ servedOld' = (servedOld \/ clock > stored[k].at + stored[k].ttl)
            /\ UNCHANGED caller
       ELSE /\ caller' = [caller EXCEPT ![t] = Waiting("compute", k, ttl)]
            /\ Follow(order, stored)
            /\ UNCHANGED servedOld
    /\ UNCHANGED <<backend, maxSize, clock, source, foreign, floor, late>>

Compute(t) ==
    /\ caller[t].step = "compute"
    /\ caller' = [caller EXCEPT ![t] =
                    [step |-> "store", key |-> @.key, ttl |-> @.ttl, value |-> source[@.key]]]
    /\ UNCHANGED <<backend, maxSize, entries, clock, source, foreign, cacheHistory>>

Store(t) ==
    LET c == caller[t]
    IN  /\ c.step = "store"
        /\ caller' = [caller EXCEPT ![t] = Idle]
        /\ entries' = AfterSet(c.key, c.value, c.ttl)
        /\ IF entries' = entries THEN UNCHANGED <<order, stored>>
           ELSE Follow(MovedToEnd(order, c.key),
                       [stored EXCEPT ![c.key] = [at |-> clock, ttl |-> Ttl(c.ttl)]])
        /\ UNCHANGED <<backend, maxSize, clock, source, foreign, floor, late, servedOld>>

-----------------------------------------------------------------------------
(* delete, clear, cleanup *)

\* Mutant of Remaining: what has expired is left to get().
RemainingLive(keys) == Keeping(entries, {i \in DOMAIN entries : entries[i].key \notin keys \/ Expired(entries[i])})

\* What delete() and clear() leave behind.
Remaining(keys) == Keeping(entries, {i \in DOMAIN entries : entries[i].key \notin keys})

\* The owner of the values removes what is out of date.
Invalidate(keys) ==
    /\ entries' = Remaining(keys)
    /\ floor' = [k \in CacheKeys |-> IF k \in keys THEN source[k] ELSE floor[k]]
    /\ late' = (late \ keys) \cup
                 {k \in keys : \E t \in CacheTasks : caller[t].step # "idle" /\ caller[t].key = k}
    /\ Follow(order, stored)
    /\ UNCHANGED <<backend, maxSize, clock, source, caller, foreign, servedOld>>

\* MemoryCache and SQLiteCache drop what has expired, and so does Redis by
\* itself; cleanup() of MongoCache does nothing.
Cleanup ==
    /\ entries' = IF backend = "mongodb" THEN entries
                  ELSE Keeping(entries, {i \in DOMAIN entries : ~Expired(entries[i])})
    /\ Follow(order, stored)
    /\ UNCHANGED <<backend, maxSize, clock, source, caller, foreign, floor, late, servedOld>>

-----------------------------------------------------------------------------
(* The world around *)

SourceChanges(k) ==
    /\ source[k] < MaxVersion
    /\ source' = [source EXCEPT ![k] = @ + 1]
    /\ UNCHANGED <<backend, maxSize, entries, clock, caller, foreign, cacheHistory>>

CacheTick ==
    /\ clock < MaxCacheNow
    /\ clock' = clock + 1
    /\ UNCHANGED <<backend, maxSize, entries, source, caller, foreign, cacheHistory>>

\* A new process: the calls are gone, and what MemoryCache held.
Restart ==
    /\ caller' = [t \in CacheTasks |-> Idle]
    /\ entries' = IF backend = "memory" THEN <<>> ELSE entries
    /\ Follow(order, stored)
    /\ UNCHANGED <<backend, maxSize, clock, source, foreign, floor, late, servedOld>>

CacheNext ==
    \/ \E t \in CacheTasks :
        \/ \E k \in CacheKeys, ttl \in CacheTtls : Look(t, k, ttl)
        \/ Compute(t) \/ Store(t)
    \/ \E k \in CacheKeys : Invalidate({k}) \/ SourceChanges(k)
    \/ Invalidate(CacheKeys) \/ Cleanup \/ CacheTick \/ Restart

CacheSpec == CacheInit /\ [][CacheNext]_cacheVars

-----------------------------------------------------------------------------
(* Properties *)

\* No lookup returns a value for longer than the ttl it was last stored with,
\* whichever backend, update or restart came between (cache.py:128 and :236).
NeverServedOld == ~servedOld

\* MemoryCache keeps its keys in the order of their last use, so that what it
\* evicts is the least recently used one (cache.py:134 and :145).
EvictsOldest ==
    backend = "memory" =>
        \A a, b \in CacheKeys :
            <<a, b>> \in order <=>
               \E i, j \in DOMAIN entries : i < j /\ entries[i].key = a /\ entries[j].key = b

CacheSound == NeverServedOld /\ EvictsOldest

\* A value from before the last removal of its key is in the cache only if a
\* call was computing it at that time (cache.py:891).
OldOnlyIfInFlight ==
    \A i \in DOMAIN entries :
        entries[i].value < floor[entries[i].key] => entries[i].key \in late
=============================================================================
