----------------------- MODULE PersonalStore_proofs -----------------------
(***************************************************************************)
(* Theorems about the personal store, for every threshold, number of       *)
(* levels, set of programs, of sessions and of faults: its invariants, that *)
(* it implements MemoryCover as long as it stays intact, and what survives *)
(* `leet absorb` writing to store.bin behind the back of the programs that *)
(* have the store open.                                                    *)
(***************************************************************************)
EXTENDS StoreRefinement, Absorb, Subsequences_proofs

(***************************************************************************)
(* Least and greatest elements, and the oldest members of a set.           *)
(***************************************************************************)
\* Min is the least element of a nonempty set of naturals.
LEMMA MinOfNats ==
  ASSUME NEW S \in SUBSET Nat, S # {}
  PROVE  Min(S) \in S /\ \A x \in S : Min(S) <= x
BY NatLeast DEF Min

\* A nonempty set of naturals below a bound has a greatest element: Max.
LEMMA MaxOfNats ==
  ASSUME NEW n \in Nat, NEW S \in SUBSET (0 .. n), S # {}
  PROVE  Max(S) \in S /\ \A x \in S : x <= Max(S)
<1> DEFINE T == {n - x : x \in S}
<1>1. T \in SUBSET Nat /\ T # {}
  <2>1. \A x \in S : n - x \in Nat
    OBVIOUS
  <2>2. PICK e \in S : TRUE
    OBVIOUS
  <2>3. n - e \in T
    OBVIOUS
  <2> QED BY <2>1, <2>3
<1>2. PICK m \in T : \A y \in T : m <= y
  BY <1>1, NatLeast
<1>3. PICK s \in S : m = n - s
  BY <1>2
<1>4. \A x \in S : s >= x
  <2> TAKE x \in S
  <2>1. n - s <= n - x
    BY <1>2, <1>3
  <2> QED BY <2>1
<1> QED BY <1>4 DEF Max

\* Oldest(S, k) is a part of S, not empty if S and k are not, and every member
\* of it is below every other member of S.
LEMMA OldestFirst ==
  ASSUME NEW n \in Nat, NEW S \in SUBSET (1 .. n), NEW k \in Nat
  PROVE  /\ Oldest(S, k) \subseteq S
         /\ \A i \in Oldest(S, k), j \in S \ Oldest(S, k) : i < j
         /\ S # {} /\ k > 0 => Oldest(S, k) # {}
<1> DEFINE Before(i) == {j \in S : j < i}
<1>1. \A i : IsFiniteSet(Before(i)) /\ Cardinality(Before(i)) \in Nat
  <2> TAKE i
  <2>1. IsFiniteSet(1 .. n)
    BY FS_Interval
  <2>2. Before(i) \in SUBSET (1 .. n)
    OBVIOUS
  <2>3. IsFiniteSet(Before(i))
    BY <2>1, <2>2, FS_Subset
  <2> QED BY <2>3, FS_CardinalityType
<1>2. ASSUME NEW i \in Oldest(S, k), NEW j \in S \ Oldest(S, k), ~(i < j)
      PROVE  FALSE
  <2>0. i \in 1 .. n /\ j \in 1 .. n /\ j <= i
    BY <1>2 DEF Oldest
  <2>1. Before(j) \in SUBSET Before(i)
    <3> SUFFICES ASSUME NEW x \in S, x < j PROVE x < i
      OBVIOUS
    <3>1. x \in 1 .. n
      OBVIOUS
    <3> QED BY <2>0, <3>1
  <2>2. Cardinality(Before(j)) <= Cardinality(Before(i))
    BY <2>1, <1>1, FS_Subset
  <2>3. Cardinality(Before(i)) < k /\ ~(Cardinality(Before(j)) < k)
    BY <1>2 DEF Oldest
  <2> QED BY <2>2, <2>3, <1>1
<1>3. ASSUME S # {}, k > 0
      PROVE  Oldest(S, k) # {}
  <2>1. PICK m \in S : \A x \in S : m <= x
    BY <1>3, NatLeast
  <2>2. Before(m) = {}
    <3> SUFFICES ASSUME NEW x \in S, x < m PROVE FALSE
      OBVIOUS
    <3>1. x \in 1 .. n /\ m \in 1 .. n
      OBVIOUS
    <3> QED BY <2>1, <3>1
  <2>3. Cardinality(Before(m)) = 0
    BY <2>2, FS_EmptySet
  <2> QED BY <2>3, <1>3 DEF Oldest
<1> QED BY <1>2, <1>3 DEF Oldest

(***************************************************************************)
(* The shape of the state.                                                 *)
(***************************************************************************)
\* The records that can exist at time n: each carries a time that has come, and
\* not one before any of its memories.  (Other programs may write records about
\* something else to store.bin; the memories are those up to MaxNow.)
Past(n) == {r \in [ids : SUBSET Nat, unix_ns : 0 .. n] :
              \A id \in r.ids : id <= MaxNow => id <= r.unix_ns}

\* What a chunk of store.bin can hold.
Chunks(n) == Past(n) \cup {Corrupt}

\* What the part of a chunk behind them can be.
Parts(n) == Chunks(n) \cup {NoTail}

\* The shape of a store: no record is of the future, a file whose header was not
\* written holds nothing else, and no process was misled by a store that has lost
\* nothing.
Shape ==
  /\ cells \in Seq(Chunks(now)) /\ torn \in Parts(now) /\ records \in Seq(Past(now))
  /\ header # "ok" /\ Intact => cells = <<>>
  /\ Up \/ pc = "loaded" => header = "ok"
  /\ pc = "creating" => header # "absent"
  /\ misled => spoiled

TypeInv == TypeOK /\ Shape

\* Appending to a sequence, and what the result holds at each index.
LEMMA Appended ==
  ASSUME NEW S, NEW s \in Seq(S), NEW e \in S
  PROVE  /\ Append(s, e) \in Seq(S)
         /\ Len(Append(s, e)) = Len(s) + 1
         /\ DOMAIN s = 1 .. Len(s) /\ DOMAIN Append(s, e) = 1 .. Len(s) + 1
         /\ \A i \in 1 .. Len(s) : Append(s, e)[i] = s[i]
         /\ Append(s, e)[Len(s) + 1] = e
<1>1. Append(s, e) \in Seq(S) /\ Len(Append(s, e)) = Len(s) + 1
  BY AppendProperties
<1>2. DOMAIN s = 1 .. Len(s)
  BY LenProperties
<1>3. DOMAIN Append(s, e) = 1 .. Len(Append(s, e))
  BY <1>1, LenProperties
<1> QED BY <1>1, <1>2, <1>3, AppendProperties

\* Records of the past stay records of the past.
LEMMA PastGrows ==
  ASSUME NEW n \in Nat, NEW m \in Nat, n <= m
  PROVE  /\ Past(n) \subseteq Past(m) /\ Chunks(n) \subseteq Chunks(m)
         /\ Parts(n) \subseteq Parts(m)
         /\ \A s \in Seq(Past(n)) : s \in Seq(Past(m))
         /\ \A s \in Seq(Chunks(n)) : s \in Seq(Chunks(m))
<1>1. Past(n) \subseteq Past(m)
  BY DEF Past
<1>2. Chunks(n) \subseteq Chunks(m)
  BY <1>1 DEF Chunks
<1> QED BY <1>1, <1>2, SeqMonotonic DEF Parts

LEMMA PastIsRecord ==
  ASSUME NEW n \in Nat
  PROVE  /\ Past(n) \subseteq StoreRecord /\ Past(n) \subseteq Chunks(n)
         /\ Corrupt \notin Past(n) /\ Corrupt \in Chunks(n) /\ NoTail \notin Chunks(n)
         /\ Parts(n) \subseteq StoreRecord \cup {Corrupt, NoTail}
         /\ \A s \in Seq(Past(n)) : s \in Seq(StoreRecord) /\ s \in Seq(Chunks(n))
         /\ \A s \in Seq(Chunks(n)) : s \in Seq(StoreRecord \cup {Corrupt})
<1>1. Past(n) \subseteq StoreRecord
  BY DEF Past, StoreRecord
<1>2. Corrupt \notin Past(n)
  BY DEF Past, Corrupt
<1>3. Past(n) \subseteq Chunks(n) /\ Corrupt \in Chunks(n)
  BY DEF Chunks
<1>4. Chunks(n) \subseteq StoreRecord \cup {Corrupt}
  BY <1>1 DEF Chunks
<1>5. NoTail \notin Chunks(n)
  BY DEF Past, Chunks, Corrupt, NoTail
<1> QED BY <1>1, <1>2, <1>3, <1>4, <1>5, SeqMonotonic DEF Parts

\* load_all finds the records among the chunks, and all of an intact file.
LEMMA ReadableIs ==
  ASSUME NEW n \in Nat, NEW s \in Seq(Chunks(n))
  PROVE  /\ Readable(s) \in Seq(Past(n))
         /\ \A k \in DOMAIN Readable(s) : \E i \in DOMAIN s : Readable(s)[k] = s[i]
         /\ Corrupt \notin ToSet(s) => Readable(s) = s
<1> DEFINE I == {i \in DOMAIN s : s[i] # Corrupt}
<1>1. \A i \in DOMAIN s : s[i] \in Chunks(n)
  BY ElementOfSeq, LenProperties
<1>2. I \in SUBSET (DOMAIN s) /\ \A i \in I : s[i] \in Past(n)
  BY <1>1 DEF Chunks
<1>3. Corrupt \notin ToSet(s) => I = DOMAIN s
  BY DEF ToSet
<1>4. Readable(s) = Keeping(s, I)
  BY DEF Readable
<1> HIDE DEF I
<1>5. Corrupt \notin ToSet(s) => Readable(s) = s
  BY <1>3, <1>4, KeepingAll
<1> QED BY <1>2, <1>4, <1>5, KeepingIs

\* Marking keeps length, level, range and type, and unmarks nothing.
LEMMA Marked ==
  ASSUME NEW es \in Seq(IndexEntry), NEW batch
  PROVE  LET m == MarkConsolidated(es, batch)
         IN  /\ m \in Seq(IndexEntry) /\ Len(m) = Len(es) /\ DOMAIN m = 1 .. Len(es)
             /\ \A i \in 1 .. Len(es) :
                  /\ m[i].level = es[i].level
                  /\ m[i].first = es[i].first /\ m[i].last = es[i].last
                  /\ m[i].consolidated <=> es[i].consolidated \/ i \in batch
<1> DEFINE m == MarkConsolidated(es, batch)
<1>1. DOMAIN es = 1 .. Len(es) /\ Len(es) \in Nat
  BY LenProperties
<1>2. \A i \in 1 .. Len(es) : es[i] \in IndexEntry
  BY ElementOfSeq
<1>3. \A i \in 1 .. Len(es) : m[i] = [es[i] EXCEPT !.consolidated = @ \/ i \in batch]
  BY <1>1 DEF MarkConsolidated
<1>4. \A i \in 1 .. Len(es) : m[i] \in IndexEntry
  BY <1>2, <1>3 DEF IndexEntry
<1>5. m \in [1 .. Len(es) -> IndexEntry]
  BY <1>1, <1>4 DEF MarkConsolidated
<1>6. m \in Seq(IndexEntry) /\ Len(m) = Len(es) /\ DOMAIN m = 1 .. Len(es)
  BY <1>1, <1>5
<1>7. \A i \in 1 .. Len(es) :
        /\ m[i].level = es[i].level
        /\ m[i].first = es[i].first /\ m[i].last = es[i].last
        /\ m[i].consolidated <=> es[i].consolidated \/ i \in batch
  BY <1>2, <1>3 DEF IndexEntry
<1> HIDE DEF m
<1> QED BY <1>6, <1>7 DEF m

\* The batch of a ripe level: some live records of that level, older than the
\* live ones left over, and a summary and an entry for them.
LEMMA BatchShape ==
  ASSUME TypeInv, Up, NEW n \in Nat, n > 0, LiveAt(entries, level) # {}
  PROVE  LET batch == Batch(n)
         IN  /\ batch # {} /\ batch \subseteq LiveAt(entries, level)
             /\ batch \subseteq DOMAIN records
             /\ \A i \in batch, j \in LiveAt(entries, level) \ batch : i < j
             /\ Blend(batch) \in Past(now)
             /\ MergedEntry(batch, level) \in IndexEntry
<1> DEFINE S == LiveAt(entries, level)
           batch == Batch(n)
<1>1. /\ now \in Nat /\ level \in Nat
      /\ records \in Seq(Past(now)) /\ entries \in Seq(IndexEntry)
      /\ Len(entries) = Len(records)
  BY DEF TypeInv, TypeOK, Shape
<1>2. Len(entries) \in Nat /\ DOMAIN entries = 1 .. Len(entries)
      /\ DOMAIN records = 1 .. Len(entries)
  BY <1>1, LenProperties
<1>3. S \in SUBSET (1 .. Len(entries))
  BY <1>2 DEF LiveAt
<1>4. /\ batch \subseteq S
      /\ \A i \in batch, j \in S \ batch : i < j
      /\ batch # {}
  BY <1>2, <1>3, OldestFirst DEF Batch
<1>5. batch \in SUBSET (1 .. Len(entries))
  BY <1>3, <1>4
<1>6. \A i \in batch : records[i] \in Past(now)
  BY <1>1, <1>2, <1>5, ElementOfSeq
<1>7. Blend(batch) \in Past(now)
  <2> DEFINE T == {records[i].unix_ns : i \in batch}
  <2>1. T \in SUBSET (0 .. now) /\ T # {}
    BY <1>4, <1>6 DEF Past
  <2>2. Max(T) \in 0 .. now
    BY <1>1, <2>1, MaxOfNats
  <2>3. UNION {records[i].ids : i \in batch} \in SUBSET Nat
    BY <1>6 DEF Past
  <2>4. ASSUME NEW i \in batch, NEW id \in records[i].ids, id <= MaxNow
        PROVE  id <= Max(T)
    <3>1. id \in Nat /\ records[i].unix_ns \in 0 .. now /\ id <= records[i].unix_ns
      BY <1>6, <2>4 DEF Past
    <3>2. records[i].unix_ns <= Max(T)
      BY <1>1, <2>1, MaxOfNats
    <3> QED BY <1>1, <2>2, <3>1, <3>2
  <2> QED BY <2>2, <2>3, <2>4 DEF Blend, Past
<1>8. MergedEntry(batch, level) \in IndexEntry
  <2>1. batch \in SUBSET Nat /\ batch \in SUBSET (0 .. Len(entries))
    BY <1>5
  <2>2. Min(batch) \in batch /\ Max(batch) \in batch
    BY <1>2, <1>4, <2>1, MinOfNats, MaxOfNats
  <2>3. Min(batch) \in Nat /\ Max(batch) \in Nat
    BY <2>1, <2>2
  <2> QED BY <1>1, <2>3 DEF MergedEntry, IndexEntry
<1> QED BY <1>2, <1>4, <1>5, <1>7, <1>8

\* A ripe level has live records.
LEMMA RipeNotEmpty ==
  ASSUME TypeInv
  PROVE  /\ Ripe => LiveAt(entries, level) # {}
         /\ ForceRipe => LiveAt(entries, level) # {}
         /\ Threshold \in Nat /\ Threshold > 0
<1>1. Threshold \in Nat /\ Threshold >= 2 /\ force.min >= 2 /\ force.min \in Nat
  BY StoreAssumption DEF TypeInv, TypeOK, ForceLoop
<1>2. Cardinality({}) = 0
  BY FS_EmptySet
<1> QED BY <1>1, <1>2 DEF Ripe, ForceRipe

\* Appending to store.bin keeps what it holds.
LEMMA ToSetAppend ==
  ASSUME NEW S, NEW s \in Seq(S), NEW e
  PROVE  ToSet(Append(s, e)) = ToSet(s) \cup {e}
<1> DEFINE T == S \cup {e}
<1>1. s \in Seq(T) /\ e \in T
  BY SeqMonotonic
<1>2. /\ DOMAIN s = 1 .. Len(s) /\ DOMAIN Append(s, e) = 1 .. Len(s) + 1
      /\ \A i \in 1 .. Len(s) : Append(s, e)[i] = s[i]
      /\ Append(s, e)[Len(s) + 1] = e
      /\ Len(s) \in Nat
  BY ONLY <1>1, Appended, LenProperties
<1>3. 1 .. Len(s) + 1 = (1 .. Len(s)) \cup {Len(s) + 1}
  BY <1>2
<1> QED BY <1>2, <1>3 DEF ToSet

\* A record that was written whole, in a store that stays intact, is not behind
\* a part of another.
LEMMA WholeWrite ==
  ASSUME Intact', NEW r, WriteWhole(r)
  PROVE  cells' = Append(cells, r) /\ torn' = NoTail /\ Intact
BY DEF WriteWhole, Chunk, Rest, Intact

\* A part of a record completes no chunk in a store that stays intact.
LEMMA PartialWrite ==
  ASSUME Intact', NEW r, WritePart(r)
  PROVE  cells' = cells /\ Intact
BY DEF WritePart, Intact

\* A chunk that is added to store.bin.
LEMMA ChunkAppend ==
  ASSUME TypeInv, NEW m \in Nat, now <= m, NEW c \in Chunks(m)
  PROVE  /\ cells \in Seq(Chunks(m)) /\ Append(cells, c) \in Seq(Chunks(m))
         /\ Len(Append(cells, c)) = Len(cells) + 1 /\ Len(cells) \in Nat
<1>1. now \in Nat /\ cells \in Seq(Chunks(now))
  BY DEF TypeInv, TypeOK, Shape
<1>2. cells \in Seq(Chunks(m))
  BY <1>1, PastGrows
<1> QED BY <1>2, Appended, LenProperties

\* What any write of a record leaves in store.bin.
LEMMA WriteShape ==
  ASSUME TypeInv, NEW m \in Nat, now <= m, NEW r \in Past(m), WriteWhole(r) \/ WritePart(r)
  PROVE  /\ cells' \in Seq(Chunks(m)) /\ torn' \in Parts(m)
         /\ spoiled' \in BOOLEAN /\ (spoiled => spoiled')
<1>1. now \in Nat /\ torn \in Parts(now) /\ cells \in Seq(Chunks(now)) /\ spoiled \in BOOLEAN
  BY DEF TypeInv, TypeOK, Shape
<1>2. /\ torn \in Parts(m) /\ cells \in Seq(Chunks(m)) /\ NoTail \in Parts(m)
      /\ Corrupt \in Parts(m) /\ r \in Parts(m) /\ r \in Chunks(m)
      /\ torn # NoTail => torn \in Chunks(m)
  BY <1>1, PastGrows DEF Parts, Chunks
<1>3. CASE WriteWhole(r)
  <2>1. Chunk(r) \in Chunks(m) /\ Rest \in Parts(m)
    BY <1>2 DEF Chunk, Rest
  <2> QED BY <1>1, <1>3, <2>1, ChunkAppend DEF WriteWhole
<1>4. CASE WritePart(r)
  <2>1. CASE torn = NoTail
    BY <1>1, <1>2, <1>4, <2>1 DEF WritePart, Part
  <2>2. CASE torn # NoTail
    BY <1>1, <1>2, <1>4, <2>2, ChunkAppend DEF WritePart
  <2> QED BY <2>1, <2>2
<1> QED BY <1>3, <1>4

\* What append_at_level leaves on disk and in memory.
LEMMA AppendShape ==
  ASSUME TypeInv, Up, NEW m \in Nat, now <= m,
         NEW r \in Past(m), NEW e \in IndexEntry, NEW batch,
         AppendAtLevel(r, e, batch)
  PROVE  /\ cells' \in Seq(Chunks(m)) /\ torn' \in Parts(m)
         /\ spoiled' \in BOOLEAN /\ (spoiled => spoiled')
         /\ Intact' => cells' = Append(cells, r)
         /\ records' \in Seq(Past(m))
         /\ entries' \in Seq(IndexEntry)
         /\ Len(entries') = Len(records')
<1>1. /\ now \in Nat /\ records \in Seq(Past(now))
      /\ entries \in Seq(IndexEntry) /\ Len(entries) = Len(records)
  BY DEF TypeInv, TypeOK, Shape
<1>2. records \in Seq(Past(m))
  BY <1>1, PastGrows
<1>3. WriteWhole(r)
  BY DEF AppendAtLevel
<1>4. /\ cells' \in Seq(Chunks(m)) /\ torn' \in Parts(m)
      /\ spoiled' \in BOOLEAN /\ (spoiled => spoiled')
  BY <1>3, WriteShape
<1>5. records' = Append(records, r)
      /\ entries' = Append(MarkConsolidated(entries, batch), e)
  BY DEF AppendAtLevel
<1>6. MarkConsolidated(entries, batch) \in Seq(IndexEntry)
      /\ Len(MarkConsolidated(entries, batch)) = Len(entries)
  BY <1>1, Marked
<1>7. records' \in Seq(Past(m)) /\ Len(records') = Len(records) + 1
  BY <1>2, <1>5, Appended
<1>8. entries' \in Seq(IndexEntry) /\ Len(entries') = Len(entries) + 1
  BY <1>5, <1>6, Appended
<1> QED BY <1>1, <1>3, <1>4, <1>7, <1>8, WholeWrite

\* A write or a fsync that fails leaves the record on disk or not, and nothing in
\* memory.
Attempt(r) ==
  \/ "write" \in Faults /\ WritePart(r)
  \/ "fsync" \in Faults /\ WriteWhole(r)

LEMMA FailedAppend ==
  ASSUME TypeInv, NEW m \in Nat, now <= m, NEW r \in Past(m), Attempt(r)
  PROVE  /\ cells' \in Seq(Chunks(m)) /\ torn' \in Parts(m)
         /\ spoiled' \in BOOLEAN /\ (spoiled => spoiled')
         /\ Intact' => cells' \in {cells, Append(cells, r)}
BY WriteShape, WholeWrite, PartialWrite DEF Attempt

LEMMA InitTypeInv == Init => TypeInv
<1> SUFFICES ASSUME Init PROVE TypeInv
  OBVIOUS
<1>1. <<>> \in Seq(StoreRecord) /\ <<>> \in Seq(IndexEntry) /\ <<>> \in Seq(Past(0))
      /\ <<>> \in Seq(Chunks(0)) /\ <<>> \in Seq(StoreRecord \cup {Corrupt})
  BY EmptySeq
<1>2. NoForce \in ForceLoop
  BY StoreAssumption DEF NoForce, ForceLoop
<1>3. NoIndex \in [exists : BOOLEAN, cursor : Nat, entries : Seq(IndexEntry)]
  BY <1>1 DEF NoIndex
<1>4. TypeOK
  BY <1>1, <1>2, <1>3 DEF Init, TypeOK, Up
<1>5. Shape
  BY <1>1 DEF Init, Shape, Up, Parts
<1> QED BY <1>4, <1>5 DEF TypeInv

\* A process that ends leaves a well-formed state if what it did to the disk
\* was well-formed.
LEMMA GoneTypeInv ==
  ASSUME TypeInv, Gone,
         cells' \in Seq(Chunks(now')), now' \in Nat, opens' \in Nat,
         torn' \in Parts(now'), header' \in {"absent", "short", "ok"},
         header' # "ok" /\ Intact' => cells' = <<>>,
         index' \in [exists : BOOLEAN, cursor : Nat, entries : Seq(IndexEntry)],
         spoiled' \in BOOLEAN, spoiled => spoiled', UNCHANGED past
  PROVE  TypeInv'
<1>1. cells' \in Seq(StoreRecord \cup {Corrupt}) /\ torn' \in StoreRecord \cup {Corrupt, NoTail}
  BY PastIsRecord
<1>2. records' = <<>> /\ entries' = <<>> /\ pc' = "down" /\ role' = "none"
      /\ cursor' = 0 /\ level' = 0 /\ force' = NoForce /\ pending' = 0
  BY DEF Gone
<1>3. <<>> \in Seq(StoreRecord) /\ <<>> \in Seq(IndexEntry) /\ <<>> \in Seq(Past(now'))
  BY EmptySeq
<1>4. NoForce \in ForceLoop
  BY StoreAssumption DEF NoForce, ForceLoop
<1>5. TypeOK'
  BY <1>1, <1>2, <1>3, <1>4 DEF TypeInv, TypeOK, Up, past
<1>6. Shape'
  BY <1>2, <1>3 DEF TypeInv, Shape, Up, past
<1> QED BY <1>5, <1>6 DEF TypeInv

\* A step that leaves the process up leaves a well-formed state if the files,
\* the memory and the clock it leaves are.
LEMMA UpTypeInv ==
  ASSUME TypeInv, Up, header' = header,
         pc' \in {"idle", "cascade", "flush", "force", "forceFlush"},
         now' \in Nat, cells' \in Seq(Chunks(now')), torn' \in Parts(now'),
         spoiled' \in BOOLEAN, spoiled => spoiled',
         index' \in [exists : BOOLEAN, cursor : Nat, entries : Seq(IndexEntry)],
         records' \in Seq(Past(now')), entries' \in Seq(IndexEntry),
         Len(entries') = Len(records'), cursor' \in Nat,
         level' \in Nat, force' \in ForceLoop, pending' \in Nat,
         acked' \subseteq Nat, role' = role, opens' = opens, rebuilt' = rebuilt,
         misled' = misled
  PROVE  TypeInv'
<1>1. /\ cells' \in Seq(StoreRecord \cup {Corrupt}) /\ records' \in Seq(StoreRecord)
      /\ torn' \in StoreRecord \cup {Corrupt, NoTail}
  BY PastIsRecord
<1>2. TypeOK'
  BY <1>1 DEF TypeInv, TypeOK, Shape, Up
<1>3. Shape'
  BY DEF TypeInv, TypeOK, Shape, Up
<1> QED BY <1>2, <1>3 DEF TypeInv

LEMMA FlushedType ==
  ASSUME TypeInv
  PROVE  /\ Flushed \in [exists : BOOLEAN, cursor : Nat, entries : Seq(IndexEntry)]
         /\ \A c \in Nat : [Flushed EXCEPT !.cursor = c]
               \in [exists : BOOLEAN, cursor : Nat, entries : Seq(IndexEntry)]
BY DEF TypeInv, TypeOK, Flushed

(***************************************************************************)
(* Every step keeps the state well formed.                                 *)
(***************************************************************************)
LEMMA OpeningTypeInv ==
  ASSUME TypeInv, Opening
  PROVE  TypeInv'
<1> USE DEF TypeInv
<1> DEFINE Idx == [exists : BOOLEAN, cursor : Nat, entries : Seq(IndexEntry)]
<1>0. /\ now \in Nat /\ opens \in Nat /\ cells \in Seq(Chunks(now))
      /\ records \in Seq(Past(now)) /\ index \in Idx
      /\ torn \in Parts(now) /\ header \in {"absent", "short", "ok"}
      /\ acked \subseteq Nat /\ rebuilt \in BOOLEAN
      /\ spoiled \in BOOLEAN /\ misled \in BOOLEAN /\ (misled => spoiled)
  BY DEF TypeOK, Shape
<1>1. CASE OpenCreate
  BY <1>0, <1>1 DEF OpenCreate, mem, loop, past, TypeOK, Shape, Up, Intact
<1>2. CASE CreateEmpty
  BY <1>0, <1>2 DEF CreateEmpty, mem, loop, TypeOK, Shape, Up, Intact
<1>3. CASE CreateEmptyFails
  <2>1. Gone /\ UNCHANGED <<cells, torn, index, spoiled, now, opens, past>>
        /\ header' \in {header, "ok"}
    BY <1>3 DEF CreateEmptyFails
  <2>2. header' # "ok" /\ Intact' => cells' = <<>>
    BY <2>1 DEF Shape, Intact
  <2> QED BY <1>0, <2>1, <2>2, GoneTypeInv
<1>4. CASE RemoveIndex
  <2>1. NoIndex \in Idx
    BY EmptySeq DEF NoIndex
  <2> QED BY <1>0, <1>4, <2>1 DEF RemoveIndex, mem, loop, past, TypeOK, Shape, Up, Intact
<1>5. ASSUME NEW r \in Roles, LoadAll(r)
      PROVE  TypeInv'
  <2>1. Readable(cells) \in Seq(Past(now))
    BY <1>0, ReadableIs
  <2>2. records' \in Seq(Past(now)) /\ records' \in Seq(StoreRecord)
    BY <1>0, <1>5, <2>1, PastIsRecord DEF LoadAll
  <2>3. /\ header = "ok" /\ torn' = NoTail /\ pc' = "loaded" /\ role' = r
        /\ opens' \in Nat /\ misled' = spoiled
        /\ UNCHANGED <<header, cells, index, spoiled, entries, cursor, level, force, now,
                       pending, acked, rebuilt>>
    BY <1>0, <1>5 DEF LoadAll, Open, loop
  <2>4. TypeOK'
    BY <2>2, <2>3 DEF TypeOK, Up
  <2>5. Shape'
    BY <2>2, <2>3 DEF Shape, Up, Parts
  <2> QED BY <2>4, <2>5
<1>6. ASSUME NEW r \in Roles, LoadAllFails(r)
      PROVE  TypeInv'
  <2>1. Gone /\ UNCHANGED <<header, cells, torn, index, spoiled, now, past>>
        /\ opens' \in Nat /\ (header' # "ok" /\ Intact' => cells' = <<>>)
    BY <1>0, <1>6 DEF LoadAllFails, Open, disk, Shape, Intact
  <2> QED BY <1>0, <2>1, GoneTypeInv
<1>7. ASSUME Start, level \in Nat, force \in ForceLoop
      PROVE  pc' \in {"idle", "force"} /\ level' \in Nat /\ force' \in ForceLoop
  <2>1. MaxLevel \in Nat /\ Threshold \in Nat
    BY StoreAssumption
  <2>2. CASE role = "force"
    <3>1. pc' = "force"
      BY <1>7, <2>2 DEF Start
    <3>2. PICK min \in 2..Threshold, only \in BOOLEAN :
            /\ force' = [min |-> min, only |-> only, any |-> FALSE, passes |-> 0]
            /\ level' \in IF only THEN 0..MaxLevel ELSE {0}
      BY <1>7, <2>2 DEF Start
    <3>3. force' \in ForceLoop
      BY <3>2 DEF ForceLoop
    <3>4. level' \in Nat
      BY <2>1, <3>2
    <3> QED BY <3>1, <3>3, <3>4
  <2>3. CASE role # "force"
    BY <1>7, <2>3 DEF Start, loop
  <2> QED BY <2>2, <2>3
<1>8. CASE OpenIndex
  <2>1. entries' = index.entries /\ cursor' = index.cursor
        /\ Len(entries') = Len(records)
        /\ UNCHANGED <<header, cells, torn, index, spoiled, role, records, now, opens,
                       pending, acked, rebuilt, misled>>
        /\ pc = "loaded" /\ Start
    BY <1>8 DEF OpenIndex, InSync, disk, past
  <2>2. entries' \in Seq(IndexEntry) /\ cursor' \in Nat
    BY <1>0, <2>1
  <2>3. pc' \in {"idle", "force"} /\ level' \in Nat /\ force' \in ForceLoop
    BY <1>7, <2>1 DEF TypeOK
  <2>4. TypeOK'
    BY <2>1, <2>2, <2>3 DEF TypeOK, Up
  <2>5. Shape'
    BY <2>1, <2>3 DEF Shape, Up, Intact
  <2> QED BY <2>4, <2>5
<1>9. CASE RefuseIndex
  <2>1. Gone /\ UNCHANGED <<header, cells, torn, index, spoiled, now, opens, past>>
        /\ (header' # "ok" /\ Intact' => cells' = <<>>)
    BY <1>9 DEF RefuseIndex, disk, Shape, Intact
  <2> QED BY <1>0, <2>1, GoneTypeInv
<1>10. CASE CreateFresh
  <2>1. /\ entries' = [i \in DOMAIN records |-> DefaultEntry] /\ cursor' = 0
        /\ index' = [exists |-> TRUE, cursor |-> cursor', entries |-> entries']
        /\ rebuilt' \in BOOLEAN
        /\ UNCHANGED <<header, cells, torn, spoiled, role, records, now, opens, pending,
                       acked, misled>>
        /\ pc = "loaded" /\ Start
    BY <1>0, <1>10 DEF CreateFresh
  <2>2. DefaultEntry \in IndexEntry
    BY DEF DefaultEntry, IndexEntry
  <2>3. DOMAIN records = 1 .. Len(records) /\ Len(records) \in Nat
    BY <1>0, LenProperties
  <2>4. entries' \in Seq(IndexEntry) /\ Len(entries') = Len(records)
    <3>1. entries' \in [1 .. Len(records) -> IndexEntry]
      BY <2>1, <2>2, <2>3
    <3> QED BY <2>3, <3>1
  <2>5. index' \in Idx /\ cursor' \in Nat
    BY <2>1, <2>4
  <2>6. pc' \in {"idle", "force"} /\ level' \in Nat /\ force' \in ForceLoop
    BY <1>7, <2>1 DEF TypeOK
  <2>7. TypeOK'
    BY <2>1, <2>4, <2>5, <2>6 DEF TypeOK, Up
  <2>8. Shape'
    BY <2>1, <2>6 DEF Shape, Up, Intact
  <2> QED BY <2>7, <2>8
<1>11. CASE CreateFreshFails
  <2>1. Gone /\ UNCHANGED <<header, cells, torn, index, spoiled, now, opens, past>>
        /\ (header' # "ok" /\ Intact' => cells' = <<>>)
    BY <1>11 DEF CreateFreshFails, disk, Shape, Intact
  <2> QED BY <1>0, <2>1, GoneTypeInv
<1> QED
  BY <1>1, <1>2, <1>3, <1>4, <1>5, <1>6, <1>8, <1>9, <1>10, <1>11 DEF Opening

\* The facts of TypeInv that the steps of an open store use.
LEMMA UpFacts ==
  ASSUME TypeInv, Up
  PROVE  /\ header = "ok" /\ torn \in Parts(now) /\ spoiled \in BOOLEAN
         /\ cells \in Seq(Chunks(now)) /\ records \in Seq(Past(now))
         /\ index \in [exists : BOOLEAN, cursor : Nat, entries : Seq(IndexEntry)]
         /\ entries \in Seq(IndexEntry) /\ Len(entries) = Len(records)
         /\ cursor \in Nat /\ level \in Nat /\ force \in ForceLoop
         /\ now \in Nat /\ opens \in Nat /\ pending \in Nat
         /\ acked \subseteq Nat /\ rebuilt \in BOOLEAN
BY DEF TypeInv, TypeOK, Shape

\* A new memory and its entry.
LEMMA MemoryShape ==
  ASSUME NEW n \in Nat
  PROVE  Memory(n) \in Past(n) /\ DefaultEntry \in IndexEntry
BY DEF Memory, Past, DefaultEntry, IndexEntry

LEMMA RememberingTypeInv ==
  ASSUME TypeInv, Remembering
  PROVE  TypeInv'
<1>1. CASE Remember
  <2>1. /\ pc = "idle" /\ now' = now + 1 /\ pending' = now'
        /\ AppendAtLevel(Memory(now'), DefaultEntry, {})
        /\ pc' = "cascade" /\ level' = 0
        /\ UNCHANGED <<header, index, role, cursor, force, opens, acked, rebuilt, misled>>
    BY <1>1 DEF Remember, Serving, past
  <2>2. Up
    BY <2>1 DEF Up
  <2>3. now' \in Nat /\ now <= now'
    BY <2>1, <2>2, UpFacts
  <2>4. Memory(now') \in Past(now') /\ DefaultEntry \in IndexEntry
    BY <2>3, MemoryShape
  <2>5. /\ cells' \in Seq(Chunks(now')) /\ records' \in Seq(Past(now'))
        /\ entries' \in Seq(IndexEntry) /\ Len(entries') = Len(records')
        /\ torn' \in Parts(now') /\ spoiled' \in BOOLEAN /\ (spoiled => spoiled')
    BY <2>1, <2>2, <2>3, <2>4, AppendShape
  <2> QED BY <2>1, <2>2, <2>3, <2>5, UpFacts, UpTypeInv
<1>2. CASE RememberFails
  <2>1. /\ pc = "idle" /\ now' = now + 1
        /\ Attempt(Memory(now'))
        /\ UNCHANGED <<records, entries>>
        /\ UNCHANGED <<header, index, pc, role, cursor, level, force, opens, pending,
                       acked, rebuilt, misled>>
    BY <1>2 DEF RememberFails, AppendFails, Attempt, Serving, past, loop
  <2>2. Up
    BY <2>1 DEF Up
  <2>3. now' \in Nat /\ now <= now'
    BY <2>1, <2>2, UpFacts
  <2>4. Memory(now') \in Past(now')
    BY <2>3, MemoryShape
  <2>5. /\ cells' \in Seq(Chunks(now')) /\ torn' \in Parts(now')
        /\ spoiled' \in BOOLEAN /\ (spoiled => spoiled')
    BY <2>1, <2>2, <2>3, <2>4, FailedAppend
  <2>6. records' \in Seq(Past(now'))
    BY <2>1, <2>2, <2>3, UpFacts, PastGrows
  <2> QED BY <2>1, <2>2, <2>3, <2>5, <2>6, UpFacts, UpTypeInv
<1>3. CASE Consolidate
  <2> DEFINE batch == Batch(Threshold)
  <2>1. /\ pc = "cascade" /\ Ripe
        /\ AppendAtLevel(Blend(batch), MergedEntry(batch, level), batch)
        /\ level' = level + 1 /\ pc' \in {"flush", "cascade"}
        /\ UNCHANGED <<header, index, role, cursor, force, now, opens, pending, acked,
                       rebuilt, misled>>
    BY <1>3 DEF Consolidate, past
  <2>2. Up
    BY <2>1 DEF Up
  <2>3. Blend(batch) \in Past(now) /\ MergedEntry(batch, level) \in IndexEntry
    BY <2>1, <2>2, RipeNotEmpty, BatchShape
  <2>4. now \in Nat /\ now <= now
    BY <2>2, UpFacts
  <2>5. /\ cells' \in Seq(Chunks(now)) /\ records' \in Seq(Past(now))
        /\ entries' \in Seq(IndexEntry) /\ Len(entries') = Len(records')
        /\ torn' \in Parts(now) /\ spoiled' \in BOOLEAN /\ (spoiled => spoiled')
    BY <2>1, <2>2, <2>3, <2>4, AppendShape
  <2>6. level' \in Nat /\ now' \in Nat /\ now' = now
    BY <2>1, <2>2, UpFacts
  <2> HIDE DEF batch
  <2> QED BY <2>1, <2>2, <2>5, <2>6, UpFacts, UpTypeInv
<1>4. CASE ConsolidateFails
  <2> DEFINE batch == Batch(Threshold)
  <2>1. /\ pc = "cascade" /\ Ripe
        /\ Attempt(Blend(batch))
        /\ UNCHANGED <<records, entries>>
        /\ level' = 0 /\ pc' = "idle" /\ pending' = 0
        /\ UNCHANGED <<header, index, role, cursor, force, now, opens, acked, rebuilt,
                       misled>>
    BY <1>4 DEF ConsolidateFails, AppendFails, Attempt, past
  <2>2. Up
    BY <2>1 DEF Up
  <2>3. Blend(batch) \in Past(now)
    BY <2>1, <2>2, RipeNotEmpty, BatchShape
  <2>4. now \in Nat /\ now <= now
    BY <2>2, UpFacts
  <2>5. /\ cells' \in Seq(Chunks(now)) /\ torn' \in Parts(now)
        /\ spoiled' \in BOOLEAN /\ (spoiled => spoiled')
    BY <2>1, <2>2, <2>3, <2>4, FailedAppend
  <2> HIDE DEF batch
  <2> QED BY <2>1, <2>2, <2>5, UpFacts, UpTypeInv
<1>5. CASE NothingToConsolidate
  <2>1. /\ pc = "cascade" /\ pc' \in {"cascade", "flush"} /\ level' \in {1, level}
        /\ UNCHANGED <<header, cells, torn, index, spoiled, role, records, entries, cursor,
                       force, now, opens, pending, acked, rebuilt, misled>>
    BY <1>5 DEF NothingToConsolidate, disk, mem, past
  <2>2. Up
    BY <2>1 DEF Up
  <2>3. level' \in Nat
    BY <2>1, <2>2, UpFacts
  <2> QED BY <2>1, <2>2, <2>3, UpFacts, UpTypeInv
<1>6. CASE AppendFlush
  <2>1. /\ pc = "flush" /\ pc' = "idle" /\ level' = 0 /\ pending' = 0
        /\ index' = Flushed /\ acked' = acked \cup {pending}
        /\ UNCHANGED <<header, cells, torn, spoiled, role, records, entries, cursor, force,
                       now, opens, rebuilt, misled>>
    BY <1>6 DEF AppendFlush, mem
  <2>2. Up
    BY <2>1 DEF Up
  <2>3. index' \in [exists : BOOLEAN, cursor : Nat, entries : Seq(IndexEntry)]
        /\ acked' \subseteq Nat
    BY <2>1, <2>2, UpFacts, FlushedType
  <2> QED BY <2>1, <2>2, <2>3, UpFacts, UpTypeInv
<1>7. CASE AppendFlushFails
  <2>1. /\ pc = "flush" /\ pc' = "idle" /\ level' = 0 /\ pending' = 0
        /\ UNCHANGED <<header, cells, torn, index, spoiled, role, records, entries, cursor,
                       force, now, opens, acked, rebuilt, misled>>
    BY <1>7 DEF AppendFlushFails, disk, mem, past
  <2>2. Up
    BY <2>1 DEF Up
  <2> QED BY <2>1, <2>2, UpFacts, UpTypeInv
<1> QED BY <1>1, <1>2, <1>3, <1>4, <1>5, <1>6, <1>7 DEF Remembering

LEMMA TouchRecallTypeInv ==
  ASSUME TypeInv, TouchRecall
  PROVE  TypeInv'
<1>1. /\ pc = "idle" /\ pc' = pc /\ now' = now + 1 /\ cursor' = now'
      /\ index' = [Flushed EXCEPT !.cursor = cursor'] \/ index' = index
      /\ UNCHANGED <<header, cells, torn, spoiled, role, records, entries, level, force,
                     opens, pending, acked, rebuilt, misled>>
  BY DEF TouchRecall, Serving, loop, past
<1>2. Up
  BY <1>1 DEF Up
<1>3. cursor' \in Nat /\ now' = now + 1 /\ now' \in Nat
  BY <1>1, <1>2, UpFacts
<1>4. index' \in [exists : BOOLEAN, cursor : Nat, entries : Seq(IndexEntry)]
  BY <1>1, <1>2, <1>3, UpFacts, FlushedType
<1>5. /\ cells' \in Seq(Chunks(now')) /\ records' \in Seq(Past(now'))
      /\ torn' \in Parts(now') /\ spoiled' \in BOOLEAN
  <2>1. now \in Nat /\ now <= now'
    BY <1>1, <1>2, UpFacts
  <2> QED BY <1>1, <1>2, <1>3, <2>1, UpFacts, PastGrows
<1> QED BY <1>1, <1>2, <1>3, <1>4, <1>5, UpFacts, UpTypeInv

\* The ends of a process that leave the files well formed.
LEMMA GoneFromUp ==
  ASSUME TypeInv, Up, Gone, header' = header, now' = now, opens' = opens,
         cells' \in Seq(Chunks(now)), torn' \in Parts(now),
         spoiled' \in BOOLEAN, spoiled => spoiled',
         index' \in [exists : BOOLEAN, cursor : Nat, entries : Seq(IndexEntry)],
         UNCHANGED past
  PROVE  TypeInv'
BY UpFacts, GoneTypeInv

\* From one level of `force` to the next, or to its end.
LEMMA NextLevelTypeInv ==
  ASSUME TypeInv, Up, NEW any \in BOOLEAN, NextLevel(any),
         UNCHANGED <<header, cells, torn, spoiled, now, opens, acked, rebuilt, misled>>,
         index' \in [exists : BOOLEAN, cursor : Nat, entries : Seq(IndexEntry)]
  PROVE  TypeInv'
<1>1. CASE Gone
  BY <1>1, UpFacts, GoneFromUp DEF past
<1>2. CASE ~Gone
  <2>1. /\ pc' = "force" /\ UNCHANGED <<role, records, entries, cursor, pending>>
        /\ level' \in {level + 1, level, 0}
        /\ \/ force' = [force EXCEPT !.any = any]
           \/ force' = [force EXCEPT !.any = FALSE, !.passes = @ + 1]
    BY <1>2 DEF NextLevel, mem
  <2>2. level' \in Nat
    BY <2>1, UpFacts
  <2>3. force \in [min : 2 .. Threshold, only : BOOLEAN, any : BOOLEAN, passes : Nat]
    BY UpFacts DEF ForceLoop
  <2>4. [force EXCEPT !.any = any] \in ForceLoop
    BY <2>3 DEF ForceLoop
  <2>5. [force EXCEPT !.any = FALSE, !.passes = @ + 1] \in ForceLoop
    <3> DEFINE f == [force EXCEPT !.any = FALSE]
    <3>1. f \in ForceLoop /\ f.passes = force.passes
      BY <2>3 DEF ForceLoop
    <3>2. f.passes + 1 \in Nat
      BY <2>3, <3>1
    <3>3. [f EXCEPT !.passes = force.passes + 1] \in ForceLoop
      BY <3>1, <3>2 DEF ForceLoop
    <3> QED BY <3>3
  <2> QED BY <2>1, <2>2, <2>4, <2>5, UpFacts, UpTypeInv
<1> QED BY <1>1, <1>2

LEMMA ForcingTypeInv ==
  ASSUME TypeInv, Forcing
  PROVE  TypeInv'
<1>1. CASE ForceMerge
  <2> DEFINE batch == Batch(Threshold)
  <2>1. /\ pc = "force" /\ ForceRipe
        /\ AppendAtLevel(Blend(batch), MergedEntry(batch, level), batch)
        /\ pc' = "forceFlush"
        /\ UNCHANGED <<header, index, role, cursor, level, force, now, opens,
                       pending, acked, rebuilt, misled>>
    BY <1>1 DEF ForceMerge, loop, past
  <2>2. Up
    BY <2>1 DEF Up
  <2>3. Blend(batch) \in Past(now) /\ MergedEntry(batch, level) \in IndexEntry
    BY <2>1, <2>2, RipeNotEmpty, BatchShape
  <2>4. now \in Nat /\ now <= now
    BY <2>2, UpFacts
  <2>5. /\ cells' \in Seq(Chunks(now)) /\ records' \in Seq(Past(now))
        /\ entries' \in Seq(IndexEntry) /\ Len(entries') = Len(records')
        /\ torn' \in Parts(now) /\ spoiled' \in BOOLEAN /\ (spoiled => spoiled')
    BY <2>1, <2>2, <2>3, <2>4, AppendShape
  <2> HIDE DEF batch
  <2> QED BY <2>1, <2>2, <2>5, UpFacts, UpTypeInv
<1>2. CASE ForceMergeFails
  <2> DEFINE batch == Batch(Threshold)
  <2>1. /\ pc = "force" /\ ForceRipe
        /\ Attempt(Blend(batch))
        /\ Gone
        /\ UNCHANGED <<header, index, now, opens, past>>
    BY <1>2 DEF ForceMergeFails, Attempt
  <2>2. Up
    BY <2>1 DEF Up
  <2>3. Blend(batch) \in Past(now)
    BY <2>1, <2>2, RipeNotEmpty, BatchShape
  <2>4. now \in Nat /\ now <= now
    BY <2>2, UpFacts
  <2>5. /\ cells' \in Seq(Chunks(now)) /\ torn' \in Parts(now)
        /\ spoiled' \in BOOLEAN /\ (spoiled => spoiled')
    BY <2>1, <2>2, <2>3, <2>4, FailedAppend
  <2> HIDE DEF batch
  <2> QED BY <2>1, <2>2, <2>5, UpFacts, GoneFromUp
<1>3. CASE ForceFlush
  <2>1. Up
    BY <1>3 DEF ForceFlush, Up
  <2>2. index' \in [exists : BOOLEAN, cursor : Nat, entries : Seq(IndexEntry)]
    BY <1>3, FlushedType DEF ForceFlush
  <2> QED BY <1>3, <2>1, <2>2, NextLevelTypeInv DEF ForceFlush, past
<1>4. CASE ForceFlushFails
  <2>1. Up
    BY <1>4 DEF ForceFlushFails, Up
  <2> QED BY <1>4, <2>1, UpFacts, GoneFromUp DEF ForceFlushFails, disk
<1>5. CASE ForceNothing
  <2>1. Up
    BY <1>5 DEF ForceNothing, Up
  <2>2. force.any \in BOOLEAN
    BY <2>1, UpFacts DEF ForceLoop
  <2> QED BY <1>5, <2>1, <2>2, UpFacts, NextLevelTypeInv DEF ForceNothing, disk, past
<1> QED BY <1>1, <1>2, <1>3, <1>4, <1>5 DEF Forcing

\* The record that was being written when the process died.
LEMMA CrashedWrite ==
  ASSUME TypeInv, CrashInWrite
  PROVE  /\ Up /\ Gone /\ UNCHANGED <<header, index, opens, past>>
         /\ now \in Nat /\ now' \in Nat /\ now <= now'
         /\ \E r \in Past(now') : WritePart(r)
<1>1. Up
  BY DEF CrashInWrite, Serving, Up
<1>2. now \in Nat
  BY <1>1, UpFacts
<1>3. CASE Serving /\ now' = now + 1 /\ WritePart(Memory(now'))
  <2>1. now' \in Nat /\ now <= now' /\ Memory(now') \in Past(now')
    BY <1>2, <1>3, MemoryShape
  <2> QED BY <1>1, <1>2, <1>3, <2>1 DEF CrashInWrite
<1>4. CASE (Ripe \/ ForceRipe) /\ WritePart(Blend(Batch(Threshold))) /\ UNCHANGED now
  <2>1. now <= now /\ Blend(Batch(Threshold)) \in Past(now)
    BY <1>1, <1>2, <1>4, RipeNotEmpty, BatchShape
  <2> QED BY <1>1, <1>2, <1>4, <2>1 DEF CrashInWrite
<1> QED BY <1>3, <1>4 DEF CrashInWrite

LEMMA EndingTypeInv ==
  ASSUME TypeInv, Ending
  PROVE  TypeInv'
<1>1. CASE Exit \/ Crash
  <2>1. Gone /\ UNCHANGED <<header, cells, torn, index, spoiled, now, opens, past>>
    BY <1>1 DEF Exit, Crash, disk
  <2> QED BY <2>1, GoneTypeInv DEF TypeInv, TypeOK, Shape, Intact
<1>2. CASE CrashInWrite
  <2>1. PICK r \in Past(now') : WritePart(r)
    BY <1>2, CrashedWrite
  <2>2. /\ Up /\ Gone /\ UNCHANGED <<header, index, opens, past>>
        /\ now \in Nat /\ now' \in Nat /\ now <= now'
    BY <1>2, CrashedWrite
  <2>3. /\ cells' \in Seq(Chunks(now')) /\ torn' \in Parts(now')
        /\ spoiled' \in BOOLEAN /\ (spoiled => spoiled')
    BY <2>1, <2>2, WriteShape
  <2> QED BY <2>2, <2>3, UpFacts, GoneTypeInv
<1> QED BY <1>1, <1>2 DEF Ending

LEMMA NextTypeInv ==
  ASSUME TypeInv, [Next]_vars
  PROVE  TypeInv'
<1>1. CASE Next
  BY <1>1, OpeningTypeInv, RememberingTypeInv, TouchRecallTypeInv, ForcingTypeInv,
     EndingTypeInv DEF Next
<1>2. CASE UNCHANGED vars
  BY <1>2 DEF vars, disk, mem, loop, past, TypeInv, TypeOK, Shape, Up, Intact
<1> QED BY <1>1, <1>2

(***************************************************************************)
(* What the files and the memory hold.                                     *)
(***************************************************************************)
\* Every memory of the records is in a live one.
Covers(rs, es) ==
  \A i \in DOMAIN rs : \A id \in rs[i].ids :
    \E j \in DOMAIN es : ~es[j].consolidated /\ id \in rs[j].ids

\* The live records are consecutive periods of the past.
InOrder(rs, es) ==
  \A i, j \in DOMAIN es :
    /\ ~es[i].consolidated /\ ~es[j].consolidated
    /\ es[i].level > es[j].level \/ (es[i].level = es[j].level /\ i < j)
    => \A x \in rs[i].ids, y \in rs[j].ids : x < y

Held(rs) == UNION {rs[i].ids : i \in DOMAIN rs}

\* index.bin describes the records of store.bin
InStep == index.exists /\ Len(index.entries) = Len(cells)

\* It describes those that were loaded, though store.bin may have more by now.
Fits == pc = "loaded" /\ index.exists /\ Len(index.entries) = Len(records)

\* store.bin, or the memory, holds nothing but memories.
Own == Held(cells) \subseteq 0 .. MaxNow
OwnNow == Held(records) \subseteq 0 .. MaxNow

\* Every chunk of store.bin is a record.
Clean == Corrupt \notin ToSet(cells)

\* The memory never runs ahead of store.bin, nor index.bin of the memory, so
\* that files of equal length always describe each other.
Aligned ==
  /\ pc \in {"down", "creating"} => records = <<>>
  /\ Len(index.entries) <= Len(cells)
  /\ Held(records) \subseteq Held(cells)
  /\ Up \/ pc = "loaded" => /\ Len(records) <= Len(cells)
                            /\ Len(records) = Len(cells) => records = cells
  /\ Up => /\ Len(index.entries) <= Len(records)
           /\ InStep => index.entries = entries

\* The sources of entry i of es: what its range holds at the level below.
SourcesIn(es, i) == {k \in es[i].first .. es[i].last : es[k].level = es[i].level - 1}

\* Every merged entry stands for its sources, all of them older and marked.
Sourced(rs, es) ==
  \A i \in DOMAIN es : es[i].level > 0 =>
    /\ 1 <= es[i].first /\ es[i].last < i
    /\ \A k \in SourcesIn(es, i) : es[k].consolidated
    /\ rs[i].ids = UNION {rs[k].ids : k \in SourcesIn(es, i)}

\* The marked entries of a level come before the live ones.
Packed(es) ==
  \A i, j \in DOMAIN es :
    es[i].level = es[j].level /\ es[i].consolidated /\ ~es[j].consolidated => i < j

Traces(rs, es) == Sourced(rs, es) /\ Packed(es)

\* What holds of the memory of an open store that was intact when it was loaded,
\* whatever has become of store.bin.
CoveredNow ==
  /\ Up => Covers(records, entries)
  /\ Fits => Covers(records, index.entries)
KeptNow ==
  /\ Up \/ pc = "loaded" => acked \subseteq Held(records)
  /\ pc \in {"cascade", "flush"} => pending \in Held(records)
OrderedNow ==
  ~rebuilt /\ OwnNow => /\ Up => InOrder(records, entries)
                        /\ Fits => InOrder(records, index.entries)
TracedNow ==
  /\ Up => Traces(records, entries)
  /\ Fits => Traces(records, index.entries)

MemSafe == CoveredNow /\ KeptNow /\ OrderedNow /\ TracedNow

\* What holds of the files of an intact store.
Covered == InStep => Covers(cells, index.entries)
Kept ==
  /\ acked \subseteq Held(cells)
  /\ pc = "creating" => acked = {}
Ordered == ~rebuilt /\ Own /\ InStep => InOrder(cells, index.entries)
Traced == InStep => Traces(cells, index.entries)

Safe == MemSafe /\ Aligned /\ Clean /\ Covered /\ Kept /\ Ordered /\ Traced

LEMMA HeldAppend ==
  ASSUME NEW S, NEW s \in Seq(S), NEW r \in S
  PROVE  Held(Append(s, r)) = Held(s) \cup r.ids
<1>1. /\ DOMAIN s = 1 .. Len(s) /\ DOMAIN Append(s, r) = 1 .. Len(s) + 1
      /\ \A i \in 1 .. Len(s) : Append(s, r)[i] = s[i]
      /\ Append(s, r)[Len(s) + 1] = r
      /\ Len(s) \in Nat
  BY Appended, LenProperties
<1>2. ASSUME NEW x \in Held(Append(s, r)) PROVE x \in Held(s) \cup r.ids
  <2>1. PICK i \in 1 .. Len(s) + 1 : x \in Append(s, r)[i].ids
    BY <1>1, <1>2 DEF Held
  <2>2. CASE i \in 1 .. Len(s)
    BY <1>1, <2>1, <2>2 DEF Held
  <2>3. CASE i = Len(s) + 1
    BY <1>1, <2>1, <2>3
  <2> QED BY <1>1, <2>1, <2>2, <2>3
<1>3. ASSUME NEW x \in Held(s) PROVE x \in Held(Append(s, r))
  <2>1. PICK i \in 1 .. Len(s) : x \in s[i].ids
    BY <1>1, <1>3 DEF Held
  <2>2. x \in Append(s, r)[i].ids /\ i \in 1 .. Len(s) + 1
    BY <1>1, <2>1
  <2> QED BY <1>1, <2>2 DEF Held
<1>4. ASSUME NEW x \in r.ids PROVE x \in Held(Append(s, r))
  <2>1. Len(s) + 1 \in 1 .. Len(s) + 1
    BY <1>1
  <2> QED BY <1>1, <1>4, <2>1 DEF Held
<1> QED BY <1>2, <1>3, <1>4

\* Appending a live record that absorbs its batch hides no memory.
LEMMA CoversAppend ==
  ASSUME NEW S, NEW rs \in Seq(S), NEW es \in Seq(IndexEntry), Len(es) = Len(rs),
         Covers(rs, es),
         NEW r \in S, NEW e \in IndexEntry, ~e.consolidated,
         NEW batch, \A k \in batch : k \in DOMAIN rs => rs[k].ids \subseteq r.ids
  PROVE  Covers(Append(rs, r), Append(MarkConsolidated(es, batch), e))
<1> DEFINE m == MarkConsolidated(es, batch)
           rs2 == Append(rs, r)
           es2 == Append(m, e)
           n == Len(rs)
<1>1. /\ m \in Seq(IndexEntry) /\ Len(m) = n
      /\ \A i \in 1 .. n : m[i].consolidated <=> es[i].consolidated \/ i \in batch
  BY Marked
<1>2. /\ n \in Nat /\ DOMAIN rs = 1 .. n /\ DOMAIN es = 1 .. n
  BY LenProperties
<1>3. /\ DOMAIN rs2 = 1 .. n + 1 /\ \A i \in 1 .. n : rs2[i] = rs[i]
      /\ rs2[n + 1] = r
  BY Appended
<1>4. /\ DOMAIN es2 = 1 .. n + 1 /\ \A i \in 1 .. n : es2[i] = m[i]
      /\ es2[n + 1] = e
  BY <1>1, Appended
<1> HIDE DEF m, rs2, es2
<1>5. ASSUME NEW i \in 1 .. n + 1, NEW id \in rs2[i].ids
      PROVE  \E j \in 1 .. n + 1 : ~es2[j].consolidated /\ id \in rs2[j].ids
  <2>1. n + 1 \in 1 .. n + 1
    BY <1>2
  <2>2. CASE id \in r.ids
    BY <1>3, <1>4, <2>1, <2>2
  <2>3. CASE id \notin r.ids
    <3>1. i \in 1 .. n /\ id \in rs[i].ids
      BY <1>2, <1>3, <1>5, <2>3
    <3>2. PICK j \in 1 .. n : ~es[j].consolidated /\ id \in rs[j].ids
      BY <1>2, <3>1 DEF Covers
    <3>3. j \notin batch
      BY <1>2, <2>3, <3>2
    <3>4. j \in 1 .. n + 1
      BY <1>2
    <3> QED BY <1>1, <1>3, <1>4, <3>2, <3>3, <3>4
  <2> QED BY <2>2, <2>3
<1> QED BY <1>3, <1>4, <1>5 DEF Covers, rs2, es2, m

\* Appending a live record keeps the order if it is older than the live
\* records of lower levels and newer than the others.
LEMMA OrderAppend ==
  ASSUME NEW S, NEW rs \in Seq(S), NEW es \in Seq(IndexEntry), Len(es) = Len(rs),
         InOrder(rs, es),
         NEW r \in S, NEW e \in IndexEntry, NEW batch,
         \A i \in DOMAIN es : ~es[i].consolidated /\ i \notin batch =>
           IF es[i].level >= e.level
             THEN \A x \in rs[i].ids, y \in r.ids : x < y
             ELSE \A x \in rs[i].ids, y \in r.ids : y < x
  PROVE  InOrder(Append(rs, r), Append(MarkConsolidated(es, batch), e))
<1> DEFINE m == MarkConsolidated(es, batch)
           rs2 == Append(rs, r)
           es2 == Append(m, e)
           n == Len(rs)
<1>1. /\ m \in Seq(IndexEntry) /\ Len(m) = n
      /\ \A i \in 1 .. n : m[i].consolidated <=> es[i].consolidated \/ i \in batch
      /\ \A i \in 1 .. n : m[i].level = es[i].level
  BY Marked
<1>2. /\ n \in Nat /\ DOMAIN rs = 1 .. n /\ DOMAIN es = 1 .. n
  BY LenProperties
<1>3. /\ DOMAIN rs2 = 1 .. n + 1 /\ \A i \in 1 .. n : rs2[i] = rs[i]
      /\ rs2[n + 1] = r
  BY Appended
<1>4. /\ DOMAIN es2 = 1 .. n + 1 /\ \A i \in 1 .. n : es2[i] = m[i]
      /\ es2[n + 1] = e
  BY <1>1, Appended
<1>5. e.level \in Nat /\ \A i \in 1 .. n : es[i].level \in Nat
  <2>1. \A i \in 1 .. n : es[i] \in IndexEntry
    BY ElementOfSeq
  <2> QED BY <2>1 DEF IndexEntry
<1> HIDE DEF m, rs2, es2
<1>6. ASSUME NEW i \in 1 .. n + 1, NEW j \in 1 .. n + 1,
             ~es2[i].consolidated, ~es2[j].consolidated,
             es2[i].level > es2[j].level \/ (es2[i].level = es2[j].level /\ i < j),
             NEW x \in rs2[i].ids, NEW y \in rs2[j].ids
      PROVE  x < y
  <2>1. CASE i \in 1 .. n /\ j \in 1 .. n
    <3>1. /\ ~es[i].consolidated /\ ~es[j].consolidated
          /\ es[i].level > es[j].level \/ (es[i].level = es[j].level /\ i < j)
          /\ x \in rs[i].ids /\ y \in rs[j].ids
      BY <1>1, <1>3, <1>4, <1>6, <2>1
    <3> QED BY <1>2, <2>1, <3>1 DEF InOrder
  <2>2. CASE i \in 1 .. n /\ j = n + 1
    <3>1. /\ ~es[i].consolidated /\ i \notin batch
          /\ es[i].level >= e.level
          /\ x \in rs[i].ids /\ y \in r.ids
      BY <1>1, <1>2, <1>3, <1>4, <1>5, <1>6, <2>2
    <3> QED BY <1>2, <2>2, <3>1
  <2>3. CASE i = n + 1 /\ j \in 1 .. n
    <3>1. /\ ~es[j].consolidated /\ j \notin batch
          /\ ~(es[j].level >= e.level)
          /\ x \in r.ids /\ y \in rs[j].ids
      BY <1>1, <1>2, <1>3, <1>4, <1>5, <1>6, <2>3
    <3> QED BY <1>2, <2>3, <3>1
  <2>4. CASE i = n + 1 /\ j = n + 1
    <3>1. e.level > e.level
      BY <1>2, <1>4, <1>6, <2>4
    <3> QED BY <1>5, <3>1
  <2>5. (i \in 1 .. n \/ i = n + 1) /\ (j \in 1 .. n \/ j = n + 1)
    BY <1>2
  <2> QED BY <2>1, <2>2, <2>3, <2>4, <2>5
<1>7. InOrder(rs2, es2)
  BY <1>4, <1>6 DEF InOrder
<1> QED BY <1>7 DEF rs2, es2, m

\* The oldest live records of a level are the only records of the level in the
\* range from the first to the last of them.
LEMMA BatchIsRange ==
  ASSUME NEW es \in Seq(IndexEntry), Packed(es), NEW l \in Nat,
         NEW batch \in SUBSET LiveAt(es, l), batch # {},
         \A i \in batch, j \in LiveAt(es, l) \ batch : i < j
  PROVE  /\ Min(batch) \in batch /\ Max(batch) \in batch
         /\ batch = {k \in Min(batch) .. Max(batch) : es[k].level = l}
<1> DEFINE n == Len(es)
<1>1. n \in Nat /\ DOMAIN es = 1 .. n /\ batch \in SUBSET (1 .. n)
  BY LenProperties DEF LiveAt
<1>2. /\ Min(batch) \in batch /\ \A x \in batch : Min(batch) <= x
      /\ Max(batch) \in batch /\ \A x \in batch : x <= Max(batch)
  <2>1. batch \in SUBSET Nat /\ batch \in SUBSET (0 .. n)
    BY <1>1
  <2> QED BY <1>1, <2>1, MinOfNats, MaxOfNats
<1>3. Min(batch) \in 1 .. n /\ Max(batch) \in 1 .. n
  BY <1>1, <1>2
<1>4. ASSUME NEW k \in batch
      PROVE  k \in Min(batch) .. Max(batch) /\ es[k].level = l
  <2>1. k \in 1 .. n /\ Min(batch) <= k /\ k <= Max(batch)
    BY <1>1, <1>2
  <2> QED BY <1>3, <2>1 DEF LiveAt
<1>5. ASSUME NEW k \in Min(batch) .. Max(batch), es[k].level = l, k \notin batch
      PROVE  FALSE
  <2>1. k \in 1 .. n /\ Min(batch) <= k /\ k <= Max(batch)
    BY <1>1, <1>3
  <2>2. CASE es[k].consolidated
    <3>1. k < Min(batch)
      BY <1>1, <1>2, <1>5, <2>1, <2>2 DEF Packed, LiveAt
    <3> QED BY <1>3, <2>1, <3>1
  <2>3. CASE ~es[k].consolidated
    <3>1. k \in LiveAt(es, l) \ batch
      BY <1>1, <1>5, <2>1, <2>3 DEF LiveAt
    <3>2. Max(batch) < k
      BY <1>2, <3>1
    <3> QED BY <1>3, <2>1, <3>2
  <2> QED BY <2>2, <2>3
<1> QED BY <1>2, <1>4, <1>5

\* What has the shape of an append to rs and es: a memory, or the summary of the
\* oldest live records of a level.
Appendable(rs, es, r, e, batch) ==
  /\ ~e.consolidated
  /\ \/ e.level = 0 /\ batch = {}
     \/ /\ e.level > 0 /\ batch # {} /\ batch \subseteq LiveAt(es, e.level - 1)
        /\ \A i \in batch, j \in LiveAt(es, e.level - 1) \ batch : i < j
        /\ e.first = Min(batch) /\ e.last = Max(batch)
        /\ r.ids = UNION {rs[k].ids : k \in batch}

\* The entries after the append of one whose batch is batch.
Pushed(es, batch, e) == Append(MarkConsolidated(es, batch), e)

\* Appending changes the sources of no entry; those of a summary are its batch.
LEMMA SourcesAppend ==
  ASSUME NEW rs, NEW es \in Seq(IndexEntry), Traces(rs, es),
         NEW r, NEW e \in IndexEntry, NEW batch, Appendable(rs, es, r, e, batch)
  PROVE  /\ \A i \in 1 .. Len(es) : es[i].level > 0 =>
              /\ SourcesIn(Pushed(es, batch, e), i) = SourcesIn(es, i)
              /\ SourcesIn(es, i) \subseteq 1 .. Len(es)
         /\ e.level > 0 => /\ SourcesIn(Pushed(es, batch, e), Len(es) + 1) = batch
                          /\ batch \subseteq 1 .. Len(es)
                          /\ e.first \in 1 .. Len(es) /\ e.last \in 1 .. Len(es)
<1> DEFINE m == MarkConsolidated(es, batch)
           es2 == Pushed(es, batch, e)
           n == Len(es)
<1>1. /\ m \in Seq(IndexEntry) /\ Len(m) = n
      /\ \A i \in 1 .. n : /\ m[i].level = es[i].level
                          /\ m[i].first = es[i].first /\ m[i].last = es[i].last
  BY Marked
<1>2. n \in Nat /\ DOMAIN es = 1 .. n
  BY LenProperties
<1>3. /\ DOMAIN es2 = 1 .. n + 1 /\ \A i \in 1 .. n : es2[i] = m[i]
      /\ es2[n + 1] = e
  BY <1>1, Appended DEF Pushed
<1>4. /\ e.level \in Nat
      /\ \A i \in 1 .. n : es[i].level \in Nat /\ es[i].first \in Nat /\ es[i].last \in Nat
  <2>1. \A i \in 1 .. n : es[i] \in IndexEntry
    BY ElementOfSeq
  <2> QED BY <2>1 DEF IndexEntry
<1> HIDE DEF m, es2, n
<1>5. ASSUME NEW i \in 1 .. n, es[i].level > 0
      PROVE  /\ SourcesIn(es2, i) = SourcesIn(es, i)
             /\ SourcesIn(es, i) \subseteq 1 .. n
  <2>1. es2[i].level = es[i].level /\ es2[i].first = es[i].first /\ es2[i].last = es[i].last
    BY <1>1, <1>3
  <2>2. 1 <= es[i].first /\ es[i].last < i
    BY <1>2, <1>5 DEF Traces, Sourced
  <2>3. \A k \in es[i].first .. es[i].last : k \in 1 .. n
    BY <1>2, <1>4, <2>2
  <2> QED BY <1>1, <1>3, <2>1, <2>3 DEF SourcesIn
<1>6. ASSUME e.level > 0
      PROVE  /\ SourcesIn(es2, n + 1) = batch
             /\ batch \subseteq 1 .. n
             /\ e.first \in 1 .. n /\ e.last \in 1 .. n
  <2>1. e.level - 1 \in Nat
    BY <1>4, <1>6
  <2>2. /\ batch # {} /\ batch \in SUBSET LiveAt(es, e.level - 1)
        /\ \A i \in batch, j \in LiveAt(es, e.level - 1) \ batch : i < j
        /\ e.first = Min(batch) /\ e.last = Max(batch)
    BY <1>4, <1>6 DEF Appendable
  <2>3. /\ Min(batch) \in batch /\ Max(batch) \in batch
        /\ batch = {k \in Min(batch) .. Max(batch) : es[k].level = e.level - 1}
    BY <2>1, <2>2, BatchIsRange DEF Traces
  <2>4. batch \in SUBSET (1 .. n)
    BY <1>2, <2>2 DEF LiveAt
  <2>5. e.first \in 1 .. n /\ e.last \in 1 .. n
    BY <2>2, <2>3, <2>4
  <2>6. \A k \in e.first .. e.last : k \in 1 .. n /\ es2[k].level = es[k].level
    BY <1>1, <1>2, <1>3, <2>5
  <2>7. SourcesIn(es2, n + 1) = batch
    BY <1>3, <2>2, <2>3, <2>6 DEF SourcesIn
  <2> QED BY <2>4, <2>5, <2>7
<1> QED BY <1>3, <1>5, <1>6 DEF m, es2, n

\* Appending a memory, or the summary of the oldest live records of a level, keeps
\* every range pointing at what was merged.
LEMMA TracesAppend ==
  ASSUME NEW S, NEW rs \in Seq(S), NEW es \in Seq(IndexEntry), Len(es) = Len(rs),
         Traces(rs, es),
         NEW r \in S, NEW e \in IndexEntry, NEW batch, Appendable(rs, es, r, e, batch)
  PROVE  Traces(Append(rs, r), Pushed(es, batch, e))
<1> DEFINE m == MarkConsolidated(es, batch)
           rs2 == Append(rs, r)
           es2 == Pushed(es, batch, e)
           n == Len(es)
<1>1. /\ m \in Seq(IndexEntry) /\ Len(m) = n
      /\ \A i \in 1 .. n : /\ m[i].consolidated <=> es[i].consolidated \/ i \in batch
                          /\ m[i].level = es[i].level
                          /\ m[i].first = es[i].first /\ m[i].last = es[i].last
  BY Marked
<1>2. /\ n \in Nat /\ DOMAIN rs = 1 .. n /\ DOMAIN es = 1 .. n
  BY LenProperties
<1>3. /\ DOMAIN rs2 = 1 .. n + 1 /\ \A i \in 1 .. n : rs2[i] = rs[i]
      /\ rs2[n + 1] = r
  BY Appended
<1>4. /\ DOMAIN es2 = 1 .. n + 1 /\ \A i \in 1 .. n : es2[i] = m[i]
      /\ es2[n + 1] = e
  BY <1>1, Appended DEF Pushed
<1>5. /\ \A i \in 1 .. n : es[i].level > 0 =>
           /\ SourcesIn(es2, i) = SourcesIn(es, i) /\ SourcesIn(es, i) \subseteq 1 .. n
      /\ e.level > 0 => /\ SourcesIn(es2, n + 1) = batch /\ batch \subseteq 1 .. n
                       /\ e.first \in 1 .. n /\ e.last \in 1 .. n
  BY SourcesAppend
<1> HIDE DEF m, rs2, es2, n
<1>6. ASSUME NEW i \in 1 .. n, es2[i].level > 0
      PROVE  /\ 1 <= es2[i].first /\ es2[i].last < i
             /\ \A k \in SourcesIn(es2, i) : es2[k].consolidated
             /\ rs2[i].ids = UNION {rs2[k].ids : k \in SourcesIn(es2, i)}
  <2>1. es2[i].level = es[i].level /\ es2[i].first = es[i].first /\ es2[i].last = es[i].last
    BY <1>1, <1>4
  <2>2. /\ 1 <= es[i].first /\ es[i].last < i
        /\ \A k \in SourcesIn(es, i) : es[k].consolidated
        /\ rs[i].ids = UNION {rs[k].ids : k \in SourcesIn(es, i)}
    BY <1>2, <1>6, <2>1 DEF Traces, Sourced
  <2>3. SourcesIn(es2, i) = SourcesIn(es, i) /\ SourcesIn(es, i) \subseteq 1 .. n
    BY <1>5, <1>6, <2>1
  <2>4. \A k \in SourcesIn(es, i) : rs2[k] = rs[k] /\ es2[k].consolidated
    BY <1>1, <1>3, <1>4, <2>2, <2>3
  <2>5. UNION {rs2[k].ids : k \in SourcesIn(es, i)} = UNION {rs[k].ids : k \in SourcesIn(es, i)}
    BY <2>4
  <2> QED BY <1>3, <2>1, <2>2, <2>3, <2>4, <2>5
<1>7. ASSUME e.level > 0
      PROVE  /\ 1 <= e.first /\ e.last < n + 1
             /\ \A k \in SourcesIn(es2, n + 1) : es2[k].consolidated
             /\ rs2[n + 1].ids = UNION {rs2[k].ids : k \in SourcesIn(es2, n + 1)}
  <2>1. r.ids = UNION {rs[k].ids : k \in batch}
    BY <1>7 DEF Appendable, IndexEntry
  <2>2. \A k \in batch : es2[k].consolidated /\ rs2[k] = rs[k]
    BY <1>1, <1>3, <1>4, <1>5, <1>7
  <2>3. UNION {rs2[k].ids : k \in batch} = UNION {rs[k].ids : k \in batch}
    BY <2>2
  <2> QED BY <1>2, <1>3, <1>5, <1>7, <2>1, <2>2, <2>3
<1>8. Sourced(rs2, es2)
  <2> SUFFICES ASSUME NEW i \in 1 .. n + 1, es2[i].level > 0
               PROVE  /\ 1 <= es2[i].first /\ es2[i].last < i
                      /\ \A k \in SourcesIn(es2, i) : es2[k].consolidated
                      /\ rs2[i].ids = UNION {rs2[k].ids : k \in SourcesIn(es2, i)}
    BY <1>4 DEF Sourced
  <2>1. CASE i \in 1 .. n
    BY <1>6, <2>1
  <2>2. CASE i = n + 1
    BY <1>4, <1>7, <2>2
  <2> QED BY <1>2, <2>1, <2>2
<1>9. Packed(es2)
  <2> SUFFICES ASSUME NEW i \in 1 .. n + 1, NEW j \in 1 .. n + 1,
                      es2[i].level = es2[j].level, es2[i].consolidated, ~es2[j].consolidated
               PROVE  i < j
    BY <1>4 DEF Packed
  <2>1. i \in 1 .. n
    BY <1>2, <1>4 DEF Appendable
  <2>2. CASE j = n + 1
    BY <1>2, <2>1, <2>2
  <2>3. CASE j \in 1 .. n
    <3>1. /\ es[i].level = es[j].level
          /\ es[i].consolidated \/ i \in batch
          /\ ~es[j].consolidated /\ j \notin batch
      BY <1>1, <1>4, <2>1, <2>3
    <3>2. CASE es[i].consolidated
      BY <1>2, <2>1, <2>3, <3>1, <3>2 DEF Traces, Packed
    <3>3. CASE i \in batch
      BY <1>2, <2>3, <3>1, <3>3 DEF LiveAt, Appendable
    <3> QED BY <3>1, <3>2, <3>3
  <2> QED BY <1>2, <2>2, <2>3
<1>10. Traces(rs2, es2)
  BY <1>8, <1>9 DEF Traces
<1> QED BY <1>10 DEF rs2, es2, m

(***************************************************************************)
(* The memory of an open store: a record is appended to it or it stays as  *)
(* it is.                                                                  *)
(***************************************************************************)
\* The appended record takes its place in the order of the live records.
InPlace(r, e, batch) ==
  \A i \in DOMAIN entries : ~entries[i].consolidated /\ i \notin batch =>
    IF entries[i].level >= e.level
      THEN \A x \in records[i].ids, y \in r.ids : x < y
      ELSE \A x \in records[i].ids, y \in r.ids : y < x

LEMMA AppendMem ==
  ASSUME TypeInv, MemSafe, Up, Up',
         NEW m \in Nat, now <= m, NEW r \in Past(m),
         NEW e \in IndexEntry,
         NEW batch, \A k \in batch : k \in DOMAIN records => records[k].ids \subseteq r.ids,
         ~rebuilt /\ OwnNow => InPlace(r, e, batch),
         Appendable(records, entries, r, e, batch),
         AppendAtLevel(r, e, batch),
         acked' = acked, rebuilt' = rebuilt,
         pc' \in {"cascade", "flush"} =>
           \/ pending' \in r.ids
           \/ pc \in {"cascade", "flush"} /\ pending' = pending
  PROVE  MemSafe'
<1>1. /\ records \in Seq(Past(m)) /\ entries \in Seq(IndexEntry)
      /\ Len(entries) = Len(records)
  <2>1. now \in Nat /\ records \in Seq(Past(now))
        /\ entries \in Seq(IndexEntry) /\ Len(entries) = Len(records)
    BY UpFacts
  <2> QED BY <2>1, PastGrows
<1>2. /\ records' = Append(records, r)
      /\ entries' = Append(MarkConsolidated(entries, batch), e)
  BY DEF AppendAtLevel
<1>3. ~Fits' /\ pc' # "loaded"
  BY DEF Up, Fits
<1>4. Held(records') = Held(records) \cup r.ids
  BY <1>1, <1>2, HeldAppend
<1>5. CoveredNow'
  <2>1. Covers(records, entries)
    BY DEF MemSafe, CoveredNow
  <2>2. Covers(records', entries')
    BY <1>1, <1>2, <2>1, CoversAppend DEF Appendable
  <2> QED BY <1>3, <2>2 DEF CoveredNow
<1>6. KeptNow'
  BY <1>3, <1>4 DEF MemSafe, KeptNow
<1>7. OrderedNow'
  <2> SUFFICES ASSUME ~rebuilt, OwnNow PROVE InOrder(records', entries')
    <3>1. OwnNow' => OwnNow
      BY <1>4 DEF OwnNow
    <3> QED BY <1>3, <3>1 DEF OrderedNow
  <2>1. InOrder(records, entries)
    BY DEF MemSafe, OrderedNow
  <2> QED BY <1>1, <1>2, <2>1, OrderAppend DEF InPlace
<1>8. TracedNow'
  <2>1. Traces(records, entries)
    BY DEF MemSafe, TracedNow
  <2>2. Traces(records', entries')
    BY <1>1, <1>2, <2>1, TracesAppend DEF Pushed
  <2> QED BY <1>3, <2>2 DEF TracedNow
<1> QED BY <1>5, <1>6, <1>7, <1>8 DEF MemSafe

\* A process that goes on with the memory it had, or ends.
LEMMA StayMem ==
  ASSUME MemSafe, Up, rebuilt' = rebuilt,
         acked' \in {acked, acked \cup {pending}}, acked' # acked => pc = "flush",
         \/ Gone
         \/ /\ Up' /\ UNCHANGED <<records, entries>>
            /\ pc' \in {"cascade", "flush"} =>
                 pc \in {"cascade", "flush"} /\ pending' = pending
  PROVE  MemSafe'
<1>1. ~Fits' /\ pc' # "loaded"
  BY DEF Gone, Up, Fits
<1>2. CASE Gone
  <2>1. ~Up' /\ pc' = "down"
    BY <1>2 DEF Gone, Up
  <2> QED BY <1>1, <2>1 DEF MemSafe, CoveredNow, KeptNow, OrderedNow, TracedNow
<1>3. CASE ~Gone
  <2>1. acked' \subseteq Held(records)
    BY DEF MemSafe, KeptNow
  <2> QED BY <1>1, <1>3, <2>1 DEF MemSafe, CoveredNow, KeptNow, OrderedNow, TracedNow, OwnNow, Held
<1> QED BY <1>2, <1>3

\* A process that ends has no memory.
LEMMA GoneMem ==
  ASSUME Gone
  PROVE  MemSafe' /\ OwnNow'
<1>1. pc' = "down" /\ records' = <<>> /\ ~Up' /\ ~Fits' /\ Held(records') = {}
  BY DEF Gone, Up, Fits, Held
<1> QED BY <1>1 DEF MemSafe, CoveredNow, KeptNow, OrderedNow, TracedNow, OwnNow

\* leet_remember appends a memory younger than all there are.
LEMMA Remembers ==
  ASSUME TypeInv, Remember
  PROVE  /\ Up /\ Up' /\ now + 1 \in Nat /\ now <= now + 1
         /\ Memory(now + 1) \in Past(now + 1) /\ DefaultEntry \in IndexEntry
         /\ AppendAtLevel(Memory(now + 1), DefaultEntry, {})
         /\ OwnNow => InPlace(Memory(now + 1), DefaultEntry, {})
         /\ Appendable(records, entries, Memory(now + 1), DefaultEntry, {})
         /\ pending' \in Memory(now + 1).ids
         /\ Memory(now + 1).ids \subseteq 0 .. MaxNow
         /\ now' = now + 1 /\ UNCHANGED <<index, acked, rebuilt, misled>>
<1> DEFINE r == Memory(now + 1)
<1>1. /\ pc = "idle" /\ now' = now + 1 /\ pending' = now + 1 /\ now < MaxNow
      /\ AppendAtLevel(r, DefaultEntry, {})
      /\ pc' = "cascade" /\ UNCHANGED <<index, acked, rebuilt, misled>>
  BY DEF Remember, Serving, past
<1>2. Up /\ Up'
  BY <1>1 DEF Up
<1>3. now + 1 \in Nat /\ now <= now + 1 /\ now \in Nat /\ MaxNow \in Nat
  BY <1>2, UpFacts, StoreAssumption
<1>4. r \in Past(now + 1) /\ DefaultEntry \in IndexEntry
      /\ ~DefaultEntry.consolidated /\ DefaultEntry.level = 0
      /\ r.ids = {now + 1}
      /\ Appendable(records, entries, r, DefaultEntry, {})
  BY <1>3, MemoryShape DEF DefaultEntry, Memory, Appendable
<1>5. ASSUME OwnNow PROVE InPlace(r, DefaultEntry, {})
  <2>1. entries \in Seq(IndexEntry) /\ records \in Seq(Past(now))
        /\ Len(entries) = Len(records)
    BY <1>2, UpFacts
  <2>2. \A i \in 1 .. Len(records) : entries[i] \in IndexEntry /\ records[i] \in Past(now)
    BY <2>1, ElementOfSeq
  <2>3. DOMAIN entries = 1 .. Len(records) /\ DOMAIN records = 1 .. Len(records)
    BY <2>1, LenProperties
  <2>4. ASSUME NEW i \in 1 .. Len(records), NEW x \in records[i].ids
        PROVE  x < now + 1 /\ entries[i].level >= 0
    <3>1. records[i].ids \subseteq Held(records)
      BY <2>3 DEF Held
    <3>2. x \in 0 .. MaxNow
      BY <1>5, <2>4, <3>1 DEF OwnNow
    <3>3. x <= MaxNow
      BY <1>3, <3>2
    <3>4. x <= records[i].unix_ns /\ records[i].unix_ns \in 0 .. now
      BY <2>2, <2>4, <3>3 DEF Past
    <3>5. entries[i].level \in Nat
      BY <2>2 DEF IndexEntry
    <3> QED BY <1>3, <3>2, <3>4, <3>5
  <2>5. \A i \in 1 .. Len(records) : entries[i].level \in Nat
    BY <2>2 DEF IndexEntry
  <2> HIDE DEF r
  <2> QED BY <1>4, <2>3, <2>4, <2>5 DEF InPlace
<1>6. r.ids \subseteq 0 .. MaxNow
  BY <1>1, <1>3, <1>4
<1> QED BY <1>1, <1>2, <1>3, <1>4, <1>5, <1>6

\* A merge appends the summary of the oldest live records of a level: it takes
\* their place, above its level and between the older and the younger live ones.
LEMMA Merges ==
  ASSUME TypeInv, MemSafe, Consolidate \/ ForceMerge,
         NEW batch, batch = Batch(Threshold),
         NEW r, r = Blend(batch), NEW e, e = MergedEntry(batch, level)
  PROVE  /\ Up /\ Up' /\ now \in Nat /\ now <= now
         /\ r \in Past(now) /\ e \in IndexEntry /\ AppendAtLevel(r, e, batch)
         /\ batch \subseteq DOMAIN records /\ r.ids = UNION {records[k].ids : k \in batch}
         /\ \A k \in batch : k \in DOMAIN records => records[k].ids \subseteq r.ids
         /\ ~rebuilt /\ OwnNow => InPlace(r, e, batch)
         /\ Appendable(records, entries, r, e, batch)
         /\ pc' \in {"cascade", "flush"} => pc \in {"cascade", "flush"} /\ pending' = pending
         /\ now' = now /\ UNCHANGED <<index, acked, rebuilt, misled>>
<1>0. /\ Up /\ Up' /\ (Ripe \/ ForceRipe) /\ AppendAtLevel(r, e, batch)
      /\ pc' \in {"cascade", "flush"} => pc \in {"cascade", "flush"} /\ pending' = pending
      /\ now' = now /\ UNCHANGED <<index, acked, rebuilt, misled>>
  BY DEF Consolidate, ForceMerge, Up, past
<1>1. /\ batch \subseteq LiveAt(entries, level) /\ batch # {}
      /\ batch \subseteq DOMAIN records
      /\ \A i \in batch, j \in LiveAt(entries, level) \ batch : i < j
      /\ r \in Past(now) /\ e \in IndexEntry
  BY <1>0, RipeNotEmpty, BatchShape
<1>2. /\ now \in Nat /\ level \in Nat /\ entries \in Seq(IndexEntry)
      /\ DOMAIN entries = 1 .. Len(entries) /\ Len(entries) \in Nat
  BY <1>0, UpFacts, LenProperties
<1>3. \A i \in DOMAIN entries : entries[i].level \in Nat
  <2>1. \A i \in 1 .. Len(entries) : entries[i] \in IndexEntry
    BY <1>2, ElementOfSeq
  <2> QED BY <1>2, <2>1 DEF IndexEntry
<1>4. /\ ~e.consolidated /\ e.level = level + 1
      /\ e.first = Min(batch) /\ e.last = Max(batch)
      /\ r.ids = UNION {records[k].ids : k \in batch}
  BY DEF MergedEntry, Blend
<1>5. \A k \in batch : k \in DOMAIN entries /\ entries[k].level = level
                       /\ ~entries[k].consolidated
  BY <1>1 DEF LiveAt
<1>6. ASSUME ~rebuilt, OwnNow, NEW i \in DOMAIN entries, ~entries[i].consolidated,
             i \notin batch
      PROVE  IF entries[i].level >= e.level
               THEN \A x \in records[i].ids, y \in r.ids : x < y
               ELSE \A x \in records[i].ids, y \in r.ids : y < x
  <2>1. InOrder(records, entries)
    BY <1>0, <1>6 DEF MemSafe, OrderedNow
  <2>2. CASE entries[i].level >= e.level
    <3>1. \A k \in batch : entries[i].level > entries[k].level
      BY <1>2, <1>3, <1>4, <1>5, <2>2
    <3>2. \A k \in batch : \A x \in records[i].ids, y \in records[k].ids : x < y
      BY <1>5, <1>6, <2>1, <3>1 DEF InOrder
    <3> QED BY <1>4, <2>2, <3>2
  <2>3. CASE ~(entries[i].level >= e.level)
    <3>1. \A k \in batch : \/ entries[k].level > entries[i].level
                           \/ entries[k].level = entries[i].level /\ k < i
      <4>1. CASE entries[i].level = level
        BY <1>1, <1>5, <1>6, <4>1 DEF LiveAt
      <4>2. CASE entries[i].level # level
        BY <1>2, <1>3, <1>4, <1>5, <2>3, <4>2
      <4> QED BY <4>1, <4>2
    <3>2. \A k \in batch : \A x \in records[k].ids, y \in records[i].ids : x < y
      BY <1>5, <1>6, <2>1, <3>1 DEF InOrder
    <3> QED BY <1>4, <2>3, <3>2
  <2> QED BY <2>2, <2>3
<1>7. \A k \in batch : k \in DOMAIN records => records[k].ids \subseteq r.ids
  BY <1>4
<1>8. Appendable(records, entries, r, e, batch)
  BY <1>1, <1>2, <1>4 DEF Appendable
<1>9. ~rebuilt /\ OwnNow => InPlace(r, e, batch)
  BY <1>6 DEF InPlace
<1> QED BY <1>0, <1>1, <1>2, <1>4, <1>7, <1>8, <1>9

\* The steps that leave the memory as it is, or end the process.
LEMMA Stays ==
  ASSUME TypeInv,
         \/ RememberFails \/ ConsolidateFails \/ NothingToConsolidate \/ AppendFlush
         \/ AppendFlushFails \/ TouchRecall
         \/ ForceMergeFails \/ ForceFlush \/ ForceFlushFails \/ ForceNothing \/ Ending
  PROVE  /\ rebuilt' = rebuilt /\ misled' = misled
         /\ \/ Gone /\ acked' = acked
            \/ /\ Up /\ Up' /\ UNCHANGED <<records, entries>>
               /\ acked' \in {acked, acked \cup {pending}} /\ (acked' # acked => pc = "flush")
               /\ pc' \in {"cascade", "flush"} =>
                    pc \in {"cascade", "flush"} /\ pending' = pending
<1>1. CASE RememberFails \/ ConsolidateFails
  BY <1>1 DEF RememberFails, ConsolidateFails, AppendFails, Serving, past, Up
<1>2. CASE NothingToConsolidate \/ AppendFlush \/ AppendFlushFails \/ TouchRecall
  BY <1>2 DEF NothingToConsolidate, AppendFlush, AppendFlushFails, TouchRecall, Serving,
              past, mem, Up
<1>3. CASE ForceMergeFails \/ ForceFlushFails \/ Ending
  BY <1>3 DEF ForceMergeFails, ForceFlushFails, Ending, Exit, Crash, CrashInWrite, past
<1>4. CASE ForceFlush \/ ForceNothing
  BY <1>4 DEF ForceFlush, ForceNothing, NextLevel, past, mem, Up
<1> QED BY <1>1, <1>2, <1>3, <1>4

\* A loaded store gets its index, or an empty one.
LEMMA OpenedMem ==
  ASSUME TypeInv, MemSafe, OpenIndex \/ CreateFresh
  PROVE  MemSafe'
<1>0. records \in Seq(Past(now)) /\ Len(records) \in Nat
  BY LenProperties DEF TypeInv, Shape
<1>1. /\ pc = "loaded" /\ pc' \in {"idle", "force"} /\ Up' /\ ~Fits'
      /\ UNCHANGED <<records, acked>>
  BY DEF OpenIndex, CreateFresh, Start, Up, Fits, past
<1>2. KeptNow'
  BY <1>1 DEF MemSafe, KeptNow
<1>3. CASE OpenIndex
  <2>1. Fits /\ entries' = index.entries /\ rebuilt' = rebuilt
    BY <1>3 DEF OpenIndex, InSync, Fits, past
  <2> QED BY <1>1, <1>2, <2>1
         DEF MemSafe, CoveredNow, OrderedNow, TracedNow, OwnNow
<1>4. CASE CreateFresh
  <2>1. /\ entries' = [i \in DOMAIN records |-> DefaultEntry]
        /\ rebuilt' = (rebuilt \/ records # <<>>)
    BY <1>4 DEF CreateFresh
  <2>2. DOMAIN entries' = DOMAIN records
    BY <2>1
  <2>3. Covers(records, entries')
    BY <2>1, <2>2 DEF Covers, DefaultEntry
  <2>4. ~rebuilt' => InOrder(records, entries')
    <3>1. records = <<>> => DOMAIN records = {}
      BY <1>0, EmptySeq, LenProperties
    <3> QED BY <2>1, <2>2, <3>1 DEF InOrder
  <2>5. Traces(records, entries')
    <3>1. \A i \in DOMAIN entries' :
            ~entries'[i].consolidated /\ entries'[i].level = 0
      BY <2>1, <2>2 DEF DefaultEntry
    <3> QED BY <3>1 DEF Traces, Sourced, Packed
  <2> QED BY <1>1, <1>2, <2>3, <2>4, <2>5 DEF MemSafe, CoveredNow, OrderedNow, TracedNow
<1> QED BY <1>3, <1>4

\* The steps that load store.bin.
Loading == CreateEmpty \/ \E r \in Roles : LoadAll(r)

\* All the others keep what holds of the memory.
LEMMA NextMem ==
  ASSUME TypeInv, MemSafe, [Next]_vars, ~Loading
  PROVE  MemSafe' /\ misled' = misled
<1>1. CASE UNCHANGED vars
  BY <1>1 DEF vars, disk, mem, loop, past, MemSafe, CoveredNow, KeptNow, OrderedNow,
              TracedNow, Fits, OwnNow, Up
<1>2. CASE OpenCreate \/ RemoveIndex
  <2>1. ~Up' /\ ~Fits' /\ pc' \in {"creating", "removed"} /\ misled' = misled
    BY <1>2 DEF OpenCreate, RemoveIndex, Up, Fits, past
  <2> QED BY <2>1 DEF MemSafe, CoveredNow, KeptNow, OrderedNow, TracedNow
<1>3. CASE CreateEmptyFails \/ RefuseIndex \/ CreateFreshFails
           \/ \E r \in Roles : LoadAllFails(r)
  <2>1. Gone /\ misled' = misled
    BY <1>3 DEF CreateEmptyFails, RefuseIndex, CreateFreshFails, LoadAllFails, past
  <2> QED BY <2>1, GoneMem
<1>4. CASE OpenIndex \/ CreateFresh
  BY <1>4, OpenedMem DEF OpenIndex, CreateFresh, past
<1>5. CASE Remember
  BY <1>5, Remembers, AppendMem
<1>6. CASE Consolidate \/ ForceMerge
  <2> DEFINE batch == Batch(Threshold)
             r == Blend(batch)
             e == MergedEntry(batch, level)
  <2> HIDE DEF batch, r, e
  <2>1. batch = Batch(Threshold) /\ r = Blend(batch) /\ e = MergedEntry(batch, level)
    BY DEF batch, r, e
  <2> QED BY <1>6, <2>1, Merges, AppendMem
<1>7. CASE RememberFails \/ ConsolidateFails \/ NothingToConsolidate \/ AppendFlush
           \/ AppendFlushFails \/ TouchRecall
           \/ ForceMergeFails \/ ForceFlush \/ ForceFlushFails \/ ForceNothing \/ Ending
  <2>1. CASE Gone
    BY <1>7, <2>1, Stays, GoneMem
  <2>2. CASE ~Gone
    BY <1>7, <2>2, Stays, StayMem
  <2> QED BY <2>1, <2>2
<1> QED
  BY <1>1, <1>2, <1>3, <1>4, <1>5, <1>6, <1>7 DEF Next, Opening, Remembering, Forcing, Loading

(***************************************************************************)
(* The files of an intact store: a record reaches disk and memory, the     *)
(* disk alone or neither, the index is flushed, the store is opened.       *)
(***************************************************************************)
LEMMA AppendSafe ==
  ASSUME TypeInv, Safe, MemSafe', Intact', Up, Up',
         NEW m \in Nat, now <= m, NEW r \in Past(m),
         NEW e \in IndexEntry, NEW batch,
         AppendAtLevel(r, e, batch), index' = index, acked' = acked
  PROVE  Safe'
<1>1. /\ cells \in Seq(Chunks(m)) /\ records \in Seq(Past(m)) /\ r \in Chunks(m)
      /\ index.entries \in Seq(IndexEntry) /\ r # Corrupt
      /\ Len(cells) \in Nat /\ Len(records) \in Nat /\ Len(index.entries) \in Nat
  <2>1. now \in Nat /\ cells \in Seq(Chunks(now)) /\ records \in Seq(Past(now))
        /\ index.entries \in Seq(IndexEntry)
    BY UpFacts
  <2>2. r \in Chunks(m) /\ r # Corrupt
    BY PastIsRecord DEF Chunks
  <2> QED BY <2>1, <2>2, PastGrows, LenProperties
<1>2. cells' = Append(cells, r) /\ records' = Append(records, r)
  BY AppendShape DEF AppendAtLevel
<1>3. Len(cells') = Len(cells) + 1 /\ Len(records') = Len(records) + 1
  BY <1>1, <1>2, Appended
<1>4. /\ Len(index.entries) <= Len(cells) /\ Len(index.entries) <= Len(records)
      /\ Len(records) <= Len(cells)
      /\ Len(records) = Len(cells) => records = cells
      /\ Held(records) \subseteq Held(cells)
  BY DEF Safe, Aligned
<1>5. pc' \notin {"loaded", "creating", "down"}
  BY DEF Up
<1>6. ~InStep'
  BY <1>1, <1>3, <1>4 DEF InStep
<1>7. Held(cells') = Held(cells) \cup r.ids /\ Held(records') = Held(records) \cup r.ids
  BY <1>1, <1>2, HeldAppend
<1>8. Aligned'
  BY <1>1, <1>2, <1>3, <1>4, <1>5, <1>6, <1>7 DEF Aligned
<1>9. Clean'
  BY <1>1, <1>2, ToSetAppend DEF Safe, Clean
<1>10. Kept'
  BY <1>5, <1>7 DEF Safe, Kept
<1> QED BY <1>6, <1>8, <1>9, <1>10 DEF Safe, Covered, Ordered, Traced

\* The disk alone gains a record, or nothing does: the process goes on with
\* the memory it had, or ends.
LEMMA StaySafe ==
  ASSUME TypeInv, Safe, MemSafe', Up,
         NEW m \in Nat, now <= m, NEW r \in Past(m),
         cells' \in {cells, Append(cells, r)},
         index' = index, acked' = acked, rebuilt' = rebuilt,
         Gone \/ (Up' /\ UNCHANGED <<records, entries>>)
  PROVE  Safe'
<1>1. /\ cells \in Seq(Chunks(m)) /\ r \in Chunks(m) /\ Len(cells) \in Nat
      /\ Len(records) \in Nat /\ Len(index.entries) \in Nat /\ r # Corrupt
  <2>1. now \in Nat /\ cells \in Seq(Chunks(now)) /\ records \in Seq(Past(now))
        /\ index.entries \in Seq(IndexEntry)
    BY UpFacts
  <2>2. r \in Chunks(m) /\ r # Corrupt
    BY PastIsRecord DEF Chunks
  <2> QED BY <2>1, <2>2, PastGrows, LenProperties
<1>2. /\ Len(cells') >= Len(cells) /\ Len(cells') \in Nat
      /\ Len(cells') = Len(cells) => cells' = cells
      /\ Held(cells) \subseteq Held(cells')
      /\ Clean'
  <2>1. CASE cells' = cells
    BY <1>1, <2>1 DEF Safe, Clean
  <2>2. CASE cells' = Append(cells, r)
    <3>1. Len(cells') = Len(cells) + 1
      BY <1>1, <2>2, Appended
    <3>2. Held(cells') = Held(cells) \cup r.ids
      BY <1>1, <2>2, HeldAppend
    <3>3. ToSet(cells') = ToSet(cells) \cup {r}
      BY <1>1, <2>2, ToSetAppend
    <3> QED BY <1>1, <3>1, <3>2, <3>3 DEF Safe, Clean
  <2> QED BY <2>1, <2>2
<1>3. /\ Len(index.entries) <= Len(cells) /\ Len(index.entries) <= Len(records)
      /\ Len(records) <= Len(cells)
      /\ Len(records) = Len(cells) => records = cells
      /\ Held(records) \subseteq Held(cells)
  BY DEF Safe, Aligned
<1>4. /\ Gone => pc' = "down" /\ records' = <<>> /\ Held(records') = {}
      /\ Gone => ~Up'
      /\ ~Gone => Up' /\ records' = records
  BY DEF Gone, Up, Held
<1>5. /\ pc' # "loaded" /\ pc' # "creating"
      /\ pc' = "down" => records' = <<>>
  BY <1>4 DEF Up
<1>6. Own' => Own
  BY <1>2 DEF Own, Held
<1>7. InStep' => InStep /\ cells' = cells
  BY <1>1, <1>2, <1>3 DEF InStep
<1>8. Aligned'
  <2>1. Up /\ InStep => index.entries = entries
    BY DEF Safe, Aligned
  <2> QED BY <1>1, <1>2, <1>3, <1>4, <1>5, <1>7, <2>1 DEF Aligned
<1>9. Kept'
  BY <1>2, <1>5 DEF Safe, Kept
<1>10. Covered' /\ Ordered' /\ Traced'
  BY <1>6, <1>7 DEF Safe, Covered, Ordered, Traced
<1> QED BY <1>2, <1>8, <1>9, <1>10 DEF Safe

\* The index file takes the entries of the memory.
LEMMA FlushSafe ==
  ASSUME TypeInv, Safe, MemSafe', Up,
         cells' = cells, rebuilt' = rebuilt,
         index'.exists = TRUE, index'.entries = entries,
         acked' \in {acked, acked \cup {pending}}, acked' # acked => pc = "flush",
         Gone \/ (Up' /\ UNCHANGED <<records, entries>>)
  PROVE  Safe'
<1>1. Len(entries) = Len(records) /\ Len(entries) \in Nat /\ Len(cells) \in Nat
  BY UpFacts, LenProperties
<1>2. /\ Len(records) <= Len(cells)
      /\ Len(records) = Len(cells) => records = cells
      /\ Held(records) \subseteq Held(cells)
  BY DEF Safe, Aligned
<1>3. /\ Gone => pc' = "down" /\ records' = <<>> /\ Held(records') = {}
      /\ Gone => ~Up'
      /\ ~Gone => Up' /\ records' = records
  BY DEF Gone, Up, Held
<1>4. /\ pc' \notin {"loaded", "creating"}
      /\ pc' = "down" => records' = <<>>
  BY <1>3 DEF Up
<1>5. Aligned'
  BY <1>1, <1>2, <1>3, <1>4 DEF Aligned
<1>6. InStep' => records = cells
  BY <1>1, <1>2 DEF InStep
<1>7. Kept'
  <2>1. acked' \subseteq Held(cells)
    BY <1>2 DEF Safe, MemSafe, Kept, KeptNow
  <2> QED BY <1>4, <2>1 DEF Kept
<1>8. Clean'
  BY DEF Safe, Clean
<1>9. Covered'
  BY <1>6 DEF Safe, MemSafe, Covered, CoveredNow
<1>10. Ordered'
  BY <1>6 DEF Safe, MemSafe, Ordered, OrderedNow, Own, OwnNow, Held
<1>11. Traced'
  BY <1>6 DEF Safe, MemSafe, Traced, TracedNow
<1> QED BY <1>5, <1>7, <1>8, <1>9, <1>10, <1>11 DEF Safe

\* A process that ends without touching the files leaves them as safe.
LEMMA GoneSafe ==
  ASSUME Safe, Gone, UNCHANGED <<cells, index, acked, rebuilt>>
  PROVE  Safe'
<1>1. pc' = "down" /\ records' = <<>> /\ ~Up' /\ Held(records') = {}
  BY DEF Gone, Up, Held
<1>2. Aligned' /\ Clean' /\ Covered' /\ Kept' /\ Ordered' /\ Traced'
  BY <1>1 DEF Safe, Aligned, Clean, Covered, Kept, Ordered, Traced, InStep, Own
<1> QED BY <1>2, GoneMem DEF Safe

(***************************************************************************)
(* Every step keeps an intact store safe.                                  *)
(***************************************************************************)
LEMMA RememberingSafe ==
  ASSUME TypeInv, Safe, Intact', Remembering \/ TouchRecall
  PROVE  Safe'
<1>0. MemSafe /\ MemSafe'
  <2>1. ~Loading
    BY DEF Loading, Remembering, Remember, RememberFails, Consolidate, ConsolidateFails,
           NothingToConsolidate, AppendFlush, AppendFlushFails, TouchRecall, Serving,
           CreateEmpty, LoadAll, Open
  <2> QED BY <2>1, NextMem DEF Next, Safe
<1>1. CASE Remember
  BY <1>0, <1>1, Remembers, AppendSafe
<1>2. CASE RememberFails
  <2>1. /\ pc = "idle" /\ pc' = pc /\ now' = now + 1
        /\ Attempt(Memory(now + 1))
        /\ UNCHANGED <<records, entries, index, acked, rebuilt>>
    BY <1>2 DEF RememberFails, AppendFails, Attempt, Serving, past
  <2>2. Up /\ Up'
    BY <2>1 DEF Up
  <2>3. now + 1 \in Nat /\ now <= now + 1
    BY <2>2, UpFacts
  <2>4. Memory(now + 1) \in Past(now + 1)
    BY <2>3, MemoryShape
  <2>5. cells' \in {cells, Append(cells, Memory(now + 1))}
    BY <2>1, <2>2, <2>3, <2>4, FailedAppend
  <2> QED BY <1>0, <2>1, <2>2, <2>3, <2>4, <2>5, StaySafe
<1>3. CASE Consolidate
  <2> DEFINE batch == Batch(Threshold)
             r == Blend(batch)
             e == MergedEntry(batch, level)
  <2> HIDE DEF batch, r, e
  <2>1. batch = Batch(Threshold) /\ r = Blend(batch) /\ e = MergedEntry(batch, level)
    BY DEF batch, r, e
  <2> QED BY <1>0, <1>3, <2>1, Merges, AppendSafe
<1>4. CASE ConsolidateFails
  <2> DEFINE r == Blend(Batch(Threshold))
  <2>1. /\ pc = "cascade" /\ Ripe /\ pc' = "idle"
        /\ Attempt(r)
        /\ UNCHANGED <<records, entries, index, acked, rebuilt>>
    BY <1>4 DEF ConsolidateFails, AppendFails, Attempt, past
  <2>2. Up /\ Up'
    BY <2>1 DEF Up
  <2>3. r \in Past(now) /\ now \in Nat /\ now <= now
    BY <2>1, <2>2, UpFacts, RipeNotEmpty, BatchShape
  <2> HIDE DEF r
  <2>4. cells' \in {cells, Append(cells, r)}
    BY <2>1, <2>2, <2>3, FailedAppend
  <2> QED BY <1>0, <2>1, <2>2, <2>3, <2>4, StaySafe
<1>5. CASE NothingToConsolidate \/ AppendFlushFails
  <2>1. /\ pc \in {"cascade", "flush"} /\ pc' \in {"cascade", "flush", "idle"}
        /\ UNCHANGED <<cells, records, entries, index, acked, rebuilt>>
    BY <1>5 DEF NothingToConsolidate, AppendFlushFails, disk, mem, past
  <2>2. Up /\ Up'
    BY <2>1 DEF Up
  <2>3. now \in Nat /\ now <= now /\ Memory(now) \in Past(now)
    BY <2>2, UpFacts, MemoryShape
  <2> QED BY <1>0, <2>1, <2>2, <2>3, StaySafe
<1>6. CASE AppendFlush
  <2>1. /\ pc = "flush" /\ pc' = "idle" /\ index' = Flushed
        /\ acked' = acked \cup {pending}
        /\ UNCHANGED <<cells, records, entries, rebuilt>>
    BY <1>6 DEF AppendFlush, mem
  <2>2. Up /\ Up'
    BY <2>1 DEF Up
  <2>3. index'.exists = TRUE /\ index'.entries = entries
    BY <2>1 DEF Flushed
  <2> QED BY <1>0, <2>1, <2>2, <2>3, FlushSafe
<1>7. CASE TouchRecall
  <2>1. /\ pc = "idle" /\ pc' = pc
        /\ index' = [Flushed EXCEPT !.cursor = cursor'] \/ index' = index
        /\ UNCHANGED <<cells, records, entries, acked, rebuilt>>
    BY <1>7 DEF TouchRecall, Serving, past
  <2>2. Up /\ Up'
    BY <2>1 DEF Up
  <2>3. CASE index' = index
    <3>1. now \in Nat /\ now <= now /\ Memory(now) \in Past(now)
      BY <2>2, UpFacts, MemoryShape
    <3> QED BY <1>0, <2>1, <2>2, <2>3, <3>1, StaySafe
  <2>4. CASE index' = [Flushed EXCEPT !.cursor = cursor']
    <3>1. index'.exists = TRUE /\ index'.entries = entries
      BY <2>4 DEF Flushed
    <3> QED BY <1>0, <2>1, <2>2, <3>1, FlushSafe
  <2> QED BY <2>1, <2>3, <2>4
<1> QED BY <1>1, <1>2, <1>3, <1>4, <1>5, <1>6, <1>7 DEF Remembering

LEMMA ForcingSafe ==
  ASSUME TypeInv, Safe, Intact', Forcing
  PROVE  Safe'
<1>0. MemSafe /\ MemSafe'
  <2>1. ~Loading
    BY DEF Loading, Forcing, ForceMerge, ForceMergeFails, ForceFlush, ForceFlushFails,
           ForceNothing, CreateEmpty, LoadAll, Open
  <2> QED BY <2>1, NextMem DEF Next, Safe
<1>1. ASSUME NEW any, NextLevel(any), Up
      PROVE  Gone \/ (Up' /\ UNCHANGED <<records, entries>>)
  BY <1>1 DEF NextLevel, mem, Up
<1>2. CASE ForceMerge
  <2> DEFINE batch == Batch(Threshold)
             r == Blend(batch)
             e == MergedEntry(batch, level)
  <2> HIDE DEF batch, r, e
  <2>1. batch = Batch(Threshold) /\ r = Blend(batch) /\ e = MergedEntry(batch, level)
    BY DEF batch, r, e
  <2> QED BY <1>0, <1>2, <2>1, Merges, AppendSafe
<1>3. CASE ForceMergeFails
  <2> DEFINE r == Blend(Batch(Threshold))
  <2>1. /\ pc = "force" /\ ForceRipe
        /\ Attempt(r)
        /\ Gone
        /\ UNCHANGED <<index, acked, rebuilt>>
    BY <1>3 DEF ForceMergeFails, Attempt, past
  <2>2. Up
    BY <2>1 DEF Up
  <2>3. r \in Past(now) /\ now \in Nat /\ now <= now
    BY <2>1, <2>2, UpFacts, RipeNotEmpty, BatchShape
  <2> HIDE DEF r
  <2>4. cells' \in {cells, Append(cells, r)}
    BY <2>1, <2>2, <2>3, FailedAppend
  <2> QED BY <1>0, <2>1, <2>2, <2>3, <2>4, StaySafe
<1>4. CASE ForceFlush
  <2>1. /\ pc = "forceFlush" /\ index' = Flushed /\ NextLevel(TRUE)
        /\ UNCHANGED <<cells, acked, rebuilt>>
    BY <1>4 DEF ForceFlush, past
  <2>2. Up
    BY <2>1 DEF Up
  <2>3. index'.exists = TRUE /\ index'.entries = entries
    BY <2>1 DEF Flushed
  <2> QED BY <1>0, <1>1, <2>1, <2>2, <2>3, FlushSafe
<1>5. CASE ForceFlushFails \/ ForceNothing
  <2>1. /\ pc \in {"force", "forceFlush"}
        /\ Gone \/ NextLevel(force.any)
        /\ UNCHANGED <<cells, index, acked, rebuilt>>
    BY <1>5 DEF ForceFlushFails, ForceNothing, disk, past
  <2>2. Up
    BY <2>1 DEF Up
  <2>3. now \in Nat /\ now <= now /\ Memory(now) \in Past(now)
    BY <2>2, UpFacts, MemoryShape
  <2> QED BY <1>0, <1>1, <2>1, <2>2, <2>3, StaySafe
<1> QED BY <1>2, <1>3, <1>4, <1>5 DEF Forcing

LEMMA EndingSafe ==
  ASSUME TypeInv, Safe, Intact', Ending
  PROVE  Safe'
<1>1. CASE Exit \/ Crash
  BY <1>1, GoneSafe DEF Exit, Crash, disk, past
<1>2. CASE CrashInWrite
  <2>1. Gone /\ UNCHANGED <<index, acked, rebuilt>>
    BY <1>2 DEF CrashInWrite, past
  <2>2. cells' = cells
    BY <1>2, CrashedWrite, PartialWrite
  <2> QED BY <2>1, <2>2, GoneSafe
<1> QED BY <1>1, <1>2 DEF Ending

LEMMA OpeningSafe ==
  ASSUME TypeInv, Safe, Intact', Opening
  PROVE  Safe'
<1>0. /\ now \in Nat /\ cells \in Seq(Chunks(now)) /\ records \in Seq(Past(now))
      /\ index.entries \in Seq(IndexEntry) /\ acked \subseteq Nat
      /\ Len(cells) \in Nat /\ Len(records) \in Nat /\ Len(index.entries) \in Nat
  <2>1. /\ now \in Nat /\ cells \in Seq(Chunks(now)) /\ records \in Seq(Past(now))
        /\ index.entries \in Seq(IndexEntry) /\ acked \subseteq Nat
    BY DEF TypeInv, TypeOK, Shape
  <2> QED BY <2>1, LenProperties
<1>1. CASE OpenCreate
  <2>1. pc = "down" /\ pc' = "creating" /\ header = "absent" /\ spoiled' = spoiled
        /\ UNCHANGED <<cells, index, records, entries, acked, rebuilt>>
    BY <1>1 DEF OpenCreate, mem, past
  <2>2. ~Up' /\ records = <<>> /\ cells = <<>>
    BY <2>1 DEF Up, Safe, Aligned, TypeInv, Shape, Intact
  <2>3. acked = {}
    BY <2>2 DEF Safe, Kept, Held
  <2>4. MemSafe'
    <3>1. ~Loading
      BY <2>1 DEF Loading, CreateEmpty, LoadAll, Open
    <3> QED BY <3>1, NextMem DEF Next, Safe
  <2> QED BY <2>1, <2>2, <2>3, <2>4
         DEF Safe, Aligned, Clean, Covered, Kept, Ordered, Traced, InStep, Own
<1>2. CASE CreateEmpty
  <2>1. pc = "creating" /\ pc' = "loaded"
        /\ UNCHANGED <<cells, index, records, entries, acked, rebuilt>>
    BY <1>2 DEF CreateEmpty, mem
  <2>2. ~Up' /\ records = <<>> /\ acked = {} /\ Len(records) = 0
    BY <2>1 DEF Up, Safe, Aligned, Kept
  <2>3. Len(cells) = 0 => cells = <<>>
    BY <1>0, EmptySeq
  <2>4. Aligned'
    BY <1>0, <2>1, <2>2, <2>3 DEF Safe, Aligned
  <2>5. MemSafe'
    <3>1. DOMAIN records = {} /\ (Len(index.entries) = 0 => DOMAIN index.entries = {})
      BY <1>0, <2>2, LenProperties
    <3>2. Fits' => DOMAIN index.entries = {}
      BY <2>1, <2>2, <3>1 DEF Fits
    <3> QED BY <2>1, <2>2, <3>1, <3>2
           DEF MemSafe, CoveredNow, KeptNow, OrderedNow, TracedNow, Covers, InOrder, Traces,
               Sourced, Packed
  <2> QED BY <2>1, <2>2, <2>4, <2>5
         DEF Safe, Clean, Covered, Kept, Ordered, Traced, InStep, Own
<1>3. CASE CreateEmptyFails \/ RefuseIndex \/ CreateFreshFails
  <2>1. Gone /\ UNCHANGED <<cells, index, acked, rebuilt>>
    BY <1>3 DEF CreateEmptyFails, RefuseIndex, CreateFreshFails, disk, past
  <2> QED BY <2>1, GoneSafe
<1>4. CASE RemoveIndex
  <2>1. pc = "down" /\ pc' = "removed" /\ index' = NoIndex
        /\ UNCHANGED <<cells, records, acked, rebuilt>>
    BY <1>4 DEF RemoveIndex, mem, past
  <2>2. ~Up' /\ ~InStep' /\ Len(index'.entries) = 0
    BY <2>1 DEF Up, InStep, NoIndex
  <2>3. MemSafe'
    <3>1. ~Loading
      BY <1>4 DEF Loading, RemoveIndex, CreateEmpty, LoadAll
    <3> QED BY <3>1, NextMem DEF Next, Safe
  <2> QED BY <1>0, <2>1, <2>2, <2>3 DEF Safe, Aligned, Clean, Covered, Kept, Ordered, Traced
<1>5. ASSUME NEW r \in Roles, LoadAll(r)
      PROVE  Safe'
  <2>1. records' = Readable(cells) /\ pc' = "loaded" /\ UNCHANGED <<cells, index, acked, rebuilt>>
    BY <1>5 DEF LoadAll
  <2>2. records' = cells
    BY <1>0, <2>1, ReadableIs DEF Safe, Clean
  <2>3. ~Up' /\ (Fits' => InStep)
    BY <2>1, <2>2 DEF Up, Fits, InStep
  <2>4. MemSafe'
    BY <2>1, <2>2, <2>3 DEF Safe, Covered, Kept, Ordered, Traced,
       MemSafe, CoveredNow, KeptNow, OrderedNow, TracedNow, Own, OwnNow, Held
  <2> QED BY <1>0, <2>1, <2>2, <2>3, <2>4
         DEF Safe, Aligned, Clean, Covered, Kept, Ordered, Traced, InStep, Own
<1>6. ASSUME NEW r \in Roles, LoadAllFails(r)
      PROVE  Safe'
  BY <1>6, GoneSafe DEF LoadAllFails, disk, past
<1>7. CASE OpenIndex \/ CreateFresh
  <2>1. /\ pc = "loaded" /\ pc' \in {"idle", "force"} /\ Up'
        /\ UNCHANGED <<cells, records, acked>>
    BY <1>7 DEF OpenIndex, CreateFresh, Start, Up, disk, past
  <2>2. MemSafe'
    BY <1>7, OpenedMem DEF Safe
  <2>3. Len(records) <= Len(cells) /\ (Len(records) = Len(cells) => records = cells)
    BY <2>1 DEF Safe, Aligned
  <2>4. index'.entries = entries' /\ Len(entries') = Len(records)
    <3>1. CASE OpenIndex
      BY <3>1 DEF OpenIndex, InSync, disk
    <3>2. CASE CreateFresh
      <4>1. entries' = [i \in DOMAIN records |-> DefaultEntry] /\ index'.entries = entries'
        BY <3>2 DEF CreateFresh
      <4> QED BY <1>0, <4>1, LenProperties
    <3> QED BY <1>7, <3>1, <3>2
  <2>5. Aligned'
    BY <1>0, <2>1, <2>3, <2>4 DEF Safe, Aligned
  <2>6. InStep' => records = cells
    BY <2>1, <2>3, <2>4 DEF InStep
  <2>7. Clean' /\ Kept'
    BY <2>1 DEF Safe, Clean, Kept
  <2>8. Covered' /\ Ordered' /\ Traced'
    BY <2>1, <2>2, <2>4, <2>6 DEF Covered, Ordered, Traced, MemSafe, CoveredNow, OrderedNow,
       TracedNow, Own, OwnNow, Held
  <2> QED BY <2>2, <2>5, <2>7, <2>8 DEF Safe
<1> QED BY <1>1, <1>2, <1>3, <1>4, <1>5, <1>6, <1>7 DEF Opening

LEMMA InitSafe == Init => Safe
<1> SUFFICES ASSUME Init PROVE Safe
  OBVIOUS
<1>1. ~Up /\ ~InStep /\ ~Fits /\ Len(index.entries) = 0 /\ Len(cells) = 0
  BY DEF Init, Up, InStep, Fits, NoIndex
<1>2. MemSafe
  BY <1>1 DEF Init, MemSafe, CoveredNow, KeptNow, OrderedNow, TracedNow
<1> QED BY <1>1, <1>2 DEF Init, Safe, Aligned, Clean, Covered, Kept, Ordered, Traced, ToSet

LEMMA NextSafe ==
  ASSUME TypeInv, Safe, Intact', [Next]_vars
  PROVE  Safe'
<1>1. CASE UNCHANGED vars
  BY <1>1 DEF vars, disk, mem, loop, past, Safe, Aligned, Clean, Covered, Kept, Ordered, Traced,
              MemSafe, CoveredNow, KeptNow, OrderedNow, TracedNow, InStep, Fits, Own, OwnNow, Up
<1>2. CASE Next
  BY <1>2, OpeningSafe, RememberingSafe, ForcingSafe, EndingSafe DEF Next
<1> QED BY <1>1, <1>2

\* A store that is no longer intact stays so.
LEMMA WasIntact ==
  ASSUME TypeInv, [Next]_vars, Intact'
  PROVE  Intact
<1>1. ASSUME NEW r, WriteWhole(r) \/ WritePart(r) \/ AppendFails(r)
      PROVE  Intact
  BY <1>1 DEF WriteWhole, WritePart, AppendFails, Intact
<1>2. ASSUME NEW r, NEW e, NEW b, AppendAtLevel(r, e, b)
      PROVE  Intact
  BY <1>1, <1>2 DEF AppendAtLevel
<1>3. CASE UNCHANGED vars
  BY <1>3 DEF vars, disk, Intact
<1>4. CASE Opening
  BY <1>4 DEF Opening, OpenCreate, CreateEmpty, CreateEmptyFails, RemoveIndex, LoadAll,
              LoadAllFails, OpenIndex, RefuseIndex, CreateFresh, CreateFreshFails, disk, Intact
<1>5. CASE Remember \/ Consolidate \/ ForceMerge
  BY <1>2, <1>5 DEF Remember, Consolidate, ForceMerge
<1>6. CASE RememberFails \/ ConsolidateFails
  BY <1>1, <1>6 DEF RememberFails, ConsolidateFails
<1>7. CASE ForceMergeFails \/ CrashInWrite
  BY <1>1, <1>7 DEF ForceMergeFails, CrashInWrite
<1>8. CASE NothingToConsolidate \/ AppendFlush \/ AppendFlushFails \/ TouchRecall
            \/ ForceFlush \/ ForceFlushFails \/ ForceNothing \/ Exit \/ Crash
  BY <1>8 DEF NothingToConsolidate, AppendFlush, AppendFlushFails, TouchRecall,
               ForceFlush, ForceFlushFails, ForceNothing, Exit, Crash, disk, Intact
<1> QED
  BY <1>3, <1>4, <1>5, <1>6, <1>7, <1>8 DEF Next, Remembering, Forcing, Ending

(***************************************************************************)
(* While no other program writes to store.bin, neither it nor the memory   *)
(* of a program that was not misled holds anything but memories, and an    *)
(* intact one is loaded as it is.                                          *)
(***************************************************************************)
Alone ==
  /\ Own
  /\ pc = "loaded" => records = cells
  /\ pc = "creating" => cells = <<>>

LEMMA OwnAppend ==
  ASSUME TypeInv, Own, NEW m \in Nat, now <= m,
         NEW r \in Past(m), r.ids \subseteq 0 .. MaxNow,
         cells' \in {cells, Append(cells, r)}
  PROVE  Own'
<1>1. cells \in Seq(Chunks(m)) /\ r \in Chunks(m)
  BY ChunkAppend DEF Chunks
<1>2. Held(Append(cells, r)) = Held(cells) \cup r.ids
  BY <1>1, HeldAppend
<1>3. Held(cells') \subseteq 0 .. MaxNow
  <2>1. CASE cells' = cells
    BY <2>1 DEF Own
  <2>2. CASE cells' = Append(cells, r)
    BY <1>2, <2>2 DEF Own
  <2> QED BY <2>1, <2>2
<1> QED BY <1>3 DEF Own

\* A summary stands for memories only if its batch does.
LEMMA BlendOwn ==
  ASSUME TypeInv, OwnNow, Up, Ripe \/ ForceRipe
  PROVE  /\ Blend(Batch(Threshold)) \in Past(now)
         /\ Blend(Batch(Threshold)).ids \subseteq 0 .. MaxNow
<1> DEFINE batch == Batch(Threshold)
<1>1. batch \subseteq DOMAIN records /\ Blend(batch) \in Past(now)
  BY RipeNotEmpty, BatchShape
<1>2. \A i \in batch : records[i].ids \subseteq Held(records)
  BY <1>1 DEF Held
<1>3. Held(records) \subseteq 0 .. MaxNow
  BY DEF OwnNow
<1> QED BY <1>1, <1>2, <1>3 DEF Blend

LEMMA InitAlone == Init => Alone /\ OwnNow
<1> SUFFICES ASSUME Init PROVE Alone /\ OwnNow
  OBVIOUS
<1>1. Held(cells) = {} /\ Held(records) = {}
  BY DEF Init, Held
<1> QED BY <1>1 DEF Init, Alone, Own, OwnNow

LEMMA OpeningAlone ==
  ASSUME TypeInv, Safe, Alone, Intact, Opening
  PROVE  Alone'
<1>1. cells' = cells
  BY DEF Opening, OpenCreate, CreateEmpty, CreateEmptyFails, RemoveIndex, LoadAll,
         LoadAllFails, OpenIndex, RefuseIndex, CreateFresh, CreateFreshFails, disk
<1>2. pc' = "loaded" => CreateEmpty \/ \E r \in Roles : LoadAll(r)
  BY DEF Opening, OpenCreate, CreateEmptyFails, RemoveIndex, Gone, Start,
         LoadAllFails, OpenIndex, RefuseIndex, CreateFresh, CreateFreshFails
<1>3. pc' = "creating" => OpenCreate
  BY DEF Opening, CreateEmpty, LoadAll, CreateEmptyFails, RemoveIndex, Gone, Start,
         LoadAllFails, OpenIndex, RefuseIndex, CreateFresh, CreateFreshFails
<1>4. OpenCreate => cells = <<>>
  BY DEF OpenCreate, TypeInv, Shape
<1>5. CreateEmpty => records' = cells'
  BY DEF CreateEmpty, Safe, Aligned, Alone, mem
<1>6. ASSUME NEW r \in Roles, LoadAll(r) PROVE records' = cells'
  <2>1. records' = Readable(cells) /\ cells' = cells
    BY <1>6 DEF LoadAll
  <2>2. cells \in Seq(Chunks(now)) /\ now \in Nat
    BY DEF TypeInv, TypeOK, Shape
  <2> QED BY <2>1, <2>2, ReadableIs DEF Safe, Clean
<1> QED BY <1>1, <1>2, <1>3, <1>4, <1>5, <1>6 DEF Alone, Own

LEMMA NextAlone ==
  ASSUME TypeInv, Safe, Alone, OwnNow, Intact', [Next]_vars
  PROVE  Alone'
<1>0. now \in Nat /\ MaxNow \in Nat /\ Own
  BY StoreAssumption DEF TypeInv, TypeOK, Alone
<1>1. CASE UNCHANGED vars
  BY <1>1 DEF vars, disk, mem, Alone, Own
<1>2. CASE Opening
  BY <1>2, OpeningAlone, WasIntact DEF Next
<1>3. CASE Remember \/ RememberFails
  <2>1. /\ pc = "idle" /\ now < MaxNow /\ pc' \in {"idle", "cascade"}
        /\ \/ AppendAtLevel(Memory(now + 1), DefaultEntry, {})
           \/ Attempt(Memory(now + 1))
    BY <1>3 DEF Remember, RememberFails, AppendFails, Attempt, Serving
  <2>2. now + 1 \in Nat /\ now <= now + 1 /\ Up
    BY <1>0, <2>1 DEF Up
  <2>3. Memory(now + 1) \in Past(now + 1) /\ DefaultEntry \in IndexEntry
        /\ Memory(now + 1).ids \subseteq 0 .. MaxNow
    BY <1>0, <2>1, MemoryShape DEF Memory
  <2>4. cells' \in {cells, Append(cells, Memory(now + 1))}
    BY <2>1, <2>2, <2>3, AppendShape, FailedAppend
  <2>5. Own'
    BY <1>0, <2>2, <2>3, <2>4, OwnAppend
  <2> QED BY <2>1, <2>5 DEF Alone
<1>4. CASE Consolidate \/ ConsolidateFails \/ ForceMerge \/ ForceMergeFails
  <2> DEFINE r == Blend(Batch(Threshold))
             e == MergedEntry(Batch(Threshold), level)
  <2>1. /\ Up /\ (Ripe \/ ForceRipe) /\ pc' \notin {"loaded", "creating"}
        /\ AppendAtLevel(r, e, Batch(Threshold)) \/ Attempt(r)
    BY <1>4 DEF Consolidate, ConsolidateFails, ForceMerge, ForceMergeFails,
                AppendFails, Attempt, Gone, Up
  <2>2. now <= now /\ r \in Past(now) /\ r.ids \subseteq 0 .. MaxNow
    BY <1>0, <2>1, BlendOwn
  <2>3. e \in IndexEntry
    BY <2>1, RipeNotEmpty, BatchShape
  <2> HIDE DEF r, e
  <2>4. cells' \in {cells, Append(cells, r)}
    BY <1>0, <2>1, <2>2, <2>3, AppendShape, FailedAppend
  <2>5. Own'
    BY <1>0, <2>2, <2>4, OwnAppend
  <2> QED BY <2>1, <2>5 DEF Alone
<1>5. CASE NothingToConsolidate \/ AppendFlush \/ AppendFlushFails \/ TouchRecall
           \/ ForceFlush \/ ForceFlushFails \/ ForceNothing \/ Exit \/ Crash
  <2>1. cells' = cells /\ pc' \notin {"loaded", "creating"}
    BY <1>5 DEF NothingToConsolidate, AppendFlush, AppendFlushFails, TouchRecall, Serving,
                ForceFlush, ForceFlushFails, ForceNothing, NextLevel, Exit, Crash, disk, Gone
  <2> QED BY <1>0, <2>1 DEF Alone, Own
<1>6. CASE CrashInWrite
  <2>1. pc' = "down"
    BY <1>6 DEF CrashInWrite, Gone
  <2>2. cells' = cells
    BY <1>6, CrashedWrite, PartialWrite
  <2> QED BY <1>0, <2>1, <2>2 DEF Alone, Own
<1> QED
  BY <1>1, <1>2, <1>3, <1>4, <1>5, <1>6 DEF Next, Remembering, Forcing, Ending

\* Nor does a program append anything but memories to its own memory.
LEMMA NextOwnNow ==
  ASSUME TypeInv, MemSafe, OwnNow, [Next]_vars, ~Loading
  PROVE  OwnNow'
<1>1. CASE UNCHANGED vars \/ OpenCreate \/ RemoveIndex \/ OpenIndex \/ CreateFresh
  BY <1>1 DEF vars, mem, OpenCreate, RemoveIndex, OpenIndex, CreateFresh, OwnNow, Held
<1>2. CASE CreateEmptyFails \/ RefuseIndex \/ CreateFreshFails
           \/ \E r \in Roles : LoadAllFails(r)
  BY <1>2, GoneMem DEF CreateEmptyFails, RefuseIndex, CreateFreshFails, LoadAllFails
<1>3. ASSUME NEW m \in Nat, now <= m, NEW r \in Past(m), NEW e, NEW batch, Up,
             r.ids \subseteq 0 .. MaxNow, AppendAtLevel(r, e, batch)
      PROVE  OwnNow'
  <2>1. records \in Seq(Past(m)) /\ records' = Append(records, r)
    BY <1>3, UpFacts, PastGrows DEF AppendAtLevel
  <2>2. Held(records') = Held(records) \cup r.ids
    BY <2>1, HeldAppend
  <2> QED BY <1>3, <2>2 DEF OwnNow
<1>4. CASE Remember
  BY <1>3, <1>4, Remembers
<1>5. CASE Consolidate \/ ForceMerge
  <2> DEFINE batch == Batch(Threshold)
             r == Blend(batch)
             e == MergedEntry(batch, level)
  <2>1. r.ids \subseteq 0 .. MaxNow
    BY <1>5, BlendOwn DEF Consolidate, ForceMerge, Up
  <2> HIDE DEF batch, r, e
  <2>2. batch = Batch(Threshold) /\ r = Blend(batch) /\ e = MergedEntry(batch, level)
    BY DEF batch, r, e
  <2>3. Up /\ now \in Nat /\ now <= now /\ r \in Past(now) /\ AppendAtLevel(r, e, batch)
    BY <1>5, <2>2, Merges
  <2> QED BY <1>3, <2>1, <2>3
<1>6. CASE RememberFails \/ ConsolidateFails \/ NothingToConsolidate \/ AppendFlush
           \/ AppendFlushFails \/ TouchRecall
           \/ ForceMergeFails \/ ForceFlush \/ ForceFlushFails \/ ForceNothing \/ Ending
  <2>1. CASE Gone
    BY <2>1, GoneMem
  <2>2. CASE ~Gone
    <3>1. records' = records
      BY <1>6, <2>2, Stays
    <3> QED BY <3>1 DEF OwnNow, Held
  <2> QED BY <2>1, <2>2
<1> QED
  BY <1>1, <1>2, <1>4, <1>5, <1>6 DEF Next, Opening, Remembering, Forcing, Loading

(***************************************************************************)
(* The inductive invariant.                                                *)
(***************************************************************************)
StoreInv ==
  /\ TypeInv
  /\ ~misled => MemSafe /\ OwnNow
  /\ Intact => Safe /\ Alone

LEMMA InitStoreInv == Init => StoreInv
BY InitTypeInv, InitSafe, InitAlone DEF StoreInv, Safe

\* A store that is loaded intact misleads nobody.
LEMMA Loads ==
  ASSUME TypeInv, Loading
  PROVE  spoiled' = spoiled /\ misled' = spoiled /\ pc' = "loaded"
BY DEF Loading, CreateEmpty, LoadAll

\* Whether a process was misled is settled when it loads the store.
LEMMA OthersMislead ==
  ASSUME [Next]_vars, ~Loading
  PROVE  misled' = misled
BY DEF vars, past, Next, Opening, OpenCreate, CreateEmptyFails, RemoveIndex,
       LoadAllFails, OpenIndex, RefuseIndex, CreateFresh, CreateFreshFails, Remembering,
       Remember, RememberFails, Consolidate, ConsolidateFails, NothingToConsolidate,
       AppendFlush, AppendFlushFails, TouchRecall, Forcing, ForceMerge, ForceMergeFails,
       ForceFlush, ForceFlushFails, ForceNothing, Ending, Exit, Crash, CrashInWrite, Loading

LEMMA NextStoreInv ==
  ASSUME StoreInv, [Next]_vars
  PROVE  StoreInv'
<1>1. TypeInv /\ TypeInv'
  BY NextTypeInv DEF StoreInv
<1>2. ASSUME Intact' PROVE Safe' /\ Alone'
  <2>1. Intact
    BY <1>1, <1>2, WasIntact
  <2>2. ~misled
    BY <1>1, <2>1 DEF TypeInv, Shape, Intact
  <2> QED BY <1>1, <1>2, <2>1, <2>2, NextSafe, NextAlone DEF StoreInv
<1>3. ASSUME ~misled' PROVE MemSafe' /\ OwnNow'
  <2>1. CASE Loading
    <3>1. Intact' /\ pc' = "loaded"
      BY <1>1, <1>3, <2>1, Loads DEF Intact
    <3>2. Safe' /\ Alone'
      BY <1>2, <3>1
    <3> QED BY <3>1, <3>2 DEF Safe, Alone, Own, OwnNow, Held
  <2>2. CASE ~Loading
    <3>1. ~misled
      BY <1>3, <2>2, OthersMislead
    <3> QED BY <1>1, <2>2, <3>1, NextMem, NextOwnNow DEF StoreInv
  <2> QED BY <2>1, <2>2
<1> QED BY <1>1, <1>2, <1>3 DEF StoreInv

LEMMA StoreInvariance == Spec => []StoreInv
BY InitStoreInv, NextStoreInv, PTL DEF Spec

(***************************************************************************)
(* A process that writes whole records leaves the store intact.            *)
(***************************************************************************)
\* Part of a record is only there while no process has loaded the store.
Trimmed ==
  /\ pc \notin {"down", "removed"} => torn = NoTail
  /\ header = "absent" => torn = NoTail

LEMMA WholeWrites ==
  ASSUME TypeInv, Trimmed, Intact, "write" \notin Faults, [Next]_vars
  PROVE  Intact' /\ Trimmed'
<1> USE DEF Trimmed, Intact
<1>0. ASSUME NEW r, WriteWhole(r), torn = NoTail
      PROVE  ~spoiled' /\ torn' = NoTail
  BY <1>0 DEF WriteWhole, Rest
<1>1. CASE UNCHANGED vars
  BY <1>1 DEF vars, disk
<1>2. CASE Opening
  BY <1>2 DEF Opening, OpenCreate, CreateEmpty, CreateEmptyFails, RemoveIndex,
       LoadAll, LoadAllFails, OpenIndex, RefuseIndex, CreateFresh, CreateFreshFails, disk,
       Gone
<1>3. CASE Remember \/ RememberFails
  <2>1. torn = NoTail /\ WriteWhole(Memory(now + 1))
    BY <1>3 DEF Remember, RememberFails, AppendAtLevel, AppendFails, Serving
  <2> QED BY <1>0, <2>1
<1>4. CASE Consolidate \/ ConsolidateFails \/ ForceMerge \/ ForceMergeFails
  <2>1. torn = NoTail /\ WriteWhole(Blend(Batch(Threshold)))
    BY <1>4 DEF Consolidate, ConsolidateFails, ForceMerge, ForceMergeFails,
                AppendAtLevel, AppendFails
  <2> QED BY <1>0, <2>1
<1>5. CASE NothingToConsolidate \/ AppendFlush \/ AppendFlushFails \/ TouchRecall
           \/ ForceFlush \/ ForceFlushFails \/ ForceNothing \/ Exit \/ Crash
  BY <1>5 DEF NothingToConsolidate, AppendFlush, AppendFlushFails, TouchRecall, Serving,
                ForceFlush, ForceFlushFails, ForceNothing, NextLevel, Exit, Crash, disk, Gone
<1>6. CASE CrashInWrite
  BY <1>6 DEF CrashInWrite, WritePart, Serving, Gone, TypeInv, Shape, Up
<1> QED
  BY <1>1, <1>2, <1>3, <1>4, <1>5, <1>6 DEF Next, Remembering, Forcing, Ending

LEMMA StaysIntact ==
  ASSUME "write" \notin Faults
  PROVE  Spec => []Intact
<1>1. Init => TypeInv /\ Trimmed /\ Intact
  BY InitTypeInv DEF Init, Trimmed, Intact
<1>2. TypeInv /\ Trimmed /\ Intact /\ [Next]_vars => Intact' /\ Trimmed'
  BY WholeWrites
<1>3. TypeInv /\ [Next]_vars => TypeInv'
  BY NextTypeInv
<1> QED BY <1>1, <1>2, <1>3, PTL DEF Spec

(***************************************************************************)
(* The invariants the runs check.                                          *)
(***************************************************************************)
LEMMA SafeShows ==
  ASSUME TypeInv, ~misled => MemSafe
  PROVE  NothingHidden /\ AckedRecallable /\ ProvenanceSound
<1>1. NothingHidden
  BY DEF MemSafe, CoveredNow, Covers, NothingHidden, Live, Trusted
<1>2. AckedRecallable
  <2> SUFFICES ASSUME ~misled, Up, NEW id \in acked
               PROVE  \E j \in Live : id \in records[j].ids
    BY DEF AckedRecallable, Trusted
  <2>1. PICK i \in DOMAIN records : id \in records[i].ids
    BY DEF MemSafe, KeptNow, Held
  <2> QED BY <2>1 DEF MemSafe, CoveredNow, Covers, Live
<1>3. ProvenanceSound
  BY DEF MemSafe, TracedNow, Traces, Sourced, SourcesIn, ProvenanceSound, Merged, Sources, Trusted
<1> QED BY <1>1, <1>2, <1>3

LEMMA AloneShows ==
  ASSUME StoreInv
  PROVE  Chronological /\ DeltaComplete
<1>1. Chronological
  BY DEF StoreInv, MemSafe, OrderedNow, InOrder, Chronological, Live, Older, Trusted
<1>2. DeltaComplete
  <2> SUFFICES ASSUME ~misled, Up, NEW i \in DOMAIN records, NEW id \in records[i].ids,
                      id > cursor
               PROVE  \E j \in LiveRecordsAfter(cursor) : id \in records[j].ids
    BY DEF DeltaComplete, Trusted
  <2>1. TypeInv /\ MemSafe /\ OwnNow
    BY DEF StoreInv
  <2>2. PICK j \in DOMAIN entries : ~entries[j].consolidated /\ id \in records[j].ids
    BY <2>1 DEF MemSafe, CoveredNow, Covers
  <2>3. /\ records \in Seq(Past(now)) /\ entries \in Seq(IndexEntry)
        /\ Len(entries) = Len(records) /\ now \in Nat /\ cursor \in Nat
    BY <2>1, UpFacts
  <2>4. j \in DOMAIN records /\ records[j] \in Past(now)
    BY <2>2, <2>3, ElementOfSeq, LenProperties
  <2>5. id \in 0 .. MaxNow
    BY <2>1, <2>2, <2>4 DEF OwnNow, Held
  <2>6. id <= records[j].unix_ns /\ records[j].unix_ns \in 0 .. now
    BY <2>2, <2>4, <2>5, StoreAssumption DEF Past
  <2>7. records[j].unix_ns > cursor
    BY <2>3, <2>5, <2>6
  <2> QED BY <2>2, <2>7 DEF LiveRecordsAfter, Live
<1> QED BY <1>1, <1>2

LEMMA SafeImplies ==
  StoreInv => /\ NothingHidden /\ AckedRecallable /\ Chronological
              /\ DeltaComplete /\ ProvenanceSound
BY SafeShows, AloneShows DEF StoreInv

\* The state is well formed after every history, those that ruin store.bin
\* included: an open store has an index entry for each record that load_all
\* found, no record carries a time that has not come, a file without its header
\* holds nothing unless it was spoiled, and so was one that misled a process.
THEOREM TypeCorrect == Spec => [](TypeOK /\ Shape)
<1>1. StoreInv => TypeOK /\ Shape
  BY DEF StoreInv, TypeInv
<1> QED BY <1>1, StoreInvariance, PTL

\* Nothing a process goes through that loaded an intact store - merges, crashes
\* between any two steps and inside a write, failed writes, fsyncs and flushes,
\* rebuilds of the index - hides a memory of a record in memory, not even writing
\* behind a part of a record.
THEOREM NothingIsHidden == Spec => []NothingHidden
BY StoreInvariance, SafeImplies, PTL

\* Nor does it lose a memory whose leet_remember was answered: as long as store.bin
\* was intact when it was loaded, every such memory, of this process or an earlier
\* one, can be recalled.
THEOREM MemoryKept == Spec => []AckedRecallable
BY StoreInvariance, SafeImplies, PTL

\* Nor lets it a merge leave an older memory behind a newer one at the same
\* level, unless the index was rebuilt.
THEOREM MergesKeepOrder == Spec => []Chronological
BY StoreInvariance, SafeImplies, PTL

\* The range of a merged entry holds exactly its batch, whatever was merged,
\* forced or rebuilt before.
THEOREM RangesAreExact == Spec => []ProvenanceSound
BY StoreInvariance, SafeImplies, PTL

\* leet_recall_delta reports every memory made after the cursor: a summary is as
\* young as the youngest of its batch.
THEOREM DeltaMissesNothing == Spec => []DeltaComplete
BY StoreInvariance, SafeImplies, PTL

-----------------------------------------------------------------------------
(***************************************************************************)
(* What the store promises if nothing fails, for every threshold, number   *)
(* of levels, number of passes and set of programs: a store opens again,   *)
(* the pyramid stays below a full batch, `force` finishes its work.        *)
(***************************************************************************)

(***************************************************************************)
(* A store that was closed opens again.                                    *)
(***************************************************************************)
\* Memory and file have the same records, and but for the middle of a call the
\* index file has an entry for each.
Closed ==
  /\ Up => Len(records) = Len(cells)
  /\ pc \notin {"cascade", "flush", "forceFlush"} =>
       (index.exists => Len(index.entries) = Len(cells))

LEMMA AppendClosed ==
  ASSUME TypeInv, Intact', Up, Closed, NEW m \in Nat, now <= m,
         NEW r \in Past(m), NEW e \in IndexEntry, NEW batch, AppendAtLevel(r, e, batch),
         pc' \in {"cascade", "flush", "forceFlush"}
  PROVE  Closed'
<1>1. cells' = Append(cells, r) /\ records' = Append(records, r)
  BY AppendShape DEF AppendAtLevel
<1>2. cells \in Seq(Chunks(m)) /\ records \in Seq(Past(m)) /\ r \in Chunks(m)
  <2>1. now \in Nat /\ cells \in Seq(Chunks(now)) /\ records \in Seq(Past(now))
    BY UpFacts
  <2>2. r \in Chunks(m)
    BY DEF Chunks
  <2> QED BY <2>1, <2>2, PastGrows
<1>3. Len(cells') = Len(cells) + 1 /\ Len(records') = Len(records) + 1
  BY <1>1, <1>2, Appended
<1> QED BY <1>3 DEF Closed

LEMMA ClosedNext ==
  ASSUME Faults = {}, TypeInv, Safe, Alone, Intact', Closed, [Next]_vars
  PROVE  Closed'
<1> USE DEF Closed
<1>1. CASE UNCHANGED vars
  BY <1>1 DEF vars, disk, mem, Up
<1>2. CASE OpenCreate \/ CreateEmpty \/ CreateEmptyFails \/ RemoveIndex
           \/ (\E r \in Roles : LoadAll(r) \/ LoadAllFails(r))
           \/ RefuseIndex \/ CreateFreshFails
  <2>1. /\ ~Up' /\ cells' = cells
        /\ index' = index \/ ~index'.exists
        /\ pc \in {"down", "creating", "removed", "loaded"}
    BY <1>2 DEF OpenCreate, CreateEmpty, CreateEmptyFails, RemoveIndex, LoadAll,
                LoadAllFails, Open, RefuseIndex, CreateFreshFails, NoIndex, Gone, disk, Up
  <2> QED BY <2>1
<1>3. CASE OpenIndex \/ CreateFresh
  <2>1. pc = "loaded" /\ records = cells /\ UNCHANGED <<cells, records>>
    BY <1>3 DEF OpenIndex, CreateFresh, disk, Alone
  <2>2. CASE OpenIndex
    BY <2>1, <2>2 DEF OpenIndex, disk
  <2>3. CASE CreateFresh
    <3>1. index'.entries = [i \in DOMAIN records |-> DefaultEntry]
      BY <2>3 DEF CreateFresh
    <3>2. DOMAIN records = 1 .. Len(records) /\ Len(records) \in Nat
      BY LenProperties DEF TypeInv, TypeOK
    <3>3. Len(index'.entries) = Len(records)
      BY <3>1, <3>2
    <3> QED BY <2>1, <3>3
  <2> QED BY <1>3, <2>2, <2>3
<1>4. CASE Remember
  <2>1. pc = "idle" /\ now' = now + 1 /\ pc' = "cascade"
        /\ AppendAtLevel(Memory(now + 1), DefaultEntry, {})
    BY <1>4 DEF Remember, Serving
  <2>2. Up /\ now + 1 \in Nat /\ now <= now + 1
    BY <2>1, UpFacts DEF Up
  <2> QED BY <2>1, <2>2, MemoryShape, AppendClosed
<1>5. CASE Consolidate \/ ForceMerge
  <2>1. /\ Up /\ (Ripe \/ ForceRipe) /\ pc' \in {"cascade", "flush", "forceFlush"}
        /\ AppendAtLevel(Blend(Batch(Threshold)), MergedEntry(Batch(Threshold), level),
                         Batch(Threshold))
    BY <1>5 DEF Consolidate, ForceMerge, Up
  <2>2. /\ Blend(Batch(Threshold)) \in Past(now) /\ now \in Nat /\ now <= now
        /\ MergedEntry(Batch(Threshold), level) \in IndexEntry
    BY <2>1, UpFacts, RipeNotEmpty, BatchShape
  <2> QED BY <2>1, <2>2, AppendClosed
<1>6. CASE AppendFlush \/ ForceFlush
  <2>1. /\ Up /\ cells' = cells /\ index'.entries = entries
        /\ ~Up' \/ records' = records
    BY <1>6 DEF AppendFlush, ForceFlush, Flushed, NextLevel, Gone, mem, Up
  <2> QED BY <2>1, UpFacts
<1>7. CASE TouchRecall
  <2>1. /\ Up /\ UNCHANGED <<pc, cells, records>>
        /\ index'.entries = entries
    BY <1>7 DEF TouchRecall, Serving, Flushed, Up
  <2> QED BY <2>1, UpFacts DEF Up
<1>8. CASE NothingToConsolidate
  BY <1>8 DEF NothingToConsolidate, disk, mem, Up
<1>9. CASE ForceNothing \/ Exit
  <2>1. /\ pc \in {"force", "idle"} /\ UNCHANGED <<cells, index>>
        /\ ~Up' \/ records' = records
    BY <1>9 DEF ForceNothing, Exit, NextLevel, Gone, disk, mem, Up
  <2> QED BY <2>1 DEF Up
<1>10. ~(RememberFails \/ ConsolidateFails \/ AppendFlushFails \/ ForceMergeFails
         \/ ForceFlushFails \/ Crash \/ CrashInWrite)
  BY DEF RememberFails, ConsolidateFails, AppendFlushFails, ForceMergeFails,
         ForceFlushFails, Crash, CrashInWrite, AppendFails
<1> QED
  BY <1>1, <1>2, <1>3, <1>4, <1>5, <1>6, <1>7, <1>8, <1>9, <1>10
     DEF Next, Opening, Remembering, Forcing, Ending

LEMMA ClosedInvariance ==
  ASSUME Faults = {}
  PROVE  Spec => [](StoreInv /\ Intact /\ Closed)
<1>1. Init => Closed
  <2> SUFFICES ASSUME Init PROVE Closed
    OBVIOUS
  <2> QED BY DEF Init, Closed, Up, NoIndex
<1>2. StoreInv /\ Closed /\ Intact /\ Intact' /\ [Next]_vars => Closed'
  BY ClosedNext DEF StoreInv
<1>3. Spec => []Intact
  BY StaysIntact
<1> QED BY <1>1, <1>2, <1>3, StoreInvariance, PTL DEF Spec

\* A store that was closed after any history without failures opens again: the
\* index has an entry for every record.
THEOREM ReopensAlways ==
  ASSUME Faults = {}
  PROVE  Spec => []AlwaysOpens
<1>1. StoreInv /\ Intact /\ Closed => AlwaysOpens
  BY DEF StoreInv, Alone, Closed, AlwaysOpens, InSync
<1> QED BY <1>1, ClosedInvariance, PTL

\* The live records of a level, as a finite set.
LEMMA LiveFinite ==
  ASSUME NEW es \in Seq(IndexEntry), NEW l
  PROVE  /\ LiveAt(es, l) \in SUBSET (1 .. Len(es))
         /\ IsFiniteSet(LiveAt(es, l)) /\ Cardinality(LiveAt(es, l)) \in Nat
<1>1. LiveAt(es, l) \in SUBSET (1 .. Len(es)) /\ Len(es) \in Nat
  BY LenProperties DEF LiveAt
<1>2. IsFiniteSet(1 .. Len(es))
  BY <1>1, FS_Interval
<1>3. IsFiniteSet(LiveAt(es, l))
  BY <1>1, <1>2, FS_Subset
<1> QED BY <1>1, <1>3, FS_CardinalityType

(***************************************************************************)
(* The loop of `force`.                                                    *)
(***************************************************************************)
\* The levels below the current one were left alone in this pass, if no level
\* was consolidated in it.
PassInv ==
  pc \in {"force", "forceFlush"} =>
    /\ level \in 0..MaxLevel /\ force \in ForceLoop /\ force.passes < MaxPasses
    /\ pc = "force" /\ ~force.only /\ ~force.any =>
         \A l \in 0..(level - 1) : Cardinality(LiveAt(entries, l)) < force.min

LEMMA NextLevelPass ==
  ASSUME entries \in Seq(IndexEntry), pc \in {"force", "forceFlush"}, PassInv, NEW any \in BOOLEAN, NextLevel(any),
         any \/ (pc = "force" /\ any = force.any /\ ~ForceRipe)
  PROVE  PassInv'
<1>0. MaxLevel \in Nat /\ MaxPasses \in Nat
  BY StoreAssumption
<1>1. /\ level \in 0..MaxLevel /\ force.passes < MaxPasses /\ force.passes \in Nat
      /\ force \in [min : 2 .. Threshold, only : BOOLEAN, any : BOOLEAN, passes : Nat]
  BY DEF PassInv, ForceLoop
<1>2. CASE ~force.only /\ level < MaxLevel
  <2>1. /\ level' = level + 1 /\ force' = [force EXCEPT !.any = any]
        /\ pc' = "force" /\ entries' = entries
    BY <1>2 DEF NextLevel, mem
  <2>2. /\ level' \in 0..MaxLevel /\ force' \in ForceLoop
        /\ force'.passes = force.passes /\ force'.any = any /\ force'.min = force.min
        /\ force'.only = force.only
    BY <1>0, <1>1, <1>2, <2>1 DEF ForceLoop
  <2>3. ASSUME ~any, NEW l \in 0..(level' - 1)
        PROVE  Cardinality(LiveAt(entries, l)) < force.min
    <3>1. ~ForceRipe /\ pc = "force" /\ ~force.any
      BY <2>3
    <3>2. CASE l = level
      <4>1. Cardinality(LiveAt(entries, level)) \in Nat
        BY LiveFinite
      <4> QED BY <1>1, <3>1, <3>2, <4>1 DEF ForceRipe
    <3>3. CASE l # level
      <4>1. l \in 0..(level - 1)
        BY <1>1, <2>1, <2>3, <3>3
      <4> QED BY <1>2, <3>1, <4>1 DEF PassInv
    <3> QED BY <3>2, <3>3
  <2> QED BY <1>1, <2>1, <2>2, <2>3 DEF PassInv, LiveAt
<1>3. CASE ~(~force.only /\ level < MaxLevel) /\ any /\ force.passes + 1 < MaxPasses
  <2>1. /\ level' = (IF force.only THEN level ELSE 0)
        /\ force' = [force EXCEPT !.any = FALSE, !.passes = @ + 1]
        /\ pc' = "force"
    BY <1>3 DEF NextLevel
  <2>2. force' = [min |-> force.min, only |-> force.only, any |-> FALSE,
                  passes |-> force.passes + 1]
    BY <1>1, <2>1
  <2>3. force' \in ForceLoop /\ force'.passes = force.passes + 1 /\ force'.only = force.only
    BY <1>1, <2>2 DEF ForceLoop
  <2>4. ~force.only => 0..(level' - 1) = {}
    BY <2>1
  <2>5. level' \in 0..MaxLevel
    BY <1>0, <1>1, <2>1
  <2> QED BY <1>3, <2>1, <2>3, <2>4, <2>5 DEF PassInv
<1>4. CASE ~(~force.only /\ level < MaxLevel) /\ ~(any /\ force.passes + 1 < MaxPasses)
  BY <1>4 DEF NextLevel, Gone, PassInv
<1> QED BY <1>2, <1>3, <1>4

LEMMA PassNext ==
  ASSUME TypeInv, PassInv, [Next]_vars
  PROVE  PassInv'
<1>0. MaxLevel \in Nat /\ MaxPasses \in Nat /\ MaxPasses >= 1 /\ Threshold \in Nat
      /\ entries \in Seq(IndexEntry) /\ force \in ForceLoop
  BY StoreAssumption DEF TypeInv, TypeOK
<1>1. CASE UNCHANGED vars
  BY <1>1 DEF vars, mem, loop, PassInv, LiveAt
<1>2. CASE OpenIndex \/ CreateFresh
  <2>1. Start
    BY <1>2 DEF OpenIndex, CreateFresh
  <2>2. CASE role = "force"
    <3>1. PICK min \in 2..Threshold, only \in BOOLEAN :
            /\ force' = [min |-> min, only |-> only, any |-> FALSE, passes |-> 0]
            /\ level' \in IF only THEN 0..MaxLevel ELSE {0}
      BY <2>1, <2>2 DEF Start
    <3>2. force' \in ForceLoop /\ force'.passes = 0 /\ force'.passes < MaxPasses
      BY <1>0, <3>1 DEF ForceLoop
    <3>3. CASE only
      <4>1. level' \in 0..MaxLevel /\ force'.only
        BY <3>1, <3>3
      <4> QED BY <3>2, <4>1 DEF PassInv
    <3>4. CASE ~only
      <4>1. level' = 0
        BY <3>1, <3>4
      <4>2. level' \in 0..MaxLevel /\ 0..(level' - 1) = {}
        BY <1>0, <4>1
      <4> QED BY <3>2, <4>2 DEF PassInv
    <3> QED BY <3>3, <3>4
  <2>3. CASE role # "force"
    BY <2>1, <2>3 DEF Start, PassInv
  <2> QED BY <2>2, <2>3
<1>3. CASE ForceMerge
  BY <1>3 DEF ForceMerge, PassInv, loop
<1>4. CASE ForceFlush
  BY <1>0, <1>4, NextLevelPass DEF ForceFlush
<1>5. CASE ForceNothing
  <2>1. force.any \in BOOLEAN
    BY <1>0 DEF ForceLoop
  <2> QED BY <1>0, <1>5, <2>1, NextLevelPass DEF ForceNothing
<1>6. CASE \/ OpenCreate \/ CreateEmpty \/ CreateEmptyFails \/ RemoveIndex
           \/ \E r \in Roles : LoadAll(r) \/ LoadAllFails(r)
           \/ RefuseIndex \/ CreateFreshFails \/ Remembering \/ TouchRecall
           \/ ForceMergeFails \/ ForceFlushFails \/ Ending
  <2>1. pc' \notin {"force", "forceFlush"}
    BY <1>6 DEF OpenCreate, CreateEmpty, CreateEmptyFails, RemoveIndex, LoadAll,
       LoadAllFails, RefuseIndex, CreateFreshFails, Remembering, Remember, RememberFails,
       Consolidate, ConsolidateFails, NothingToConsolidate, AppendFlush, AppendFlushFails,
       TouchRecall, Serving, ForceMergeFails, ForceFlushFails, Ending, Exit, Crash,
       CrashInWrite, Gone
  <2> QED BY <2>1 DEF PassInv
<1> QED
  BY <1>1, <1>2, <1>3, <1>4, <1>5, <1>6 DEF Next, Opening, Forcing

\* A step that ends `force` finds its work done, or its passes used up.
LEMMA ForceEnds ==
  ASSUME Faults = {}, TypeInv, PassInv, [Next]_vars,
         pc \in {"force", "forceFlush"}, pc' = "down", ~force.only
  PROVE  \/ OutOfPasses
         \/ \A l \in 0..MaxLevel : Cardinality(LiveAt(entries, l)) < force.min
<1>0. /\ MaxLevel \in Nat /\ MaxPasses \in Nat
      /\ entries \in Seq(IndexEntry)
      /\ level \in 0..MaxLevel /\ force.passes < MaxPasses
      /\ force.passes \in Nat /\ force.any \in BOOLEAN /\ force.min \in Nat
  BY StoreAssumption DEF TypeInv, TypeOK, PassInv, ForceLoop
<1>1. ForceFlush \/ ForceNothing
  BY DEF Next, Opening, OpenCreate, CreateEmpty, CreateEmptyFails, RemoveIndex, LoadAll,
     LoadAllFails, Open, OpenIndex, RefuseIndex, CreateFresh, CreateFreshFails,
     Remembering, Remember, RememberFails, Consolidate, ConsolidateFails,
     NothingToConsolidate, AppendFlush, AppendFlushFails, TouchRecall, Serving,
     Forcing, ForceMerge, ForceMergeFails, ForceFlushFails, Ending, Exit, Crash,
     CrashInWrite, vars
<1>2. CASE ForceFlush
  <2>1. pc = "forceFlush" /\ NextLevel(TRUE)
    BY <1>2 DEF ForceFlush
  <2>2. ~(force.passes + 1 < MaxPasses)
    BY <2>1 DEF NextLevel
  <2> QED BY <1>0, <2>1, <2>2 DEF OutOfPasses
<1>3. CASE ForceNothing
  <2>1. pc = "force" /\ ~ForceRipe /\ NextLevel(force.any)
    BY <1>3 DEF ForceNothing
  <2>2. ~(level < MaxLevel) /\ ~(force.any /\ force.passes + 1 < MaxPasses)
    BY <2>1 DEF NextLevel
  <2>3. CASE force.any
    BY <1>0, <2>2, <2>3 DEF OutOfPasses
  <2>4. CASE ~force.any
    <3>1. \A l \in 0..(level - 1) : Cardinality(LiveAt(entries, l)) < force.min
      BY <2>1, <2>4 DEF PassInv
    <3>2. Cardinality(LiveAt(entries, level)) < force.min
      BY <1>0, <2>1, LiveFinite DEF ForceRipe
    <3>3. \A l \in 0..MaxLevel : l = level \/ l \in 0..(level - 1)
      BY <1>0, <2>2
    <3> QED BY <3>1, <3>2, <3>3
  <2> QED BY <2>3, <2>4
<1> QED BY <1>1, <1>2, <1>3

\* `leet consolidate force` without --level leaves no level with --min live
\* records, unless it has used up its passes.
THEOREM ForceFinishes ==
  ASSUME Faults = {}
  PROVE  Spec => ForceComplete
<1>1. Init => PassInv
  BY DEF Init, PassInv
<1>2. StoreInv /\ Intact /\ PassInv /\ [Next]_vars => PassInv'
  BY PassNext DEF StoreInv
<1>3. StoreInv /\ Intact /\ PassInv /\ [Next]_vars =>
        [pc' = "down" /\ pc \in {"force", "forceFlush"} /\ ~force.only =>
           \/ OutOfPasses
           \/ \A l \in 0..MaxLevel : Cardinality(LiveAt(entries, l)) < force.min]_vars
  BY ForceEnds DEF StoreInv
<1> QED BY <1>1, <1>2, <1>3, ClosedInvariance, PTL DEF Spec, ForceComplete

(***************************************************************************)
(* The height of the pyramid.                                              *)
(***************************************************************************)
\* The live records of a level after an append.
LEMMA LiveAfter ==
  ASSUME NEW es \in Seq(IndexEntry), NEW e \in IndexEntry, ~e.consolidated,
         NEW batch, NEW l
  PROVE  LiveAt(Pushed(es, batch, e), l) =
           (LiveAt(es, l) \ batch) \cup (IF e.level = l THEN {Len(es) + 1} ELSE {})
<1> DEFINE m == MarkConsolidated(es, batch)
           es2 == Pushed(es, batch, e)
           n == Len(es)
<1>1. /\ m \in Seq(IndexEntry) /\ Len(m) = n
      /\ \A i \in 1 .. n : /\ m[i].consolidated <=> es[i].consolidated \/ i \in batch
                          /\ m[i].level = es[i].level
  BY Marked
<1>2. n \in Nat /\ DOMAIN es = 1 .. n
  BY LenProperties
<1>3. /\ DOMAIN es2 = 1 .. n + 1 /\ \A i \in 1 .. n : es2[i] = m[i]
      /\ es2[n + 1] = e
  BY <1>1, Appended DEF Pushed
<1> HIDE DEF m, es2, n
<1>4. 1 .. n + 1 = (1 .. n) \cup {n + 1}
  BY <1>2
<1>5. \A i \in 1 .. n : i \in LiveAt(es2, l) <=> i \in LiveAt(es, l) \ batch
  BY <1>1, <1>2, <1>3, <1>4 DEF LiveAt
<1>6. n + 1 \in LiveAt(es2, l) <=> e.level = l
  BY <1>3, <1>4 DEF LiveAt
<1>7. LiveAt(es2, l) \subseteq 1 .. n + 1 /\ LiveAt(es, l) \subseteq 1 .. n
  BY <1>2, <1>3 DEF LiveAt
<1> QED BY <1>4, <1>5, <1>6, <1>7 DEF es2, n

\* An append adds at most one live record to a level, and to no other than its own.
LEMMA LiveCount ==
  ASSUME NEW es \in Seq(IndexEntry), NEW e \in IndexEntry, ~e.consolidated,
         NEW batch, NEW l
  PROVE  /\ Cardinality(LiveAt(Pushed(es, batch, e), l)) \in Nat
         /\ Cardinality(LiveAt(Pushed(es, batch, e), l)) <= Cardinality(LiveAt(es, l)) + 1
         /\ e.level # l =>
              Cardinality(LiveAt(Pushed(es, batch, e), l)) <= Cardinality(LiveAt(es, l))
<1> DEFINE A == LiveAt(es, l)
           B == A \ batch
           C == LiveAt(Pushed(es, batch, e), l)
<1>1. IsFiniteSet(A) /\ Cardinality(A) \in Nat
  BY LiveFinite
<1>2. IsFiniteSet(B) /\ Cardinality(B) <= Cardinality(A) /\ Cardinality(B) \in Nat
  <2>1. B \in SUBSET A
    OBVIOUS
  <2> QED BY <1>1, <2>1, FS_Subset, FS_CardinalityType
<1>3. C = B \cup (IF e.level = l THEN {Len(es) + 1} ELSE {})
  BY LiveAfter
<1> HIDE DEF A, B, C
<1>4. CASE e.level = l
  <2>1. C = B \cup {Len(es) + 1}
    BY <1>3, <1>4
  <2>2. Cardinality(C) = Cardinality(B) \/ Cardinality(C) = Cardinality(B) + 1
    BY <1>2, <2>1, FS_AddElement
  <2> QED BY <1>1, <1>2, <1>4, <2>2 DEF A, C
<1>5. CASE e.level # l
  BY <1>1, <1>2, <1>3, <1>5 DEF A, C
<1> QED BY <1>4, <1>5

\* A summary of fewer records than a full batch.
Early(es) == \E i \in DOMAIN es : es[i].level > 0 /\ Cardinality(SourcesIn(es, i)) < Threshold

\* It stays what it is, whatever is appended.
LEMMA EarlyStays ==
  ASSUME NEW rs, NEW es \in Seq(IndexEntry), Traces(rs, es),
         NEW r, NEW e \in IndexEntry, NEW batch, Appendable(rs, es, r, e, batch)
  PROVE  /\ Early(es) => Early(Pushed(es, batch, e))
         /\ e.level > 0 /\ Cardinality(batch) < Threshold => Early(Pushed(es, batch, e))
<1> DEFINE m == MarkConsolidated(es, batch)
           es2 == Pushed(es, batch, e)
           n == Len(es)
<1>1. /\ m \in Seq(IndexEntry) /\ Len(m) = n
      /\ \A i \in 1 .. n : m[i].level = es[i].level
  BY Marked
<1>2. n \in Nat /\ DOMAIN es = 1 .. n
  BY LenProperties
<1>3. /\ DOMAIN es2 = 1 .. n + 1 /\ \A i \in 1 .. n : es2[i] = m[i]
      /\ es2[n + 1] = e
  BY <1>1, Appended DEF Pushed
<1>4. /\ \A i \in 1 .. n : es[i].level > 0 =>
           /\ SourcesIn(es2, i) = SourcesIn(es, i) /\ SourcesIn(es, i) \subseteq 1 .. n
      /\ e.level > 0 => /\ SourcesIn(es2, n + 1) = batch /\ batch \subseteq 1 .. n
                       /\ e.first \in 1 .. n /\ e.last \in 1 .. n
  BY SourcesAppend
<1> HIDE DEF m, es2, n
<1>5. \A i \in 1 .. n : i \in 1 .. n + 1
  BY <1>2
<1>6. n + 1 \in 1 .. n + 1
  BY <1>2
<1>7. Early(es) => Early(es2)
  BY <1>1, <1>2, <1>3, <1>4, <1>5 DEF Early
<1>8. e.level > 0 /\ Cardinality(batch) < Threshold => Early(es2)
  BY <1>3, <1>4, <1>6 DEF Early
<1> QED BY <1>7, <1>8 DEF es2

\* A set that is no larger than k is its own oldest part.
LEMMA OldestAll ==
  ASSUME NEW S, IsFiniteSet(S), S \subseteq Nat, NEW k \in Nat, Cardinality(S) <= k
  PROVE  Oldest(S, k) = S
<1> SUFFICES ASSUME NEW i \in S PROVE Cardinality({j \in S : j < i}) < k
  BY DEF Oldest
<1> DEFINE T == {j \in S : j < i}
<1>1. T \in SUBSET S /\ i \notin T
  OBVIOUS
<1>2. IsFiniteSet(T) /\ Cardinality(T) <= Cardinality(S)
      /\ (Cardinality(S) = Cardinality(T) => S = T)
  BY <1>1, FS_Subset
<1>3. Cardinality(T) \in Nat /\ Cardinality(S) \in Nat
  BY <1>2, FS_CardinalityType
<1> QED BY <1>1, <1>2, <1>3

\* Level 0 holds less than a full batch, and so do all levels if every summary was
\* made of a full one; level l may hold a full one, not more.
Counted(es, l) == l = 0 \/ ~Early(es)
BelowFull(es) ==
  \A l \in 0..MaxLevel : Counted(es, l) => Cardinality(LiveAt(es, l)) < Threshold
BelowFullBut(es, l) ==
  /\ l \in 0..MaxLevel
  /\ \A k \in (0..MaxLevel) \ {l} : Counted(es, k) => Cardinality(LiveAt(es, k)) < Threshold
  /\ Counted(es, l) => Cardinality(LiveAt(es, l)) <= Threshold

Bounded ==
  ~rebuilt =>
    /\ pc \in {"idle", "flush", "force", "forceFlush"} => BelowFull(entries)
    /\ pc = "cascade" => BelowFullBut(entries, level)
    /\ ~Up /\ index.exists => BelowFull(index.entries)

\* The facts about an append that the next lemmas use.
LEMMA PushFacts ==
  ASSUME TypeInv, Safe, Up, LiveAt(entries, level) # {}
  PROVE  /\ Appendable(records, entries, Blend(Batch(Threshold)),
                       MergedEntry(Batch(Threshold), level), Batch(Threshold))
         /\ MergedEntry(Batch(Threshold), level) \in IndexEntry
         /\ ~MergedEntry(Batch(Threshold), level).consolidated
         /\ MergedEntry(Batch(Threshold), level).level = level + 1
         /\ Batch(Threshold) \in SUBSET LiveAt(entries, level)
         /\ Traces(records, entries)
<1> DEFINE batch == Batch(Threshold)
           e == MergedEntry(batch, level)
           r == Blend(batch)
<1>1. /\ batch # {} /\ batch \subseteq LiveAt(entries, level)
      /\ \A i \in batch, j \in LiveAt(entries, level) \ batch : i < j
      /\ e \in IndexEntry
  BY RipeNotEmpty, BatchShape
<1>2. /\ ~e.consolidated /\ e.level = level + 1
      /\ e.first = Min(batch) /\ e.last = Max(batch)
      /\ r.ids = UNION {records[k].ids : k \in batch}
  BY DEF MergedEntry, Blend
<1>3. Traces(records, entries)
  BY DEF Safe, MemSafe, TracedNow
<1>4. level + 1 > 0 /\ (level + 1) - 1 = level
  BY UpFacts
<1> HIDE DEF batch, e, r
<1>5. Appendable(records, entries, r, e, batch)
  BY <1>1, <1>2, <1>4 DEF Appendable
<1> QED BY <1>1, <1>2, <1>3, <1>5 DEF batch, e, r

LEMMA RememberBounded ==
  ASSUME TypeInv, Safe, Bounded, Remember
  PROVE  Bounded'
<1> SUFFICES ASSUME ~rebuilt PROVE BelowFullBut(entries', level') /\ pc' = "cascade"
  BY DEF Bounded, Remember, past, Up
<1>1. /\ pc = "idle" /\ pc' = "cascade" /\ level' = 0
      /\ entries' = Pushed(entries, {}, DefaultEntry)
  BY DEF Remember, Serving, AppendAtLevel, Pushed
<1>2. Up
  BY <1>1 DEF Up
<1>3. /\ entries \in Seq(IndexEntry) /\ MaxLevel \in Nat /\ Threshold \in Nat
      /\ DefaultEntry \in IndexEntry /\ ~DefaultEntry.consolidated /\ DefaultEntry.level = 0
      /\ Traces(records, entries)
  BY <1>2, UpFacts, StoreAssumption DEF DefaultEntry, IndexEntry, Safe, MemSafe, TracedNow
<1>4. BelowFull(entries)
  BY <1>1 DEF Bounded
<1>5. \A l : Counted(entries', l) => Counted(entries, l)
  <2>1. Appendable(records, entries, Memory(now + 1), DefaultEntry, {})
    BY <1>3 DEF Appendable
  <2> QED BY <1>1, <1>3, <2>1, EarlyStays DEF Counted
<1>6. \A l : /\ Cardinality(LiveAt(entries, l)) \in Nat
             /\ Cardinality(LiveAt(entries', l)) \in Nat
             /\ Cardinality(LiveAt(entries', l)) <= Cardinality(LiveAt(entries, l)) + 1
             /\ l # 0 => Cardinality(LiveAt(entries', l)) <= Cardinality(LiveAt(entries, l))
  BY <1>1, <1>3, LiveCount, LiveFinite
<1>7. ASSUME NEW l \in 0..MaxLevel, Counted(entries', l)
      PROVE  /\ Cardinality(LiveAt(entries', l)) <= Threshold
             /\ l # 0 => Cardinality(LiveAt(entries', l)) < Threshold
  <2>1. Cardinality(LiveAt(entries, l)) < Threshold
    BY <1>4, <1>5, <1>7 DEF BelowFull
  <2> QED BY <1>3, <1>6, <2>1
<1>8. 0 \in 0..MaxLevel
  BY <1>3
<1> QED BY <1>1, <1>7, <1>8 DEF BelowFullBut

LEMMA ConsolidateBounded ==
  ASSUME TypeInv, Safe, Bounded, Consolidate
  PROVE  Bounded'
<1> DEFINE batch == Batch(Threshold)
           e == MergedEntry(batch, level)
           S == LiveAt(entries, level)
<1>1. /\ pc = "cascade" /\ Ripe /\ level' = level + 1 /\ rebuilt' = rebuilt
      /\ pc' = IF level' > MaxLevel THEN "flush" ELSE "cascade"
      /\ entries' = Pushed(entries, batch, e)
  BY DEF Consolidate, AppendAtLevel, Pushed, past
<1>2. Up /\ Up'
  BY <1>1 DEF Up
<1>3. /\ entries \in Seq(IndexEntry) /\ MaxLevel \in Nat /\ Threshold \in Nat
      /\ level \in Nat
  BY <1>2, UpFacts, StoreAssumption
<1>4. /\ Appendable(records, entries, Blend(batch), e, batch)
      /\ e \in IndexEntry /\ ~e.consolidated /\ e.level = level + 1
      /\ batch \in SUBSET S /\ Traces(records, entries)
  BY <1>1, <1>2, RipeNotEmpty, PushFacts
<1>5. batch = Oldest(S, Threshold)
  BY DEF Batch
<1> HIDE DEF batch, e
<1> SUFFICES ASSUME ~rebuilt
             PROVE  /\ level' <= MaxLevel => BelowFullBut(entries', level')
                    /\ level' > MaxLevel => BelowFull(entries')
  BY <1>1, <1>2, <1>3 DEF Bounded
<1>6. BelowFullBut(entries, level)
  BY <1>1 DEF Bounded
<1>7. \A l : Counted(entries', l) => Counted(entries, l)
  BY <1>1, <1>3, <1>4, EarlyStays DEF Counted
<1>8. \A l : /\ Cardinality(LiveAt(entries, l)) \in Nat
             /\ Cardinality(LiveAt(entries', l)) \in Nat
             /\ Cardinality(LiveAt(entries', l)) <= Cardinality(LiveAt(entries, l)) + 1
             /\ l # level + 1 =>
                  Cardinality(LiveAt(entries', l)) <= Cardinality(LiveAt(entries, l))
  BY <1>1, <1>3, <1>4, LiveCount, LiveFinite
<1>9. ASSUME Counted(entries', level)
      PROVE  Cardinality(LiveAt(entries', level)) < Threshold
  <2>1. Cardinality(S) <= Threshold
    BY <1>6, <1>7, <1>9 DEF BelowFullBut
  <2>2. S \subseteq Nat /\ IsFiniteSet(S)
    <3>1. S \in SUBSET (1 .. Len(entries))
      BY <1>3, LiveFinite
    <3> QED BY <1>3, <3>1, LiveFinite
  <2>3. batch = S
    BY <1>3, <1>5, <2>1, <2>2, OldestAll
  <2>4. LiveAt(entries', level) = {}
    BY <1>1, <1>3, <1>4, <2>3, LiveAfter
  <2> QED BY <1>3, <2>4, FS_EmptySet, StoreAssumption
<1>10. ASSUME NEW l \in 0..MaxLevel, Counted(entries', l)
       PROVE  /\ l # level + 1 => Cardinality(LiveAt(entries', l)) < Threshold
              /\ Cardinality(LiveAt(entries', l)) <= Threshold
  <2>1. CASE l = level
    BY <1>3, <1>8, <1>9, <1>10, <2>1
  <2>2. CASE l # level
    <3>1. Cardinality(LiveAt(entries, l)) < Threshold
      BY <1>6, <1>7, <1>10, <2>2 DEF BelowFullBut
    <3> QED BY <1>3, <1>8, <3>1
  <2> QED BY <2>1, <2>2
<1>11. CASE level' <= MaxLevel
  <2>1. level' \in 0..MaxLevel /\ ~(level' > MaxLevel)
    BY <1>1, <1>3, <1>11
  <2> QED BY <1>1, <1>10, <2>1 DEF BelowFullBut
<1>12. CASE level' > MaxLevel
  <2>1. ~(level' <= MaxLevel) /\ \A l \in 0..MaxLevel : l # level + 1
    BY <1>1, <1>3, <1>12
  <2> QED BY <1>10, <2>1 DEF BelowFull
<1> QED BY <1>1, <1>3, <1>11, <1>12

LEMMA ForceMergeBounded ==
  ASSUME TypeInv, Safe, PassInv, Bounded, ForceMerge
  PROVE  Bounded'
<1> DEFINE batch == Batch(Threshold)
           e == MergedEntry(batch, level)
<1>1. /\ pc = "force" /\ ForceRipe /\ rebuilt' = rebuilt /\ pc' = "forceFlush"
      /\ entries' = Pushed(entries, batch, e)
  BY DEF ForceMerge, AppendAtLevel, Pushed, past
<1>2. Up /\ Up'
  BY <1>1 DEF Up
<1>3. /\ entries \in Seq(IndexEntry) /\ MaxLevel \in Nat /\ Threshold \in Nat
      /\ level \in 0..MaxLevel /\ level \in Nat
  BY <1>1, <1>2, UpFacts, StoreAssumption DEF PassInv
<1>4. /\ Appendable(records, entries, Blend(batch), e, batch)
      /\ e \in IndexEntry /\ ~e.consolidated /\ e.level = level + 1
      /\ batch \in SUBSET LiveAt(entries, level) /\ Traces(records, entries)
  BY <1>1, <1>2, RipeNotEmpty, PushFacts
<1> HIDE DEF batch, e
<1> SUFFICES ASSUME ~rebuilt PROVE BelowFull(entries')
  BY <1>1, <1>2 DEF Bounded
<1>5. BelowFull(entries)
  BY <1>1 DEF Bounded
<1>6. Early(entries')
  <2>1. Early(entries) => Early(entries')
    BY <1>1, <1>3, <1>4, EarlyStays
  <2>2. ASSUME ~Early(entries) PROVE Early(entries')
    <3>1. Cardinality(LiveAt(entries, level)) < Threshold
      BY <1>3, <1>5, <2>2 DEF BelowFull, Counted
    <3>2. IsFiniteSet(LiveAt(entries, level)) /\ Cardinality(LiveAt(entries, level)) \in Nat
      BY <1>3, LiveFinite
    <3>3. IsFiniteSet(batch) /\ Cardinality(batch) <= Cardinality(LiveAt(entries, level))
      BY <1>4, <3>2, FS_Subset
    <3>4. Cardinality(batch) < Threshold
      BY <1>3, <3>1, <3>2, <3>3, FS_CardinalityType
    <3>5. e.level > 0
      BY <1>3, <1>4
    <3> QED BY <1>1, <1>3, <1>4, <3>4, <3>5, EarlyStays
  <2> QED BY <2>1, <2>2
<1>7. Cardinality(LiveAt(entries', 0)) < Threshold
  <2>1. Cardinality(LiveAt(entries, 0)) < Threshold /\ Cardinality(LiveAt(entries, 0)) \in Nat
    BY <1>3, <1>5, LiveFinite DEF BelowFull, Counted
  <2>2. e.level # 0
    BY <1>3, <1>4
  <2>3. /\ Cardinality(LiveAt(entries', 0)) <= Cardinality(LiveAt(entries, 0))
        /\ Cardinality(LiveAt(entries', 0)) \in Nat
    BY <1>1, <1>3, <1>4, <2>2, LiveCount
  <2> QED BY <1>3, <2>1, <2>3
<1> QED BY <1>6, <1>7 DEF BelowFull, Counted

\* A file with an entry for each record holds the entries of the memory.
LEMMA FileInStep ==
  ASSUME TypeInv, Safe, Closed, Up, pc \notin {"cascade", "flush", "forceFlush"},
         index.exists
  PROVE  index.entries = entries
BY DEF Closed, InStep, Safe, Aligned

LEMMA OtherBounded ==
  ASSUME Faults = {}, TypeInv, Safe, Closed, Bounded, [Next]_vars,
         ~Remember, ~Consolidate, ~ForceMerge
  PROVE  Bounded'
<1>1. CASE UNCHANGED vars
  BY <1>1 DEF vars, disk, mem, loop, past, Bounded, Up
<1>2. CASE OpenCreate \/ CreateEmpty \/ CreateEmptyFails \/ RemoveIndex
           \/ (\E r \in Roles : LoadAll(r) \/ LoadAllFails(r))
           \/ RefuseIndex \/ CreateFreshFails
  <2>1. /\ ~Up /\ ~Up' /\ rebuilt' = rebuilt
        /\ index' = index \/ ~index'.exists
    BY <1>2 DEF OpenCreate, CreateEmpty, CreateEmptyFails, RemoveIndex, LoadAll,
                LoadAllFails, Open, RefuseIndex, CreateFreshFails, NoIndex, Gone, disk, past, Up
  <2> QED BY <2>1 DEF Bounded, Up
<1>3. CASE OpenIndex
  <2>1. /\ ~Up /\ index.exists /\ entries' = index.entries /\ rebuilt' = rebuilt
        /\ pc' \in {"idle", "force"}
    BY <1>3 DEF OpenIndex, Start, past, Up
  <2> QED BY <2>1 DEF Bounded, Up
<1>4. CASE CreateFresh
  <2>1. /\ entries' = [i \in DOMAIN records |-> DefaultEntry]
        /\ rebuilt' = (rebuilt \/ records # <<>>) /\ pc' \in {"idle", "force"}
    BY <1>4 DEF CreateFresh, Start
  <2>2. ASSUME ~rebuilt', NEW l PROVE Cardinality(LiveAt(entries', l)) < Threshold
    <3>1. records = <<>>
      BY <2>1, <2>2
    <3>2. DOMAIN records = {}
      BY <3>1, LenProperties DEF TypeInv, TypeOK
    <3>3. LiveAt(entries', l) = {}
      BY <2>1, <3>2 DEF LiveAt
    <3> QED BY <3>3, FS_EmptySet, StoreAssumption
  <2> QED BY <2>1, <2>2 DEF Bounded, BelowFull, Up
<1>5. CASE NothingToConsolidate
  <2>1. /\ pc = "cascade" /\ ~Ripe /\ entries' = entries /\ rebuilt' = rebuilt
        /\ IF level = 0 THEN level' = 1 /\ pc' = pc ELSE level' = level /\ pc' = "flush"
    BY <1>5 DEF NothingToConsolidate, mem, past
  <2>2. Up /\ Up'
    BY <2>1 DEF Up
  <2>3. entries \in Seq(IndexEntry) /\ MaxLevel \in Nat /\ MaxLevel >= 1 /\ Threshold \in Nat
    BY <2>2, UpFacts, StoreAssumption
  <2> SUFFICES ASSUME ~rebuilt
               PROVE  /\ level = 0 => BelowFullBut(entries, 1)
                      /\ level # 0 => BelowFull(entries)
    BY <2>1, <2>2 DEF Bounded, BelowFull, BelowFullBut, Counted, Early, SourcesIn, LiveAt
  <2>4. BelowFullBut(entries, level)
    BY <2>1 DEF Bounded
  <2>5. Cardinality(LiveAt(entries, level)) < Threshold
    BY <2>1, <2>3, LiveFinite DEF Ripe
  <2>6. BelowFull(entries)
    BY <2>4, <2>5 DEF BelowFull, BelowFullBut
  <2>7. BelowFullBut(entries, 1)
    BY <2>3, <2>6, LiveFinite DEF BelowFull, BelowFullBut
  <2> QED BY <2>6, <2>7
<1>6. CASE AppendFlush \/ TouchRecall
  <2>1. /\ pc \in {"flush", "idle"} /\ pc' = "idle" /\ entries' = entries /\ rebuilt' = rebuilt
    BY <1>6 DEF AppendFlush, TouchRecall, Serving, mem, past
  <2> QED BY <2>1 DEF Bounded, Up
<1>7. CASE ForceFlush
  <2>1. /\ pc = "forceFlush" /\ index'.entries = entries /\ rebuilt' = rebuilt
        /\ \/ pc' = "force" /\ entries' = entries
           \/ pc' = "down"
    BY <1>7 DEF ForceFlush, Flushed, NextLevel, Gone, mem, past
  <2> QED BY <2>1 DEF Bounded, Up
<1>8. CASE ForceNothing \/ Exit
  <2>1. /\ pc \in {"force", "idle"} /\ index' = index /\ rebuilt' = rebuilt
        /\ \/ pc' = "force" /\ entries' = entries
           \/ pc' = "down"
    BY <1>8 DEF ForceNothing, Exit, NextLevel, Gone, disk, mem, past
  <2>2. Up
    BY <2>1 DEF Up
  <2>3. index.exists => index.entries = entries
    BY <2>1, <2>2, FileInStep
  <2> QED BY <2>1, <2>3 DEF Bounded, Up
<1>9. ~(RememberFails \/ ConsolidateFails \/ AppendFlushFails \/ ForceMergeFails
         \/ ForceFlushFails \/ Crash \/ CrashInWrite)
  BY DEF RememberFails, ConsolidateFails, AppendFlushFails, ForceMergeFails,
         ForceFlushFails, Crash, CrashInWrite, AppendFails
<1> QED
  BY <1>1, <1>2, <1>3, <1>4, <1>5, <1>6, <1>7, <1>8, <1>9
     DEF Next, Opening, Remembering, Forcing, Ending

\* One cascade after each append is enough: between two calls level 0 holds less
\* than a full batch, and so does every level as long as `force` merged nothing
\* early.
THEOREM PyramidStaysBounded ==
  ASSUME Faults = {}
  PROVE  Spec => []PyramidBounded
<1>1. Init => PassInv /\ Bounded
  <2> SUFFICES ASSUME Init PROVE PassInv /\ Bounded
    OBVIOUS
  <2> QED BY DEF Init, PassInv, Bounded, NoIndex
<1>2. StoreInv /\ Intact /\ Closed /\ PassInv /\ Bounded /\ [Next]_vars => PassInv' /\ Bounded'
  <2>1. ASSUME TypeInv, Safe, Closed, PassInv, Bounded, [Next]_vars
        PROVE  Bounded'
    <3>1. CASE Remember
      BY <2>1, <3>1, RememberBounded
    <3>2. CASE Consolidate
      BY <2>1, <3>2, ConsolidateBounded
    <3>3. CASE ForceMerge
      BY <2>1, <3>3, ForceMergeBounded
    <3> QED BY <2>1, <3>1, <3>2, <3>3, OtherBounded
  <2> QED BY <2>1, PassNext DEF StoreInv
<1>3. Bounded => PyramidBounded
  BY DEF Bounded, BelowFull, Counted, Early, SourcesIn, PyramidBounded, MergedEarly, Merged,
         Sources
<1> QED BY <1>1, <1>2, <1>3, ClosedInvariance, PTL DEF Spec

-----------------------------------------------------------------------------
(***************************************************************************)
(* The refinement of MemoryCover, and `leet absorb`.                       *)
(***************************************************************************)
Inv == TypeInv /\ Safe /\ Alone

\* What LiveNow is in the three kinds of states.
LEMMA LiveCases ==
  /\ Up => LiveNow = LiveSets(records, entries)
  /\ ~Up /\ InStep => LiveNow = LiveSets(cells, index.entries)
  /\ ~Up /\ ~InStep => LiveNow = Written(cells)
BY DEF LiveNow, InStep

\* What LiveNow is after a step.
LEMMA LiveCasesNext ==
  /\ Up' => LiveNow' = LiveSets(records', entries')
  /\ ~Up' /\ InStep' => LiveNow' = LiveSets(cells', index'.entries)
  /\ ~Up' /\ ~InStep' => LiveNow' = Written(cells')
BY DEF LiveNow, InStep, LiveSets, Written

LEMMA WrittenAppend ==
  ASSUME NEW S, NEW s \in Seq(S), NEW r \in S
  PROVE  Written(Append(s, r)) = Written(s) \cup {r.ids}
<1>1. /\ DOMAIN s = 1 .. Len(s) /\ DOMAIN Append(s, r) = 1 .. Len(s) + 1
      /\ \A i \in 1 .. Len(s) : Append(s, r)[i] = s[i]
      /\ Append(s, r)[Len(s) + 1] = r
      /\ Len(s) \in Nat
  BY Appended, LenProperties
<1>2. 1 .. Len(s) + 1 = (1 .. Len(s)) \cup {Len(s) + 1}
  BY <1>1
<1> QED BY <1>1, <1>2 DEF Written

\* A live record added, and a batch of live ones marked.
LEMMA LiveSetsAppend ==
  ASSUME NEW S, NEW rs \in Seq(S), NEW r \in S,
         NEW es \in Seq(IndexEntry), NEW e \in IndexEntry, ~e.consolidated,
         Len(es) = Len(rs), NEW batch
  PROVE  LET live == {k \in DOMAIN es : ~es[k].consolidated}
         IN  LiveSets(Append(rs, r), Append(MarkConsolidated(es, batch), e))
               = {rs[i].ids : i \in live \ batch} \cup {r.ids}
<1> DEFINE m == MarkConsolidated(es, batch)
           rs2 == Append(rs, r)
           es2 == Append(m, e)
           n == Len(rs)
           live == {k \in DOMAIN es : ~es[k].consolidated}
           live2 == {k \in DOMAIN es2 : ~es2[k].consolidated}
<1>1. /\ m \in Seq(IndexEntry) /\ Len(m) = n /\ DOMAIN es = 1 .. n /\ n \in Nat
      /\ \A i \in 1 .. n : m[i].consolidated <=> es[i].consolidated \/ i \in batch
  BY Marked, LenProperties
<1> HIDE DEF m
<1>2. /\ DOMAIN es2 = 1 .. n + 1
      /\ \A i \in 1 .. n : es2[i] = m[i] /\ rs2[i] = rs[i]
      /\ es2[n + 1] = e /\ rs2[n + 1] = r
  BY <1>1, Appended
<1> HIDE DEF rs2, es2
<1>3. live2 = (live \ batch) \cup {n + 1}
  <2>1. \A k \in 1 .. n : k \in live2 <=> k \in live \ batch
    BY <1>1, <1>2
  <2>2. n + 1 \in live2
    BY <1>1, <1>2
  <2>3. live2 \subseteq 1 .. n + 1 /\ live \subseteq 1 .. n
    BY <1>1, <1>2
  <2> HIDE DEF live, live2
  <2>4. 1 .. n + 1 = (1 .. n) \cup {n + 1} /\ n + 1 \notin 1 .. n
    BY <1>1
  <2> QED BY <2>1, <2>2, <2>3, <2>4
<1>4. live \subseteq 1 .. n
  BY <1>1
<1>5. {rs2[i].ids : i \in live2} = {rs[i].ids : i \in live \ batch} \cup {r.ids}
  <2> HIDE DEF live, live2
  <2> QED BY <1>2, <1>3, <1>4
<1> QED BY <1>5 DEF LiveSets, rs2, es2, m

\* Nothing that was written is of the future.
LEMMA WrittenIsPast ==
  ASSUME TypeInv, Alone
  PROVE  \A s \in Written(cells) : \A id \in s : id \in 0 .. MaxNow /\ id <= now
<1> SUFFICES ASSUME NEW i \in DOMAIN cells, NEW id \in cells[i].ids
             PROVE  id \in 0 .. MaxNow /\ id <= now
  BY DEF Written
<1>1. cells \in Seq(Chunks(now)) /\ now \in Nat /\ MaxNow \in Nat
  BY StoreAssumption DEF TypeInv, TypeOK, Shape
<1>2. cells[i] \in Chunks(now)
  BY <1>1, ElementOfSeq, LenProperties
<1>3. id \in 0 .. MaxNow
  BY DEF Alone, Own, Held
<1>4. cells[i] \in Past(now)
  BY <1>2 DEF Chunks, Corrupt
<1>5. id <= cells[i].unix_ns /\ cells[i].unix_ns \in 0 .. now
  BY <1>1, <1>3, <1>4 DEF Past
<1> QED BY <1>1, <1>3, <1>5

Quiet == UNCHANGED <<cells, acked>>

\* A step that leaves store.bin alone and lets the process end or stay as it
\* is changes what is live to what it was or to everything.
LEMMA EndedOrSame ==
  ASSUME Inv, Up, Quiet,
         \/ index' = index
         \/ index'.exists /\ index'.entries = entries,
         Gone \/ (Up' /\ UNCHANGED <<records, entries>>)
  PROVE  LiveNow' = LiveNow \/ LiveNow' = Written(cells)
<1>1. LiveNow = LiveSets(records, entries)
  BY LiveCases
<1>2. CASE Up' /\ UNCHANGED <<records, entries>>
  BY <1>1, <1>2, LiveCasesNext
<1>3. CASE Gone
  <2>1. ~Up' /\ cells' = cells
    BY <1>3 DEF Gone, Up, Quiet
  <2>2. CASE ~InStep'
    BY <2>1, <2>2, LiveCasesNext
  <2>3. CASE InStep'
    <3>1. index'.entries = entries
      BY <2>1, <2>3 DEF Inv, Safe, Aligned, InStep
    <3>2. records = cells
      <4>1. /\ Len(entries) = Len(records) /\ Len(cells) = Len(index'.entries)
        BY <2>1, <2>3, UpFacts DEF InStep, Inv
      <4> QED BY <3>1, <4>1 DEF Inv, Safe, Aligned
    <3> QED BY <1>1, <2>1, <2>3, <3>1, <3>2, LiveCasesNext
  <2> QED BY <2>2, <2>3
<1> QED BY <1>2, <1>3

CoverVars == <<LiveNow, Written(cells), acked>>

\* A step that shows what is live as it was, or everything.
LEMMA QuietStep ==
  ASSUME Quiet, LiveNow' = LiveNow \/ LiveNow' = Written(cells)
  PROVE  Cover!Next \/ UNCHANGED CoverVars
<1>1. Written(cells)' = Written(cells)
  BY DEF Quiet, Written
<1>2. CASE LiveNow' = LiveNow
  BY <1>1, <1>2 DEF Quiet, CoverVars
<1>3. CASE LiveNow' = Written(cells)
  BY <1>1, <1>3 DEF Quiet, Cover!Relapse, Cover!Next
<1> QED BY <1>2, <1>3

\* A record whose fsync failed.
LEMMA OrphanStep ==
  ASSUME Inv, Up, NEW m \in Nat, now <= m, NEW r \in Past(m),
         cells' = Append(cells, r), index' = index, acked' = acked,
         Gone \/ (Up' /\ UNCHANGED <<records, entries>>)
  PROVE  Cover!Orphan(r.ids)
<1>1. Len(cells') = Len(cells) + 1 /\ Written(cells') = Written(cells) \cup {r.ids}
      /\ Len(index.entries) \in Nat /\ Len(cells) \in Nat
  <2>1. now \in Nat /\ cells \in Seq(Chunks(now)) /\ index.entries \in Seq(IndexEntry)
    BY UpFacts DEF Inv
  <2>2. cells \in Seq(Chunks(m)) /\ r \in Chunks(m)
    BY <2>1, PastGrows DEF Chunks
  <2> QED BY <2>1, <2>2, Appended, WrittenAppend, LenProperties
<1>2. Len(index.entries) <= Len(cells)
  BY DEF Inv, Safe, Aligned
<1>3. ~InStep'
  BY <1>1, <1>2 DEF InStep
<1>4. LiveNow' \in {LiveNow, Written(cells')}
  <2>1. CASE Gone
    <3>1. ~Up'
      BY <2>1 DEF Gone, Up
    <3> QED BY <1>3, <3>1, LiveCasesNext
  <2>2. CASE Up' /\ UNCHANGED <<records, entries>>
    BY <2>2, LiveCases, LiveCasesNext
  <2> QED BY <2>1, <2>2
<1>5. Written(cells)' = Written(cells')
  BY DEF Written
<1> QED BY <1>1, <1>4, <1>5 DEF Cover!Orphan

\* The batch that maybe_consolidate merges is a set of live summaries.
LEMMA BatchIsLive ==
  ASSUME Inv, Up, LiveAt(entries, level) # {}
  PROVE  LET batch == Batch(Threshold)
             S == {records[i].ids : i \in batch}
         IN  /\ S \in (SUBSET LiveNow) \ {{}}
             /\ Blend(batch).ids = Cover!Union(S)
             /\ Blend(batch) \in Past(now)
             /\ batch \subseteq {k \in DOMAIN entries : ~entries[k].consolidated}
             /\ MergedEntry(batch, level) \in IndexEntry
<1> DEFINE batch == Batch(Threshold)
<1>1. /\ batch # {} /\ batch \subseteq LiveAt(entries, level)
      /\ Blend(batch) \in Past(now) /\ MergedEntry(batch, level) \in IndexEntry
  BY RipeNotEmpty, BatchShape DEF Inv
<1>2. batch \subseteq {k \in DOMAIN entries : ~entries[k].consolidated}
  BY <1>1 DEF LiveAt
<1>3. Blend(batch).ids = UNION {records[i].ids : i \in batch}
  BY DEF Blend
<1> HIDE DEF batch
<1>4. {records[i].ids : i \in batch} \in (SUBSET LiveNow) \ {{}}
  BY <1>1, <1>2, LiveCases DEF LiveSets
<1> QED BY <1>1, <1>2, <1>3, <1>4 DEF batch, Cover!Union

\* Consolidation is one Merge: nobody sees a batch and its summary both live
\* or both gone.
LEMMA MergeStep ==
  ASSUME Inv, Intact', Up, Up', LiveAt(entries, level) # {},
         AppendAtLevel(Blend(Batch(Threshold)), MergedEntry(Batch(Threshold), level),
                       Batch(Threshold)),
         acked' = acked
  PROVE  Cover!Next
<1> DEFINE batch == Batch(Threshold)
           r == Blend(batch)
           e == MergedEntry(batch, level)
           live == {k \in DOMAIN entries : ~entries[k].consolidated}
           S == {records[i].ids : i \in batch}
           T == {records[i].ids : i \in live \ batch}
           D == S \ T
<1>1. /\ S \in (SUBSET LiveNow) \ {{}} /\ r.ids = Cover!Union(S) /\ r \in Past(now)
      /\ batch \subseteq live /\ e \in IndexEntry
  BY BatchIsLive
<1>2. ~e.consolidated
  BY DEF MergedEntry
<1>3. /\ records \in Seq(Past(now)) /\ entries \in Seq(IndexEntry) /\ now \in Nat
      /\ Len(entries) = Len(records) /\ cells \in Seq(Chunks(now))
  BY UpFacts DEF Inv
<1>4. /\ records' = Append(records, r)
      /\ entries' = Append(MarkConsolidated(entries, batch), e)
      /\ cells' = Append(cells, r)
  <2>1. now <= now /\ TypeInv
    BY <1>3 DEF Inv
  <2> HIDE DEF batch, r, e
  <2>2. AppendAtLevel(r, e, batch)
    BY DEF batch, r, e
  <2> QED BY <1>1, <1>3, <2>1, <2>2, AppendShape DEF AppendAtLevel
<1> HIDE DEF batch, r, e
<1>5. LiveNow' = T \cup {r.ids}
  <2>1. LiveSets(Append(records, r), Append(MarkConsolidated(entries, batch), e))
          = T \cup {r.ids}
    <3>1. records \in Seq(Past(now)) /\ r \in Past(now) /\ entries \in Seq(IndexEntry)
          /\ e \in IndexEntry /\ ~e.consolidated /\ Len(entries) = Len(records)
      BY <1>1, <1>2, <1>3
    <3> QED BY ONLY <3>1, LiveSetsAppend
  <2> HIDE DEF T
  <2> QED BY <1>4, <2>1, LiveCasesNext
<1>6. LiveNow = S \cup T
  BY <1>1, LiveCases DEF LiveSets
<1>7. LiveNow' = (LiveNow \ D) \cup {r.ids}
  BY <1>5, <1>6
<1>8. Written(cells)' = Written(cells) \cup {r.ids}
  <2>1. Written(cells)' = Written(cells')
    BY DEF Written
  <2>2. cells \in Seq(Chunks(now)) /\ r \in Chunks(now)
    BY <1>1, <1>3 DEF Chunks
  <2>3. Written(Append(cells, r)) = Written(cells) \cup {r.ids}
    BY ONLY <2>2, WrittenAppend
  <2> QED BY <1>4, <2>1, <2>3
<1> HIDE DEF S, T
<1>9. Cover!Merge(S, D)
  BY <1>1, <1>7, <1>8 DEF Cover!Merge
<1> QED BY <1>1, <1>9 DEF Cover!Next

\* A new memory is one that was never written.
LEMMA NewMemory ==
  ASSUME Inv, now < MaxNow
  PROVE  /\ now + 1 \in 0 .. MaxNow /\ now + 1 \in Nat /\ now <= now + 1
         /\ now + 1 \notin UNION Written(cells)
         /\ Memory(now + 1) \in Past(now + 1) /\ Memory(now + 1).ids = {now + 1}
<1>1. now \in Nat /\ MaxNow \in Nat
  BY StoreAssumption DEF Inv, TypeInv, TypeOK
<1>2. now + 1 \in 0 .. MaxNow /\ now + 1 \in Nat /\ now <= now + 1 /\ now + 1 \notin 0 .. now
  BY <1>1
<1> QED BY <1>2, WrittenIsPast, MemoryShape DEF Inv, Memory

LEMMA RememberStep ==
  ASSUME Inv, Intact', Remember
  PROVE  Cover!Next
<1> DEFINE r == Memory(now + 1)
<1>1. /\ pc = "idle" /\ now < MaxNow /\ acked' = acked /\ pc' = "cascade"
      /\ AppendAtLevel(r, DefaultEntry, {})
  BY DEF Remember, Serving, past
<1>2. Up /\ Up'
  BY <1>1 DEF Up
<1>3. /\ now + 1 \in 0 .. MaxNow /\ now + 1 \in Nat /\ now <= now + 1
      /\ now + 1 \notin UNION Written(cells)
      /\ r \in Past(now + 1) /\ r.ids = {now + 1}
  BY <1>1, NewMemory
<1> HIDE DEF r
<1>4. /\ DefaultEntry \in IndexEntry /\ ~DefaultEntry.consolidated
      /\ cells \in Seq(Chunks(now + 1)) /\ records \in Seq(Past(now + 1))
      /\ entries \in Seq(IndexEntry) /\ Len(entries) = Len(records)
  BY <1>2, UpFacts, PastGrows, MemoryShape DEF Inv, DefaultEntry
<1>5. /\ records' = Append(records, r)
      /\ entries' = Append(MarkConsolidated(entries, {}), DefaultEntry)
  BY <1>1 DEF AppendAtLevel
<1>6. cells' = Append(cells, r)
  BY <1>1, <1>2, <1>3, <1>4, AppendShape DEF Inv
<1>7. LiveNow' = LiveNow \cup {{now + 1}}
  <2> DEFINE none == {}
             live == {k \in DOMAIN entries : ~entries[k].consolidated}
  <2>1. \A i \in none : FALSE
    OBVIOUS
  <2>2. entries' = Append(MarkConsolidated(entries, none), DefaultEntry)
    BY <1>5
  <2> HIDE DEF none
  <2>3. LiveSets(Append(records, r), Append(MarkConsolidated(entries, none), DefaultEntry))
          = {records[i].ids : i \in live \ none} \cup {r.ids}
    <3>1. records \in Seq(Past(now + 1)) /\ r \in Past(now + 1)
          /\ entries \in Seq(IndexEntry) /\ DefaultEntry \in IndexEntry
          /\ ~DefaultEntry.consolidated /\ Len(entries) = Len(records)
      BY <1>3, <1>4
    <3> QED BY ONLY <3>1, LiveSetsAppend
  <2>4. {records[i].ids : i \in live \ none} = LiveNow
    <3>1. LiveNow = {records[i].ids : i \in live}
      BY <1>2, LiveCases DEF LiveSets
    <3> HIDE DEF live
    <3>2. live \ none = live
      BY <2>1
    <3> QED BY <3>1, <3>2
  <2> HIDE DEF live
  <2>5. LiveNow' = LiveSets(records', entries')
    BY <1>2, LiveCasesNext
  <2> QED BY <1>3, <1>5, <2>2, <2>3, <2>4, <2>5
<1>8. Written(cells)' = Written(cells) \cup {{now + 1}}
  <2>1. Written(cells)' = Written(cells')
    BY DEF Written
  <2>2. cells \in Seq(Chunks(now + 1)) /\ r \in Chunks(now + 1)
    BY <1>3, <1>4 DEF Chunks
  <2>3. Written(Append(cells, r)) = Written(cells) \cup {r.ids}
    BY ONLY <2>2, WrittenAppend
  <2> QED BY <1>3, <1>6, <2>1, <2>3
<1>9. Cover!Remember(now + 1)
  BY <1>1, <1>3, <1>7, <1>8 DEF Cover!Remember
<1> QED BY <1>3, <1>9 DEF Cover!Next

LEMMA TellStep ==
  ASSUME Inv, AppendFlush
  PROVE  Cover!Next
<1>1. /\ pc = "flush" /\ pc' = "idle" /\ acked' = acked \cup {pending}
      /\ UNCHANGED <<cells, records, entries>>
  BY DEF AppendFlush, mem
<1>2. Up /\ Up'
  BY <1>1 DEF Up
<1>3. PICK i \in DOMAIN records : pending \in records[i].ids
  BY <1>1 DEF Inv, Safe, MemSafe, KeptNow, Held
<1>4. pending \in UNION LiveNow
  BY <1>2, <1>3, LiveCases DEF Inv, Safe, MemSafe, CoveredNow, Covers, LiveSets
<1>5. pending \in 0 .. MaxNow
  BY <1>3 DEF Inv, Safe, Aligned, Alone, Own, Held
<1>6. LiveNow' = LiveNow /\ Written(cells)' = Written(cells)
  BY <1>1, <1>2, LiveCases, LiveCasesNext DEF Written
<1>7. Cover!Tell(pending)
  BY <1>1, <1>4, <1>6 DEF Cover!Tell
<1> QED BY <1>5, <1>7 DEF Cover!Next

\* A record of live memories, or of a new one, whose write or fsync failed.
LEMMA FailedMerge ==
  ASSUME Inv, Intact', Up, LiveAt(entries, level) # {},
         Attempt(Blend(Batch(Threshold))), index' = index, acked' = acked,
         Gone \/ (Up' /\ UNCHANGED <<records, entries>>)
  PROVE  Cover!Next \/ UNCHANGED CoverVars
<1> DEFINE r == Blend(Batch(Threshold))
           S == {records[i].ids : i \in Batch(Threshold)}
<1>1. S \in (SUBSET LiveNow) \ {{}} /\ r.ids = Cover!Union(S) /\ r \in Past(now)
  BY BatchIsLive
<1>2. now \in Nat /\ now <= now
  BY UpFacts DEF Inv
<1> HIDE DEF r, S
<1>3. cells' \in {cells, Append(cells, r)}
  BY <1>1, <1>2, FailedAppend DEF Inv, r
<1>4. CASE cells' = Append(cells, r)
  <2>1. Cover!Orphan(r.ids)
    BY <1>1, <1>2, <1>4, OrphanStep
  <2> QED BY <1>1, <2>1 DEF Cover!Next
<1>5. CASE cells' = cells
  BY <1>5, EndedOrSame, QuietStep DEF Quiet
<1> QED BY <1>3, <1>4, <1>5

LEMMA FailedRemember ==
  ASSUME Inv, Intact', RememberFails
  PROVE  Cover!Next \/ UNCHANGED CoverVars
<1>1. /\ pc = "idle" /\ now < MaxNow /\ pc' = pc
      /\ Attempt(Memory(now + 1))
      /\ UNCHANGED <<records, entries, index, acked>>
  BY DEF RememberFails, AppendFails, Attempt, Serving, past
<1>2. Up /\ Up'
  BY <1>1 DEF Up
<1> DEFINE r == Memory(now + 1)
<1>3. /\ now + 1 \in 0 .. MaxNow /\ now + 1 \in Nat /\ now <= now + 1
      /\ now + 1 \notin UNION Written(cells)
      /\ r \in Past(now + 1) /\ r.ids = {now + 1}
  BY <1>1, NewMemory
<1> HIDE DEF r
<1>4. cells' \in {cells, Append(cells, r)}
  BY <1>1, <1>3, FailedAppend DEF Inv, r
<1>5. CASE cells' = Append(cells, r)
  <2>1. Cover!Orphan({now + 1})
    BY <1>1, <1>2, <1>3, <1>5, OrphanStep
  <2> QED BY <1>3, <2>1 DEF Cover!Next
<1>6. CASE cells' = cells
  BY <1>1, <1>2, <1>6, EndedOrSame, QuietStep DEF Quiet
<1> QED BY <1>4, <1>5, <1>6

\* The files and the index that a process finds are what is live.
LEMMA OpeningStep ==
  ASSUME Inv, Intact', Opening
  PROVE  Quiet /\ (LiveNow' = LiveNow \/ LiveNow' = Written(cells))
<1>1. CASE RemoveIndex
  <2>1. pc' = "removed" /\ index' = NoIndex /\ Quiet
    BY <1>1 DEF RemoveIndex, past, Quiet
  <2>2. ~Up' /\ ~InStep' /\ cells' = cells
    BY <2>1 DEF Up, InStep, NoIndex, Quiet
  <2> QED BY <2>1, <2>2, LiveCasesNext
<1>2. ASSUME ~Up, ~Up', Quiet, index' = index
      PROVE  LiveNow' = LiveNow
  BY <1>2, LiveCases, LiveCasesNext DEF Quiet, InStep
<1>3. CASE OpenCreate \/ CreateEmpty
  BY <1>2, <1>3 DEF OpenCreate, CreateEmpty, past, Quiet, Up
<1>4. CASE CreateEmptyFails \/ RefuseIndex \/ CreateFreshFails
  BY <1>2, <1>4 DEF CreateEmptyFails, RefuseIndex, CreateFreshFails, Gone, disk, past,
                    Quiet, Up
<1>5. ASSUME NEW r \in Roles, LoadAll(r) \/ LoadAllFails(r)
      PROVE  Quiet /\ LiveNow' = LiveNow
  BY <1>2, <1>5 DEF LoadAll, LoadAllFails, Open, Gone, disk, past, Quiet, Up
<1>6. ASSUME Start
      PROVE  Up'
  BY <1>6 DEF Start, Up
<1>7. CASE OpenIndex
  <2>1. /\ pc = "loaded" /\ index.exists /\ InSync /\ entries' = index.entries /\ Up'
        /\ UNCHANGED <<cells, index, records, acked>>
    BY <1>6, <1>7 DEF OpenIndex, disk, past
  <2>2. ~Up /\ records = cells /\ InStep
    BY <2>1 DEF Up, InSync, InStep, Inv, Alone
  <2> QED BY <2>1, <2>2, LiveCases, LiveCasesNext DEF Quiet
<1>8. CASE CreateFresh
  <2>1. /\ pc = "loaded" /\ ~index.exists /\ Up'
        /\ entries' = [i \in DOMAIN records |-> DefaultEntry]
        /\ UNCHANGED <<cells, records, acked>>
    BY <1>6, <1>8 DEF CreateFresh
  <2>2. ~Up /\ records = cells /\ ~InStep
    BY <2>1 DEF Up, InStep, Inv, Alone
  <2>3. LiveSets(records', entries') = Written(cells)
    <3>1. {k \in DOMAIN entries' : ~entries'[k].consolidated} = DOMAIN records
      BY <2>1 DEF DefaultEntry
    <3> QED BY <2>1, <2>2, <3>1 DEF LiveSets, Written
  <2> QED BY <2>1, <2>2, <2>3, LiveCases, LiveCasesNext DEF Quiet
<1> QED BY <1>1, <1>3, <1>4, <1>5, <1>7, <1>8 DEF Opening

LEMMA ForcingStep ==
  ASSUME Inv, Intact', Forcing
  PROVE  Cover!Next \/ UNCHANGED CoverVars
<1>1. ASSUME NEW any, NextLevel(any)
      PROVE  Gone \/ (Up' /\ UNCHANGED <<records, entries>>)
  BY <1>1 DEF NextLevel, mem, Up
<1>2. CASE ForceMerge
  <2>1. /\ pc = "force" /\ ForceRipe /\ pc' = "forceFlush" /\ acked' = acked
        /\ AppendAtLevel(Blend(Batch(Threshold)), MergedEntry(Batch(Threshold), level),
                         Batch(Threshold))
    BY <1>2 DEF ForceMerge, past
  <2>2. Up /\ Up'
    BY <2>1 DEF Up
  <2>3. LiveAt(entries, level) # {}
    BY <2>1, RipeNotEmpty DEF Inv
  <2> QED BY <2>1, <2>2, <2>3, MergeStep
<1>3. CASE ForceMergeFails
  <2>1. /\ pc = "force" /\ ForceRipe /\ Gone /\ UNCHANGED <<index, acked>>
        /\ Attempt(Blend(Batch(Threshold)))
    BY <1>3 DEF ForceMergeFails, Attempt, past
  <2>2. Up
    BY <2>1 DEF Up
  <2>3. LiveAt(entries, level) # {}
    BY <2>1, RipeNotEmpty DEF Inv
  <2> QED BY <2>1, <2>2, <2>3, FailedMerge
<1>4. CASE ForceFlush
  <2>1. /\ pc = "forceFlush" /\ index' = Flushed /\ NextLevel(TRUE) /\ Quiet
    BY <1>4 DEF ForceFlush, past, Quiet
  <2>2. Up /\ index'.exists /\ index'.entries = entries
    BY <2>1 DEF Up, Flushed
  <2> QED BY <1>1, <2>1, <2>2, EndedOrSame, QuietStep
<1>5. CASE ForceFlushFails \/ ForceNothing
  <2>1. /\ pc \in {"force", "forceFlush"} /\ Quiet /\ index' = index
        /\ Gone \/ NextLevel(force.any)
    BY <1>5 DEF ForceFlushFails, ForceNothing, disk, past, Quiet
  <2>2. Up
    BY <2>1 DEF Up
  <2> QED BY <1>1, <2>1, <2>2, EndedOrSame, QuietStep
<1> QED BY <1>2, <1>3, <1>4, <1>5 DEF Forcing

LEMMA RememberingStep ==
  ASSUME Inv, Intact', Remembering
  PROVE  Cover!Next \/ UNCHANGED CoverVars
<1>1. CASE Consolidate
  <2>1. /\ pc = "cascade" /\ Ripe /\ pc' \in {"cascade", "flush"} /\ acked' = acked
        /\ AppendAtLevel(Blend(Batch(Threshold)), MergedEntry(Batch(Threshold), level),
                         Batch(Threshold))
    BY <1>1 DEF Consolidate, past
  <2>2. Up /\ Up'
    BY <2>1 DEF Up
  <2>3. LiveAt(entries, level) # {}
    BY <2>1, RipeNotEmpty DEF Inv
  <2> QED BY <2>1, <2>2, <2>3, MergeStep
<1>2. CASE ConsolidateFails
  <2>1. /\ pc = "cascade" /\ Ripe /\ pc' = "idle" /\ UNCHANGED <<index, acked>>
        /\ Attempt(Blend(Batch(Threshold)))
        /\ UNCHANGED <<records, entries>>
    BY <1>2 DEF ConsolidateFails, AppendFails, Attempt, past
  <2>2. Up /\ Up'
    BY <2>1 DEF Up
  <2>3. LiveAt(entries, level) # {}
    BY <2>1, RipeNotEmpty DEF Inv
  <2> QED BY <2>1, <2>2, <2>3, FailedMerge
<1>3. CASE NothingToConsolidate \/ AppendFlushFails
  <2>1. /\ pc \in {"cascade", "flush"} /\ pc' \in {"cascade", "flush", "idle"}
        /\ index' = index /\ Quiet /\ UNCHANGED <<records, entries>>
    BY <1>3 DEF NothingToConsolidate, AppendFlushFails, disk, mem, past, Quiet
  <2>2. Up /\ Up'
    BY <2>1 DEF Up
  <2> QED BY <2>1, <2>2, EndedOrSame, QuietStep
<1> QED BY <1>1, <1>2, <1>3, RememberStep, FailedRemember, TellStep DEF Remembering

LEMMA EndingStep ==
  ASSUME Inv, Intact', Ending
  PROVE  Cover!Next \/ UNCHANGED CoverVars
<1>1. ASSUME Gone, Quiet, index' = index
      PROVE  Cover!Next \/ UNCHANGED CoverVars
  <2>1. CASE Up
    BY <1>1, <2>1, EndedOrSame, QuietStep
  <2>2. CASE ~Up
    <3>1. ~Up' /\ (InStep' <=> InStep) /\ cells' = cells
      BY <1>1 DEF Gone, Up, InStep, Quiet
    <3>2. LiveNow' = LiveNow
      BY <1>1, <2>2, <3>1, LiveCases, LiveCasesNext
    <3> QED BY <1>1, <3>2, QuietStep
  <2> QED BY <2>1, <2>2
<1>2. CASE Exit \/ Crash
  BY <1>1, <1>2 DEF Exit, Crash, disk, past, Quiet
<1>3. CASE CrashInWrite
  <2>1. Gone /\ UNCHANGED <<index, acked>>
    BY <1>3 DEF CrashInWrite, past
  <2>2. cells' = cells
    BY <1>3, CrashedWrite, PartialWrite DEF Inv
  <2> QED BY <1>1, <2>1, <2>2 DEF Quiet
<1> QED BY <1>2, <1>3 DEF Ending

LEMMA TouchRecallStep ==
  ASSUME Inv, TouchRecall
  PROVE  Cover!Next \/ UNCHANGED CoverVars
<1>1. /\ pc = "idle" /\ pc' = pc /\ Quiet /\ UNCHANGED <<records, entries>>
      /\ index' = [Flushed EXCEPT !.cursor = cursor'] \/ index' = index
  BY DEF TouchRecall, Serving, past, Quiet
<1>2. Up /\ Up'
  BY <1>1 DEF Up
<1>3. index' = [Flushed EXCEPT !.cursor = cursor'] =>
        index'.exists /\ index'.entries = entries
  BY DEF Flushed
<1> QED BY <1>1, <1>2, <1>3, EndedOrSame, QuietStep

LEMMA InitCover == Init => Cover!Init
<1> SUFFICES ASSUME Init PROVE Cover!Init
  OBVIOUS
<1>1. ~Up /\ ~InStep /\ cells = <<>> /\ acked = {}
  BY DEF Init, Up, InStep, NoIndex
<1>2. Written(cells) = {}
  BY <1>1 DEF Written
<1> QED BY <1>1, <1>2, LiveCases DEF Cover!Init

LEMMA NextCover ==
  ASSUME Inv, Intact', [Next]_vars
  PROVE  Cover!Next \/ UNCHANGED CoverVars
<1>1. CASE UNCHANGED vars
  <2>1. UNCHANGED <<pc, cells, index, records, entries, acked>>
    BY <1>1 DEF vars, disk, mem, past
  <2>2. (Up' <=> Up) /\ (InStep' <=> InStep)
    BY <2>1 DEF Up, InStep
  <2>3. LiveNow' = LiveNow
    BY <2>1, <2>2, LiveCases, LiveCasesNext
  <2> QED BY <2>1, <2>3, QuietStep DEF Quiet
<1>2. CASE Opening
  BY <1>2, OpeningStep, QuietStep
<1> QED BY <1>1, <1>2, RememberingStep, TouchRecallStep, ForcingStep, EndingStep DEF Next

\* The store implements MemoryCover in every behaviour in which no process writes
\* behind a part of a record: through crashes, failed writes, fsyncs and flushes,
\* refused and rebuilt indexes, what a reader can find changes only by a new
\* memory, by a merge that replaces its batch at once, or by a relapse to all that
\* was written.
THEOREM IntactImplementsCover == Spec /\ []Intact => ImplementsCover
<1>1. StoreInv /\ Intact => Inv
  BY DEF StoreInv, Inv
<1>2. Inv /\ Intact' /\ [Next]_vars => [Cover!Next]_CoverVars
  BY NextCover
<1>3. Init => Cover!Init
  BY InitCover
<1> QED BY <1>1, <1>2, <1>3, StoreInvariance, PTL DEF Spec, ImplementsCover, Cover!Spec, Cover!vars, CoverVars

\* The store implements MemoryCover if no write fails part way in a process that
\* lives on, whatever crashes, and whichever fsyncs and flushes fail.
THEOREM StoreImplementsCover ==
  ASSUME "write" \notin Faults
  PROVE  Spec => ImplementsCover
BY StaysIntact, IntactImplementsCover, PTL

-----------------------------------------------------------------------------
(***************************************************************************)
(* What MemoryCover promises.                                              *)
(***************************************************************************)
\* Told memories stay live only because what is live was written: after a
\* relapse it is what was written that has to hold them.
ToldInv == Cover!ToldIsLive /\ LiveNow \subseteq Written(cells)

\* A batch that gives way to its union takes no memory with it.
LEMMA MergeKeeps ==
  ASSUME NEW live, NEW S \in SUBSET live, NEW D \in SUBSET S
  PROVE  UNION live \subseteq UNION ((live \ D) \cup {Cover!Union(S)})
<1> SUFFICES ASSUME NEW m, NEW s \in live, m \in s
             PROVE  m \in UNION ((live \ D) \cup {Cover!Union(S)})
  OBVIOUS
<1>1. CASE s \in D
  <2>1. m \in Cover!Union(S)
    BY <1>1 DEF Cover!Union
  <2> QED BY <2>1
<1>2. CASE s \notin D
  BY <1>2
<1> QED BY <1>1, <1>2

LEMMA CoverKeeps ==
  ASSUME ToldInv, [Cover!Next]_CoverVars
  PROVE  ToldInv'
<1> DEFINE live == LiveNow
           ever == Written(cells)
<1>1. UNCHANGED CoverVars => live' = live /\ ever' = ever /\ acked' = acked
  BY DEF CoverVars
<1>2. acked \subseteq UNION live /\ live \subseteq ever
  BY DEF ToldInv, Cover!ToldIsLive
<1> SUFFICES acked' \subseteq UNION live' /\ live' \subseteq ever'
  BY DEF ToldInv, Cover!ToldIsLive
<1> HIDE DEF live, ever
<1>3. ASSUME NEW m \in 0 .. MaxNow, Cover!Remember(m)
      PROVE  acked' \subseteq UNION live' /\ live' \subseteq ever'
  BY <1>2, <1>3 DEF Cover!Remember, live, ever
<1>4. ASSUME NEW m \in 0 .. MaxNow, Cover!Tell(m)
      PROVE  acked' \subseteq UNION live' /\ live' \subseteq ever'
  BY <1>2, <1>4 DEF Cover!Tell, live, ever
<1>5. ASSUME NEW s, Cover!Orphan(s)
      PROVE  acked' \subseteq UNION live' /\ live' \subseteq ever'
  BY <1>2, <1>5 DEF Cover!Orphan, live, ever
<1>6. ASSUME NEW S \in SUBSET live, NEW D \in SUBSET S, Cover!Merge(S, D)
      PROVE  acked' \subseteq UNION live' /\ live' \subseteq ever'
  <2>1. /\ live' = (live \ D) \cup {Cover!Union(S)}
        /\ ever' = ever \cup {Cover!Union(S)} /\ acked' = acked
    BY <1>6 DEF Cover!Merge, live, ever
  <2>2. UNION live \subseteq UNION live'
    BY <2>1, MergeKeeps
  <2> QED BY <1>2, <2>1, <2>2
<1>7. CASE Cover!Relapse
  BY <1>2, <1>7 DEF Cover!Relapse, live, ever
<1>8. Cover!Next =>
        \/ \E m \in 0 .. MaxNow : Cover!Remember(m) \/ Cover!Tell(m)
        \/ \E s : Cover!Orphan(s)
        \/ \E S \in SUBSET live : \E D \in SUBSET S : Cover!Merge(S, D)
        \/ Cover!Relapse
  BY DEF Cover!Next, live
<1> QED BY <1>1, <1>2, <1>3, <1>4, <1>5, <1>6, <1>7, <1>8

\* However the store is merged, torn down and rebuilt, a memory that was
\* reported as remembered can be recalled: MemoryCover allows nothing else.
THEOREM ToldStaysLive == ImplementsCover => []Cover!ToldIsLive
<1>1. Cover!Init => ToldInv
  BY DEF Cover!Init, ToldInv, Cover!ToldIsLive
<1>2. ToldInv /\ [Cover!Next]_CoverVars => ToldInv'
  BY CoverKeeps
<1> QED BY <1>1, <1>2, PTL DEF ImplementsCover, Cover!Spec, Cover!vars, CoverVars, ToldInv

-----------------------------------------------------------------------------
(* leet absorb *)

(***************************************************************************)
(* The inductive invariant.                                                *)
(***************************************************************************)
\* A record stands for something, and one that stands for nothing but a session
\* carries the time of the turn it was made from.
Genuine(r) ==
  /\ r.ids # {}
  /\ \A s \in Sessions, t \in 0 .. MaxNow : r.ids = {SessionId(s, t)} => r.unix_ns = t

\* What is on file, and in memory: a record in memory stands for nothing but a
\* session only if one on file does.
Sound ==
  /\ \A i \in DOMAIN cells : Genuine(cells[i])
  /\ \A i \in DOMAIN records : Genuine(records[i])
  /\ \A i \in DOMAIN records, s \in Sessions, t \in 0 .. MaxNow :
       records[i].ids = {SessionId(s, t)} => Imports(s, t) # {}

\* The sessions that absorb found are as they were at some time that has come.
Discovered ==
  /\ now <= MaxNow
  /\ latest \in [Sessions -> -1 .. now]
  /\ todo \subseteq Sessions \X (0 .. now)
  /\ phase \in {"off", "found", "copy", "create", "write", "done"}

\* The session that absorb has yet to look at is not in the file, unless its
\* time is known.
Unknown ==
  phase \in {"copy", "create", "write"} /\ "force" \notin flags =>
    \A d \in todo : Imports(d[1], d[2]) # {} => d[2] \in seen

AbsorbInv ==
  /\ TypeInv /\ Discovered
  /\ ~misled => MemSafe
  /\ Intact => Safe /\ Sound /\ Unknown

(***************************************************************************)
(* The records of the sessions.                                            *)
(***************************************************************************)
\* A number times a greater one.
LEMMA TimesMore ==
  ASSUME NEW n \in Nat, NEW a \in Nat, NEW b \in Nat, a < b
  PROVE  n * a + n <= n * b
<1> DEFINE k == b - a - 1
<1>1. k \in Nat /\ b = a + (k + 1)
  OBVIOUS
<1>2. n * b = n * a + n * (k + 1)
  BY <1>1
<1>3. n * (k + 1) = n * k + n /\ n * k \in Nat
  BY <1>1
<1>4. n * a \in Nat
  OBVIOUS
<1> QED BY <1>2, <1>3, <1>4

\* A summary of a session is taken for no other, and for no memory.
LEMMA SessionIds ==
  ASSUME NEW s \in Sessions, NEW t \in 0 .. MaxNow
  PROVE  /\ SessionId(s, t) \in Nat /\ SessionId(s, t) > MaxNow
         /\ \A u \in Sessions, v \in 0 .. MaxNow :
              SessionId(s, t) = SessionId(u, v) => s = u /\ t = v
<1> DEFINE n == MaxNow + 1
<1>1. n \in Nat /\ MaxNow \in Nat /\ s \in Nat /\ s > 0 /\ t \in Nat
  BY StoreAssumption, AbsorbAssumption
<1>2. n * 0 + n <= n * s /\ n * s \in Nat /\ n * 0 = 0
  BY <1>1, TimesMore
<1>3. SessionId(s, t) = n * s + t
  BY DEF SessionId
<1>4. ASSUME NEW u \in Sessions, NEW v \in 0 .. MaxNow, SessionId(s, t) = SessionId(u, v)
      PROVE  s = u /\ t = v
  <2>1. u \in Nat /\ v \in Nat /\ v < n /\ t < n /\ n * s + t = n * u + v
    BY <1>1, <1>4, AbsorbAssumption DEF SessionId
  <2>2. n * s \in Nat /\ n * u \in Nat
    BY <1>1, <2>1
  <2>3. CASE s < u
    <3>1. n * s + n <= n * u
      BY <1>1, <2>1, <2>3, TimesMore
    <3> QED BY <1>1, <2>1, <2>2, <3>1
  <2>4. CASE u < s
    <3>1. n * u + n <= n * s
      BY <1>1, <2>1, <2>4, TimesMore
    <3> QED BY <1>1, <2>1, <2>2, <3>1
  <2>5. CASE s = u
    BY <2>1, <2>2, <2>5
  <2> QED BY <1>1, <2>1, <2>3, <2>4, <2>5
<1> HIDE DEF n
<1> QED BY <1>1, <1>2, <1>3, <1>4 DEF n

LEMMA SessionRecordIs ==
  ASSUME TypeInv, Discovered, NEW d \in todo
  PROVE  /\ d[1] \in Sessions /\ d[2] \in 0 .. now /\ d[2] \in 0 .. MaxNow
         /\ SessionRecord(d) \in Past(now) /\ Genuine(SessionRecord(d))
         /\ SessionRecord(d).ids = {SessionId(d[1], d[2])}
<1>1. now \in Nat /\ MaxNow \in Nat /\ now <= MaxNow
  BY StoreAssumption DEF TypeInv, TypeOK, Discovered
<1>2. d[1] \in Sessions /\ d[2] \in 0 .. now
  BY DEF Discovered
<1>3. d[2] \in 0 .. MaxNow
  BY <1>1, <1>2
<1>4. /\ SessionRecord(d).ids = {SessionId(d[1], d[2])}
      /\ SessionRecord(d).unix_ns = d[2]
  BY DEF SessionRecord
<1>5. SessionRecord(d) \in Past(now)
  <2>1. SessionId(d[1], d[2]) \in Nat /\ SessionId(d[1], d[2]) > MaxNow
    BY <1>2, <1>3, SessionIds
  <2>2. ~(SessionId(d[1], d[2]) <= MaxNow)
    BY <1>1, <2>1
  <2> QED BY <1>2, <2>1, <2>2 DEF SessionRecord, Past
<1>6. Genuine(SessionRecord(d))
  BY <1>2, <1>3, <1>4, SessionIds DEF Genuine
<1> QED BY <1>2, <1>3, <1>4, <1>5, <1>6

\* A memory is no session.
LEMMA MemoryGenuine ==
  ASSUME NEW n \in 0 .. MaxNow
  PROVE  /\ Genuine(Memory(n))
         /\ \A s \in Sessions, t \in 0 .. MaxNow : Memory(n).ids # {SessionId(s, t)}
<1>1. \A s \in Sessions, t \in 0 .. MaxNow : Memory(n).ids # {SessionId(s, t)}
  <2> TAKE s \in Sessions, t \in 0 .. MaxNow
  <2>1. SessionId(s, t) > MaxNow /\ SessionId(s, t) \in Nat /\ MaxNow \in Nat
    BY SessionIds, StoreAssumption
  <2>2. n # SessionId(s, t)
    BY <2>1
  <2> QED BY <2>2 DEF Memory
<1>2. Memory(n).ids # {}
  BY DEF Memory
<1> QED BY <1>1, <1>2 DEF Genuine

\* The greatest of equal times.
LEMMA MaxOfOne ==
  ASSUME NEW t \in Nat
  PROVE  Max({t}) = t
<1>1. {t} \in SUBSET (0 .. t) /\ {t} # {}
  OBVIOUS
<1>2. Max({t}) \in {t}
  BY <1>1, MaxOfNats
<1> QED BY <1>2

\* A summary of nothing but a session was made of records of that session.
LEMMA BlendGenuine ==
  ASSUME Sound, NEW batch, batch # {}, batch \subseteq DOMAIN records
  PROVE  /\ Genuine(Blend(batch))
         /\ \A s \in Sessions, t \in 0 .. MaxNow :
              Blend(batch).ids = {SessionId(s, t)} => Imports(s, t) # {}
<1>1. /\ Blend(batch).ids = UNION {records[i].ids : i \in batch}
      /\ Blend(batch).unix_ns = Max({records[i].unix_ns : i \in batch})
  BY DEF Blend
<1>2. \A i \in batch : Genuine(records[i])
  BY DEF Sound
<1>3. Blend(batch).ids # {}
  BY <1>1, <1>2 DEF Genuine
<1>4. ASSUME NEW s \in Sessions, NEW t \in 0 .. MaxNow,
             Blend(batch).ids = {SessionId(s, t)}
      PROVE  Blend(batch).unix_ns = t /\ Imports(s, t) # {}
  <2>1. \A i \in batch : records[i].ids = {SessionId(s, t)}
    BY <1>1, <1>2, <1>4 DEF Genuine
  <2>2. \A i \in batch : records[i].unix_ns = t
    BY <1>2, <2>1 DEF Genuine
  <2>3. {records[i].unix_ns : i \in batch} = {t}
    BY <2>2
  <2>4. t \in Nat
    BY StoreAssumption
  <2> QED BY <1>1, <2>1, <2>3, <2>4, MaxOfOne DEF Sound
<1> QED BY <1>3, <1>4 DEF Genuine

(***************************************************************************)
(* What the program that has the store open does to the records.           *)
(***************************************************************************)
\* A record that imports no session, but one that was imported.
Known(r) ==
  /\ Genuine(r)
  /\ \A s \in Sessions, t \in 0 .. MaxNow :
       r.ids = {SessionId(s, t)} => Imports(s, t) # {}

LEMMA WritesKnown ==
  ASSUME Intact', NEW r, Known(r), NEW e, NEW b, AppendAtLevel(r, e, b) \/ Attempt(r)
  PROVE  cells' = cells \/ \E c : Known(c) /\ cells' = Append(cells, c)
BY WholeWrite, PartialWrite DEF AppendAtLevel, Attempt

\* What a step of that program leaves on file and in memory.
LEMMA Handled ==
  ASSUME TypeInv, Sound, Intact', [Next]_vars
  PROVE  /\ cells' = cells \/ \E c : Known(c) /\ cells' = Append(cells, c)
         /\ \/ records' = records \/ records' = <<>>
            \/ records' = Readable(cells) /\ cells' = cells
            \/ \E r : /\ Genuine(r) /\ Known(r) /\ records' = Append(records, r)
                      /\ \E m \in Nat : now <= m /\ r \in Past(m)
<1>0. now \in Nat /\ MaxNow \in Nat
  BY StoreAssumption DEF TypeInv, TypeOK
<1>1. CASE UNCHANGED vars
  BY <1>1 DEF vars, disk, mem
<1>2. CASE Opening
  BY <1>2 DEF Opening, OpenCreate, CreateEmpty, CreateEmptyFails, RemoveIndex, LoadAll,
              LoadAllFails, OpenIndex, RefuseIndex, CreateFresh, CreateFreshFails, Gone,
              disk, mem
<1>3. CASE Remember \/ RememberFails
  <2> DEFINE r == Memory(now + 1)
  <2>1. /\ pc = "idle" /\ now < MaxNow
        /\ \/ AppendAtLevel(r, DefaultEntry, {})
           \/ Attempt(r) /\ records' = records
    BY <1>3 DEF Remember, RememberFails, AppendFails, Attempt, Serving
  <2>2. now + 1 \in 0 .. MaxNow /\ now + 1 \in Nat /\ now <= now + 1
    BY <1>0, <2>1
  <2>3. Genuine(r) /\ Known(r) /\ r \in Past(now + 1)
    BY <2>2, MemoryGenuine, MemoryShape DEF Known
  <2> HIDE DEF r
  <2>4. cells' = cells \/ \E c : Known(c) /\ cells' = Append(cells, c)
    BY <2>1, <2>3, WritesKnown
  <2>5. records' = records \/ records' = Append(records, r)
    BY <2>1 DEF AppendAtLevel
  <2> QED BY <2>2, <2>3, <2>4, <2>5
<1>4. CASE Consolidate \/ ConsolidateFails \/ ForceMerge \/ ForceMergeFails
  <2> DEFINE batch == Batch(Threshold)
             r == Blend(batch)
             e == MergedEntry(batch, level)
  <2>1. /\ Up /\ (Ripe \/ ForceRipe)
        /\ \/ AppendAtLevel(r, e, batch)
           \/ Attempt(r) /\ (records' = records \/ records' = <<>>)
    BY <1>4 DEF Consolidate, ConsolidateFails, ForceMerge, ForceMergeFails,
                AppendFails, Attempt, Gone, Up
  <2>2. batch # {} /\ batch \subseteq DOMAIN records /\ r \in Past(now)
    BY <2>1, RipeNotEmpty, BatchShape
  <2> HIDE DEF batch, e
  <2>3. Genuine(r) /\ Known(r)
    BY <2>2, BlendGenuine DEF Known
  <2> HIDE DEF r
  <2>4. cells' = cells \/ \E c : Known(c) /\ cells' = Append(cells, c)
    BY <2>1, <2>3, WritesKnown
  <2>5. records' = records \/ records' = <<>> \/ records' = Append(records, r)
    BY <2>1 DEF AppendAtLevel
  <2>6. now <= now
    BY <1>0
  <2> QED BY <1>0, <2>2, <2>3, <2>4, <2>5, <2>6
<1>5. CASE NothingToConsolidate \/ AppendFlush \/ AppendFlushFails \/ TouchRecall
           \/ ForceFlush \/ ForceFlushFails \/ ForceNothing \/ Exit \/ Crash
  BY <1>5 DEF NothingToConsolidate, AppendFlush, AppendFlushFails, TouchRecall,
              ForceFlush, ForceFlushFails, ForceNothing, NextLevel, Exit, Crash, Gone,
              disk, mem
<1>6. CASE CrashInWrite
  <2>1. Gone /\ \E r \in Past(now') : WritePart(r)
    BY <1>6, CrashedWrite
  <2> QED BY <2>1, PartialWrite DEF Gone
<1> QED
  BY <1>1, <1>2, <1>3, <1>4, <1>5, <1>6 DEF Next, Remembering, Forcing, Ending

\* A chunk more, and the imports among them.
LEMMA ImportsAppend ==
  ASSUME TypeInv, NEW c, cells' = Append(cells, c), NEW s, NEW t
  PROVE  /\ Imports(s, t) \subseteq Imports(s, t)'
         /\ c.ids # {SessionId(s, t)} => Imports(s, t)' = Imports(s, t)
<1> DEFINE S == StoreRecord \cup {Corrupt} \cup {c}
<1>1. cells \in Seq(S) /\ c \in S
  <2>1. cells \in Seq(StoreRecord \cup {Corrupt})
    BY DEF TypeInv, TypeOK
  <2> QED BY <2>1, SeqMonotonic
<1> HIDE DEF S
<1>2. /\ DOMAIN cells = 1 .. Len(cells) /\ DOMAIN cells' = 1 .. Len(cells) + 1
      /\ \A i \in 1 .. Len(cells) : cells'[i] = cells[i]
      /\ cells'[Len(cells) + 1] = c
      /\ Len(cells) \in Nat
  BY <1>1, Appended, LenProperties
<1>3. 1 .. Len(cells) + 1 = (1 .. Len(cells)) \cup {Len(cells) + 1}
  BY <1>2
<1>4. /\ Imports(s, t)' = {i \in DOMAIN cells' : cells'[i].ids = {SessionId(s, t)}}
      /\ Imports(s, t) = {i \in DOMAIN cells : cells[i].ids = {SessionId(s, t)}}
  BY DEF Imports, SessionId
<1> QED BY <1>2, <1>3, <1>4

LEMMA ImportsSame ==
  ASSUME cells' = cells, NEW s, NEW t
  PROVE  Imports(s, t)' = Imports(s, t)
BY DEF Imports, SessionId

\* The chunks stay sound if the one added is.
LEMMA CellsSound ==
  ASSUME TypeInv, Sound, cells' = cells \/ \E c : Genuine(c) /\ cells' = Append(cells, c)
  PROVE  /\ \A i \in DOMAIN cells' : Genuine(cells'[i])
         /\ \A s \in Sessions, t \in 0 .. MaxNow : Imports(s, t) \subseteq Imports(s, t)'
<1>1. CASE cells' = cells
  BY <1>1, ImportsSame DEF Sound
<1>2. ASSUME NEW c, Genuine(c), cells' = Append(cells, c)
      PROVE  \A i \in DOMAIN cells' : Genuine(cells'[i])
  <2> DEFINE S == StoreRecord \cup {Corrupt} \cup {c}
  <2>1. cells \in Seq(S) /\ c \in S
    <3>1. cells \in Seq(StoreRecord \cup {Corrupt})
      BY DEF TypeInv, TypeOK
    <3> QED BY <3>1, SeqMonotonic
  <2> HIDE DEF S
  <2>2. /\ DOMAIN cells = 1 .. Len(cells) /\ DOMAIN cells' = 1 .. Len(cells) + 1
        /\ \A i \in 1 .. Len(cells) : cells'[i] = cells[i]
        /\ cells'[Len(cells) + 1] = c
        /\ Len(cells) \in Nat
    BY <1>2, <2>1, Appended, LenProperties
  <2>3. 1 .. Len(cells) + 1 = (1 .. Len(cells)) \cup {Len(cells) + 1}
    BY <2>2
  <2> QED BY <1>2, <2>2, <2>3 DEF Sound
<1>3. ASSUME NEW c, cells' = Append(cells, c)
      PROVE  \A s \in Sessions, t \in 0 .. MaxNow : Imports(s, t) \subseteq Imports(s, t)'
  BY <1>3, ImportsAppend
<1> QED BY <1>1, <1>2, <1>3

LEMMA NextSound ==
  ASSUME TypeInv, Sound, Intact', [Next]_vars
  PROVE  Sound'
<1>1. cells' = cells \/ \E c : Genuine(c) /\ cells' = Append(cells, c)
  BY Handled DEF Known
<1>2. /\ \A i \in DOMAIN cells' : Genuine(cells'[i])
      /\ \A s \in Sessions, t \in 0 .. MaxNow : Imports(s, t) \subseteq Imports(s, t)'
  BY <1>1, CellsSound
<1> DEFINE Good(r) == /\ Genuine(r)
                      /\ \A s \in Sessions, t \in 0 .. MaxNow :
                           r.ids = {SessionId(s, t)} => Imports(s, t) # {}
<1>3. \A i \in DOMAIN records : Good(records[i])
  BY DEF Sound
<1>4. \A i \in DOMAIN records' : Good(records'[i])
  <2>1. CASE records' = records
    BY <1>3, <2>1
  <2>2. CASE records' = <<>>
    BY <2>2
  <2>3. CASE records' = Readable(cells)
    <3>1. cells \in Seq(Chunks(now)) /\ now \in Nat
      BY DEF TypeInv, TypeOK, Shape
    <3> SUFFICES ASSUME NEW k \in DOMAIN records' PROVE Good(records'[k])
      OBVIOUS
    <3>2. Readable(cells) \in Seq(Past(now))
      BY <3>1, ReadableIs
    <3>3. records'[k] \in Past(now)
      BY <2>3, <3>2, ElementOfSeq, LenProperties
    <3>4. PICK i \in DOMAIN cells : records'[k] = cells[i]
      BY <2>3, <3>1, ReadableIs
    <3>5. Genuine(cells[i])
      BY DEF Sound
    <3>6. \A s \in Sessions, t \in 0 .. MaxNow :
            cells[i].ids = {SessionId(s, t)} => Imports(s, t) # {}
      BY DEF Imports
    <3> QED BY <3>4, <3>5, <3>6
  <2>4. ASSUME NEW r, Good(r), records' = Append(records, r),
               NEW m \in Nat, now <= m, r \in Past(m)
        PROVE  \A i \in DOMAIN records' : Good(records'[i])
    <3>1. records \in Seq(Past(now)) /\ now \in Nat
      BY DEF TypeInv, TypeOK, Shape
    <3>2. records \in Seq(Past(m))
      BY <2>4, <3>1, PastGrows
    <3> HIDE DEF Good
    <3>3. /\ DOMAIN records = 1 .. Len(records) /\ DOMAIN records' = 1 .. Len(records) + 1
          /\ \A i \in 1 .. Len(records) : records'[i] = records[i]
          /\ records'[Len(records) + 1] = r /\ Len(records) \in Nat
      BY <2>4, <3>2, Appended, LenProperties
    <3>4. 1 .. Len(records) + 1 = (1 .. Len(records)) \cup {Len(records) + 1}
      BY <3>3
    <3> QED BY <1>3, <2>4, <3>3, <3>4
  <2> QED BY <2>1, <2>2, <2>3, <2>4, Handled DEF Known
<1>5. \A i \in DOMAIN records', s \in Sessions, t \in 0 .. MaxNow :
        records'[i].ids = {SessionId(s, t)} => Imports(s, t)' # {}
  <2> TAKE i \in DOMAIN records', s \in Sessions, t \in 0 .. MaxNow
  <2>1. records'[i].ids = {SessionId(s, t)} => Imports(s, t) # {}
    BY <1>4
  <2>2. Imports(s, t) \subseteq Imports(s, t)'
    BY <1>2
  <2> QED BY <2>1, <2>2
<1> QED BY <1>2, <1>4, <1>5 DEF Sound, Genuine, SessionId

(***************************************************************************)
(* The steps of absorb.                                                    *)
(***************************************************************************)
LEMMA TurnTypeInv ==
  ASSUME TypeInv, Turn
  PROVE  TypeInv'
<1>1. /\ now' = now + 1
      /\ UNCHANGED <<disk, pc, role, mem, loop, opens, pending, past>>
  BY DEF Turn
<1>2. /\ now \in Nat /\ now' \in Nat /\ now <= now'
      /\ cells \in Seq(Chunks(now)) /\ records \in Seq(Past(now)) /\ torn \in Parts(now)
  BY <1>1 DEF TypeInv, TypeOK, Shape
<1>3. /\ cells \in Seq(Chunks(now')) /\ records \in Seq(Past(now')) /\ torn \in Parts(now')
  BY <1>2, PastGrows DEF Parts, Chunks
<1>4. TypeOK'
  BY <1>1, <1>2 DEF TypeInv, TypeOK, Up, disk, mem, loop, past
<1>5. Shape'
  BY <1>1, <1>3 DEF TypeInv, Shape, Up, Intact, disk, mem, loop, past
<1> QED BY <1>4, <1>5 DEF TypeInv

\* The steps of absorb that leave the store alone, and those that do not.
Looking ==
  \/ Discover \/ LoadExistingTimestamps \/ AbsorbDone \/ AbsorbEnds
  \/ \E d \in todo : Skip(d) \/ DryRun(d) \/ LooksForStore(d)
Importing ==
  \/ AbsorbHeader \/ AbsorbHeaderFails
  \/ \E d \in todo : AppendRecord(d) \/ AppendRecordFails(d)

LEMMA LookingKeeps ==
  ASSUME Looking
  PROVE  UNCHANGED <<vars, latest>>
BY DEF Looking, Discover, LoadExistingTimestamps, AbsorbDone, AbsorbEnds, Skip, DryRun,
       LooksForStore

LEMMA ImportingKeeps ==
  ASSUME Importing
  PROVE  UNCHANGED <<index, pc, role, mem, loop, now, opens, pending, past, latest>>
BY DEF Importing, AbsorbHeader, AbsorbHeaderFails, AppendRecord, AppendRecordFails

\* What a step of absorb can leave in store.bin.
LEMMA ImportingWrites ==
  ASSUME TypeInv, Discovered, Importing
  PROVE  /\ header' \in {"short", "ok"} /\ (header = "ok" => header' = "ok")
         /\ cells' \in Seq(Chunks(now)) /\ torn' \in Parts(now)
         /\ spoiled' \in BOOLEAN /\ (spoiled => spoiled')
         /\ header' # "ok" /\ Intact' => cells' = <<>>
<1>1. /\ now \in Nat /\ now <= now /\ cells \in Seq(Chunks(now)) /\ torn \in Parts(now)
      /\ spoiled \in BOOLEAN /\ header \in {"absent", "short", "ok"}
      /\ header # "ok" /\ Intact => cells = <<>>
  BY DEF TypeInv, TypeOK, Shape
<1>2. <<>> \in Seq(Chunks(now)) /\ NoTail \in Parts(now) /\ Corrupt \in Parts(now)
  BY EmptySeq DEF Parts, Chunks
<1>3. CASE AbsorbHeader
  BY <1>1, <1>2, <1>3 DEF AbsorbHeader
<1>4. CASE AbsorbHeaderFails
  BY <1>1, <1>4 DEF AbsorbHeaderFails, Intact
<1>5. ASSUME NEW d \in todo, AppendRecord(d)
      PROVE  /\ header' \in {"short", "ok"} /\ (header = "ok" => header' = "ok")
             /\ cells' \in Seq(Chunks(now)) /\ torn' \in Parts(now)
             /\ spoiled' \in BOOLEAN /\ (spoiled => spoiled')
             /\ header' # "ok" /\ Intact' => cells' = <<>>
  <2>1. header' = header /\ header # "absent"
    BY <1>5 DEF AppendRecord
  <2>2. CASE WriteWhole(SessionRecord(d)) /\ (header = "ok" \/ torn # NoTail)
    <3>1. /\ cells' \in Seq(Chunks(now)) /\ torn' \in Parts(now)
          /\ spoiled' \in BOOLEAN /\ (spoiled => spoiled')
      BY <1>1, <2>2, SessionRecordIs, WriteShape
    <3>2. header # "ok" => spoiled'
      BY <2>2 DEF WriteWhole
    <3> QED BY <1>1, <2>1, <3>1, <3>2 DEF Intact
  <2>3. CASE torn' = Corrupt /\ UNCHANGED <<cells, spoiled>>
    BY <1>1, <1>2, <2>1, <2>3 DEF Intact
  <2> QED BY <1>5, <2>2, <2>3 DEF AppendRecord
<1>6. ASSUME NEW d \in todo, AppendRecordFails(d)
      PROVE  /\ header' = "ok"
             /\ cells' \in Seq(Chunks(now)) /\ torn' \in Parts(now)
             /\ spoiled' \in BOOLEAN /\ (spoiled => spoiled')
  <2>1. header' = "ok" /\ WritePart(SessionRecord(d)) /\ SessionRecord(d) \in Past(now)
    BY <1>6, SessionRecordIs DEF AppendRecordFails
  <2> QED BY <1>1, <2>1, WriteShape
<1> QED BY <1>3, <1>4, <1>5, <1>6 DEF Importing

\* In a store that stays intact absorb adds the whole record of a session, if any.
LEMMA IntactImport ==
  ASSUME Intact', Importing
  PROVE  /\ Intact
         /\ \/ cells' = cells
            \/ \E d \in todo : AppendRecord(d) /\ cells' = Append(cells, SessionRecord(d))
<1>1. CASE AbsorbHeader
  BY <1>1 DEF AbsorbHeader, Intact
<1>2. CASE AbsorbHeaderFails
  BY <1>2 DEF AbsorbHeaderFails, Intact
<1>3. ASSUME NEW d \in todo, AppendRecord(d)
      PROVE  Intact /\ (cells' = cells \/ cells' = Append(cells, SessionRecord(d)))
  <2>1. WriteWhole(SessionRecord(d)) \/ UNCHANGED <<cells, spoiled>>
    BY <1>3 DEF AppendRecord
  <2> QED BY <2>1, WholeWrite DEF Intact
<1>4. ASSUME NEW d \in todo, AppendRecordFails(d)
      PROVE  Intact /\ cells' = cells
  BY <1>4, PartialWrite DEF AppendRecordFails
<1> QED BY <1>1, <1>2, <1>3, <1>4 DEF Importing

LEMMA AbsorbCases ==
  ASSUME [AbsorbNext]_absorbVars
  PROVE  \/ [Next]_vars /\ UNCHANGED <<latest, absorbing>>
         \/ Turn \/ Looking \/ Importing
BY DEF AbsorbNext, Absorbing, Looking, Importing, absorbVars

LEMMA AbsorbTypeInv ==
  ASSUME TypeInv, Discovered, [AbsorbNext]_absorbVars
  PROVE  TypeInv'
<1>1. ASSUME [Next]_vars
      PROVE  TypeInv'
  BY <1>1, NextTypeInv
<1>2. CASE Turn
  BY <1>2, TurnTypeInv
<1>3. CASE Looking
  BY <1>1, <1>3, LookingKeeps
<1>4. CASE Importing
  <2>1. UNCHANGED <<index, pc, role, mem, loop, now, opens, pending, past>>
    BY <1>4, ImportingKeeps
  <2>2. /\ header' \in {"short", "ok"} /\ (header = "ok" => header' = "ok")
        /\ cells' \in Seq(Chunks(now)) /\ torn' \in Parts(now)
        /\ spoiled' \in BOOLEAN /\ (spoiled => spoiled')
        /\ header' # "ok" /\ Intact' => cells' = <<>>
    BY <1>4, ImportingWrites
  <2>3. now \in Nat
    BY DEF TypeInv, TypeOK
  <2>4. cells' \in Seq(StoreRecord \cup {Corrupt}) /\ torn' \in StoreRecord \cup {Corrupt, NoTail}
    BY <2>2, <2>3, PastIsRecord
  <2>5. TypeOK'
    BY <2>1, <2>2, <2>4 DEF TypeInv, TypeOK, Up, mem, loop, past
  <2>6. Shape'
    BY <2>1, <2>2 DEF TypeInv, Shape, Up, mem, past
  <2> QED BY <2>5, <2>6 DEF TypeInv
<1> QED BY <1>1, <1>2, <1>3, <1>4, AbsorbCases

LEMMA AbsorbWasIntact ==
  ASSUME TypeInv, [AbsorbNext]_absorbVars, Intact'
  PROVE  Intact
<1>1. CASE Turn \/ Looking
  BY <1>1, LookingKeeps DEF Turn, vars, disk, Intact
<1> QED BY <1>1, AbsorbCases, WasIntact, IntactImport

\* The memory of a program knows nothing of what absorb does.
LEMMA AbsorbMem ==
  ASSUME TypeInv, ~misled => MemSafe, Intact => Safe, [AbsorbNext]_absorbVars, ~misled'
  PROVE  MemSafe'
<1>1. ASSUME [Next]_vars
      PROVE  MemSafe'
  <2>1. CASE Loading
    <3>1. Intact' /\ Intact
      BY <2>1, Loads DEF Intact
    <3> QED BY <1>1, <3>1, NextSafe DEF Safe
  <2>2. CASE ~Loading
    <3>1. ~misled
      BY <1>1, <2>2, OthersMislead
    <3> QED BY <1>1, <2>2, <3>1, NextMem
  <2> QED BY <2>1, <2>2
<1>2. CASE Turn \/ Looking \/ Importing
  <2>1. UNCHANGED <<index, pc, records, entries, pending, acked, rebuilt, misled>>
    BY <1>2, LookingKeeps, ImportingKeeps DEF Turn, vars, disk, mem, past
  <2>2. (Up' <=> Up) /\ (Fits' <=> Fits)
    BY <2>1 DEF Up, Fits
  <2> QED BY <2>1, <2>2 DEF MemSafe, CoveredNow, KeptNow, OrderedNow, TracedNow, OwnNow
<1> QED BY <1>1, <1>2, AbsorbCases

\* A record that store.bin gets behind the back of the program that has it open
\* makes index.bin fit neither the file nor a later reader, and nothing else.
LEMMA ImportSafe ==
  ASSUME TypeInv, Safe, MemSafe', Discovered, Intact', Importing
  PROVE  Safe'
<1>1. UNCHANGED <<index, pc, records, entries, acked, rebuilt>>
  BY ImportingKeeps DEF mem, past
<1>2. (Up' <=> Up) /\ (InStep' /\ cells' = cells => InStep)
  BY <1>1 DEF Up, InStep
<1>3. CASE cells' = cells
  BY <1>1, <1>2, <1>3 DEF Safe, Aligned, Clean, Covered, Kept, Ordered, Traced, InStep, Own
<1>4. ASSUME NEW d \in todo, cells' = Append(cells, SessionRecord(d))
      PROVE  Safe'
  <2> DEFINE r == SessionRecord(d)
  <2>1. now \in Nat /\ cells \in Seq(Chunks(now)) /\ r \in Chunks(now) /\ r # Corrupt
        /\ records \in Seq(Past(now)) /\ index.entries \in Seq(IndexEntry)
    BY SessionRecordIs, PastIsRecord DEF TypeInv, TypeOK, Shape, Chunks
  <2>2. cells' = Append(cells, r)
    BY <1>4
  <2> HIDE DEF r
  <2>3. /\ Len(cells') = Len(cells) + 1 /\ Held(cells') = Held(cells) \cup r.ids
        /\ ToSet(cells') = ToSet(cells) \cup {r}
    BY <2>1, <2>2, Appended, HeldAppend, ToSetAppend
  <2>4. Len(cells) \in Nat /\ Len(records) \in Nat /\ Len(index.entries) \in Nat
    BY <2>1, LenProperties
  <2>5. /\ Len(index.entries) <= Len(cells) /\ Held(records) \subseteq Held(cells)
        /\ Up \/ pc = "loaded" => Len(records) <= Len(cells)
    BY DEF Safe, Aligned
  <2>6. ~InStep'
    BY <1>1, <2>3, <2>4, <2>5 DEF InStep
  <2>7. Aligned'
    <3>1. Len(records) # Len(cells')  \/ ~(Up \/ pc = "loaded")
      BY <2>3, <2>4, <2>5
    <3>2. Len(index.entries) <= Len(cells') /\ Held(records) \subseteq Held(cells')
      BY <2>3, <2>4, <2>5
    <3>3. Up \/ pc = "loaded" => Len(records) <= Len(cells')
      BY <2>3, <2>4, <2>5
    <3>4. Held(records') = Held(records)
      BY <1>1
    <3> QED BY <1>1, <1>2, <2>6, <3>1, <3>2, <3>3, <3>4 DEF Safe, Aligned
  <2>8. Clean'
    BY <2>1, <2>3 DEF Safe, Clean
  <2>9. Covered' /\ Traced' /\ Ordered'
    BY <2>6 DEF Covered, Traced, Ordered
  <2>10. Kept'
    BY <1>1, <2>3 DEF Safe, Kept
  <2> QED BY <2>7, <2>8, <2>9, <2>10 DEF Safe
<1> QED BY <1>3, <1>4, IntactImport

LEMMA AbsorbSafe ==
  ASSUME TypeInv, Safe, MemSafe', Discovered, [AbsorbNext]_absorbVars, Intact'
  PROVE  Safe'
<1>1. ASSUME [Next]_vars
      PROVE  Safe'
  BY <1>1, NextSafe
<1>2. CASE Turn
  <2>1. UNCHANGED <<cells, index, pc, records, entries, acked, rebuilt>>
    BY <1>2 DEF Turn, disk, mem, past
  <2>2. Up' <=> Up
    BY <2>1 DEF Up
  <2> QED BY <2>1, <2>2 DEF Safe, Aligned, Clean, Covered, Kept, Ordered, Traced, InStep, Own
<1>3. CASE Looking
  BY <1>1, <1>3, LookingKeeps
<1> QED BY <1>1, <1>2, <1>3, ImportSafe, AbsorbCases

LEMMA AbsorbSound ==
  ASSUME TypeInv, Sound, Discovered, [AbsorbNext]_absorbVars, Intact'
  PROVE  Sound'
<1>1. ASSUME [Next]_vars
      PROVE  Sound'
  BY <1>1, NextSound
<1>2. ASSUME records' = records,
             cells' = cells \/ \E c : Genuine(c) /\ cells' = Append(cells, c)
      PROVE  Sound'
  <2>1. /\ \A i \in DOMAIN cells' : Genuine(cells'[i])
        /\ \A s \in Sessions, t \in 0 .. MaxNow : Imports(s, t) \subseteq Imports(s, t)'
    BY <1>2, CellsSound
  <2>2. \A i \in DOMAIN records', s \in Sessions, t \in 0 .. MaxNow :
          records'[i].ids = {SessionId(s, t)} => Imports(s, t)' # {}
    <3> TAKE i \in DOMAIN records', s \in Sessions, t \in 0 .. MaxNow
    <3>1. records'[i].ids = {SessionId(s, t)} => Imports(s, t) # {}
      BY <1>2 DEF Sound
    <3>2. Imports(s, t) \subseteq Imports(s, t)'
      BY <2>1
    <3> QED BY <3>1, <3>2
  <2>3. \A i \in DOMAIN records' : Genuine(records'[i])
    BY <1>2 DEF Sound
  <2> QED BY <2>1, <2>2, <2>3 DEF Sound, Genuine, SessionId
<1>3. CASE Turn
  BY <1>2, <1>3 DEF Turn, disk, mem
<1>4. CASE Importing
  <2>1. records' = records
    BY <1>4, ImportingKeeps DEF mem
  <2>2. \A d \in todo : Genuine(SessionRecord(d))
    BY SessionRecordIs
  <2> QED BY <1>2, <1>4, <2>1, <2>2, IntactImport
<1>5. CASE Looking
  BY <1>1, <1>5, LookingKeeps
<1> QED BY <1>1, <1>3, <1>4, <1>5, AbsorbCases

\* The clock goes on by one at most, and not beyond its bound.
LEMMA Ticks ==
  ASSUME TypeInv, now <= MaxNow, [Next]_vars
  PROVE  now' \in Nat /\ now <= now' /\ now' <= MaxNow
<1>1. now \in Nat /\ MaxNow \in Nat
  BY StoreAssumption DEF TypeInv, TypeOK
<1>2. now' = now \/ (now < MaxNow /\ now' = now + 1)
  <2>1. CASE Opening
    BY <2>1 DEF Opening, OpenCreate, CreateEmpty, CreateEmptyFails, RemoveIndex, LoadAll,
                LoadAllFails, OpenIndex, RefuseIndex, CreateFresh, CreateFreshFails
  <2>2. CASE Remembering
    BY <2>2 DEF Remembering, Remember, RememberFails, Consolidate, ConsolidateFails,
                NothingToConsolidate, AppendFlush, AppendFlushFails, Serving
  <2>3. CASE TouchRecall \/ Ending
    BY <2>3 DEF TouchRecall, Ending, Exit, Crash, CrashInWrite, Serving
  <2>4. CASE Forcing
    BY <2>4 DEF Forcing, ForceMerge, ForceMergeFails, ForceFlush, ForceFlushFails,
                ForceNothing
  <2>5. CASE UNCHANGED vars
    BY <2>5 DEF vars
  <2> QED BY <2>1, <2>2, <2>3, <2>4, <2>5 DEF Next
<1> QED BY <1>1, <1>2

LEMMA LaterIs ==
  ASSUME NEW a \in Int, NEW b \in Int
  PROVE  Max({a, b}) \in {a, b}
<1>1. a >= b \/ b >= a
  OBVIOUS
<1>2. \E x \in {a, b} : \A y \in {a, b} : x >= y
  BY <1>1
<1> QED BY <1>2 DEF Max

LEMMA AbsorbDiscovered ==
  ASSUME TypeInv, Discovered, [AbsorbNext]_absorbVars
  PROVE  Discovered'
<1>0. now \in Nat /\ MaxNow \in Nat /\ now <= MaxNow
  BY StoreAssumption DEF TypeInv, TypeOK, Discovered
<1>1. ASSUME [Next]_vars, UNCHANGED <<latest, absorbing>>
      PROVE  Discovered'
  <2>1. now' \in Nat /\ now <= now' /\ now' <= MaxNow
    BY <1>0, <1>1, Ticks
  <2>2. 0 .. now \subseteq 0 .. now' /\ -1 .. now \subseteq -1 .. now'
    BY <1>0, <2>1
  <2> QED BY <1>1, <2>1, <2>2 DEF Discovered, absorbing
<1>2. CASE Turn
  <2>1. now < MaxNow /\ now' = now + 1 /\ UNCHANGED absorbing
    BY <1>2 DEF Turn
  <2>2. PICK S \in SUBSET Sessions, u \in {0, now'} :
          latest' = [s \in Sessions |-> IF s \in S THEN Max({latest[s], u}) ELSE latest[s]]
    BY <1>2 DEF Turn
  <2>3. now' \in Nat /\ now <= now' /\ now' <= MaxNow /\ u \in 0 .. now'
    BY <1>0, <2>1
  <2>4. ASSUME NEW s \in Sessions
        PROVE  latest'[s] \in -1 .. now'
    <3>1. latest[s] \in -1 .. now
      BY DEF Discovered
    <3>2. latest[s] \in Int /\ u \in Int
      BY <1>0, <2>3, <3>1
    <3>3. Max({latest[s], u}) \in {latest[s], u}
      BY <3>2, LaterIs
    <3>4. latest[s] \in -1 .. now' /\ u \in -1 .. now'
      BY <1>0, <2>3, <3>1
    <3> QED BY <2>2, <3>3, <3>4
  <2>5. latest' \in [Sessions -> -1 .. now']
    BY <2>2, <2>4
  <2>6. 0 .. now \subseteq 0 .. now'
    BY <1>0, <2>3
  <2> QED BY <2>1, <2>3, <2>5, <2>6 DEF Discovered, absorbing
<1>3. ASSUME now' = now, latest' = latest,
             todo' \subseteq todo \/ todo' \subseteq Sessions \X (0 .. now),
             phase' \in {"off", "found", "copy", "create", "write", "done"}
      PROVE  Discovered'
  BY <1>3 DEF Discovered
<1>4. CASE Looking
  <2>1. now' = now /\ latest' = latest
    BY <1>4, LookingKeeps DEF vars
  <2>2. /\ todo' \subseteq todo \/ todo' \subseteq Sessions \X (0 .. now)
        /\ phase' \in {"off", "found", "copy", "create", "write", "done"}
    BY <1>4 DEF Looking, Discover, LoadExistingTimestamps, AbsorbDone, AbsorbEnds, Skip,
                DryRun, LooksForStore, AbsorbGone, Discovered
  <2> QED BY <1>3, <2>1, <2>2
<1>5. CASE Importing
  <2>1. now' = now /\ latest' = latest
    BY <1>5, ImportingKeeps
  <2>2. /\ todo' \subseteq todo
        /\ phase' \in {"off", "copy", "write"}
    BY <1>5 DEF Importing, AbsorbHeader, AbsorbHeaderFails, AppendRecord, AppendRecordFails,
                AbsorbGone
  <2> QED BY <1>3, <2>1, <2>2
<1> QED BY <1>1, <1>2, <1>4, <1>5, AbsorbCases

\* The record of a session imports it and no other.
LEMMA ImportsOthers ==
  ASSUME TypeInv, Discovered, NEW d \in todo, cells' = Append(cells, SessionRecord(d)),
         NEW s \in Sessions, NEW t \in 0 .. MaxNow, d # <<s, t>>
  PROVE  Imports(s, t)' = Imports(s, t)
<1>1. /\ d[1] \in Sessions /\ d[2] \in 0 .. MaxNow
      /\ SessionRecord(d).ids = {SessionId(d[1], d[2])}
  BY SessionRecordIs
<1>2. d = <<d[1], d[2]>>
  BY DEF Discovered
<1>3. SessionId(d[1], d[2]) # SessionId(s, t)
  BY <1>1, <1>2, SessionIds
<1>4. SessionRecord(d).ids # {SessionId(s, t)}
  BY <1>1, <1>3
<1> QED BY <1>4, ImportsAppend

LEMMA AbsorbUnknown ==
  ASSUME TypeInv, Sound, Discovered, Unknown, [AbsorbNext]_absorbVars, Intact'
  PROVE  Unknown'
<1>0. \A d \in todo : d[1] \in Sessions /\ d[2] \in 0 .. MaxNow
  BY SessionRecordIs
<1>1. ASSUME UNCHANGED <<flags, seen>>, todo' \subseteq todo,
             phase \in {"copy", "create", "write"} \/ phase' = phase,
             \A d \in todo' : Imports(d[1], d[2])' # {} => Imports(d[1], d[2]) # {}
      PROVE  Unknown'
  BY <1>1 DEF Unknown, Imports, SessionId
<1>2. ASSUME [Next]_vars, UNCHANGED absorbing
      PROVE  Unknown'
  <2>1. ASSUME NEW d \in todo, Imports(d[1], d[2])' # {}
        PROVE  Imports(d[1], d[2]) # {}
    <3>1. CASE cells' = cells
      BY <2>1, <3>1, ImportsSame
    <3>2. ASSUME NEW c, Known(c), cells' = Append(cells, c)
          PROVE  Imports(d[1], d[2]) # {}
      <4>1. CASE c.ids = {SessionId(d[1], d[2])}
        BY <1>0, <3>2, <4>1 DEF Known
      <4>2. CASE c.ids # {SessionId(d[1], d[2])}
        BY <2>1, <3>2, <4>2, ImportsAppend
      <4> QED BY <4>1, <4>2
    <3> QED BY <1>2, <3>1, <3>2, Handled
  <2> QED BY <1>1, <1>2, <2>1 DEF absorbing
<1>3. ASSUME UNCHANGED <<cells, flags, seen>>, todo' \subseteq todo,
             phase \in {"copy", "create", "write"} \/ phase' = phase
      PROVE  Unknown'
  BY <1>1, <1>3, ImportsSame
<1>4. CASE Turn
  BY <1>3, <1>4 DEF Turn, disk, absorbing
<1>5. CASE LoadExistingTimestamps
  <2>1. /\ UNCHANGED <<cells, flags, todo>>
        /\ seen' = IF "force" \in flags \/ header # "ok" THEN {}
                   ELSE {cells[i].unix_ns : i \in DOMAIN cells} \ {Corrupt.unix_ns}
    BY <1>5 DEF LoadExistingTimestamps, vars, disk
  <2> SUFFICES ASSUME "force" \notin flags, NEW d \in todo, Imports(d[1], d[2]) # {}
               PROVE  d[2] \in seen'
    BY <2>1, ImportsSame DEF Unknown
  <2>2. PICK i \in DOMAIN cells : cells[i].ids = {SessionId(d[1], d[2])}
    BY DEF Imports
  <2>3. Genuine(cells[i])
    BY DEF Sound
  <2>4. cells[i].unix_ns = d[2]
    BY <1>0, <2>2, <2>3 DEF Genuine
  <2>5. d[2] # Corrupt.unix_ns
    BY <1>0, StoreAssumption DEF Corrupt
  <2>6. Intact
    BY <1>5, LookingKeeps DEF Looking, vars, disk, Intact
  <2>7. header = "ok"
    BY <2>2, <2>6 DEF TypeInv, Shape
  <2> QED BY <2>1, <2>4, <2>5, <2>7
<1>6. ASSUME NEW d \in todo, Skip(d) \/ DryRun(d) \/ LooksForStore(d)
      PROVE  Unknown'
  BY <1>3, <1>6 DEF Skip, DryRun, LooksForStore, vars, disk, absorbing
<1>7. CASE Discover \/ AbsorbDone \/ AbsorbEnds \/ AbsorbHeaderFails
           \/ \E d \in todo : AppendRecordFails(d)
  BY <1>7 DEF Discover, AbsorbDone, AbsorbEnds, AbsorbHeaderFails, AppendRecordFails,
              AbsorbGone, Unknown
<1>8. CASE AbsorbHeader
  <2>1. cells' = cells
    BY <1>8 DEF AbsorbHeader, Intact
  <2> QED BY <1>3, <1>8, <2>1 DEF AbsorbHeader
<1>9. ASSUME NEW d \in todo, AppendRecord(d)
      PROVE  Unknown'
  <2>1. /\ UNCHANGED <<flags, seen>> /\ todo' = todo \ {d}
        /\ phase \in {"copy", "create", "write"}
    BY <1>9 DEF AppendRecord
  <2>2. cells' = cells \/ cells' = Append(cells, SessionRecord(d))
    <3>1. WriteWhole(SessionRecord(d)) \/ UNCHANGED cells
      BY <1>9 DEF AppendRecord
    <3> QED BY <3>1, WholeWrite
  <2>3. ASSUME NEW e \in todo'
        PROVE  Imports(e[1], e[2])' = Imports(e[1], e[2])
    <3>1. e \in todo /\ d # e
      BY <2>1
    <3>2. e = <<e[1], e[2]>>
      BY <3>1 DEF Discovered
    <3> QED BY <1>0, <2>2, <3>1, <3>2, ImportsOthers, ImportsSame
  <2> QED BY <1>1, <2>1, <2>3
<1> QED BY <1>2, <1>4, <1>5, <1>6, <1>7, <1>8, <1>9, AbsorbCases DEF Looking, Importing

(***************************************************************************)
(* The theorems.                                                           *)
(***************************************************************************)
LEMMA AbsorbInvariance == AbsorbSpec => []AbsorbInv
<1>1. AbsorbInit => AbsorbInv
  <2> SUFFICES ASSUME AbsorbInit PROVE AbsorbInv
    OBVIOUS
  <2>1. Init
    BY DEF AbsorbInit
  <2>2. cells = <<>> /\ records = <<>> /\ now = 0 /\ MaxNow \in Nat
    BY <2>1, StoreAssumption DEF Init
  <2>3. Sound
    BY <2>2 DEF Sound
  <2>4. Discovered
    BY <2>2 DEF AbsorbInit, Discovered
  <2>5. Unknown
    BY DEF AbsorbInit, Unknown
  <2> QED BY <2>1, <2>3, <2>4, <2>5, InitTypeInv, InitSafe DEF AbsorbInv, Safe
<1>2. ASSUME AbsorbInv, [AbsorbNext]_absorbVars
      PROVE  AbsorbInv'
  <2>1. TypeInv /\ Discovered /\ TypeInv' /\ Discovered'
    BY <1>2, AbsorbTypeInv, AbsorbDiscovered DEF AbsorbInv
  <2>2. ~misled' => MemSafe'
    BY <1>2, <2>1, AbsorbMem DEF AbsorbInv
  <2>3. ASSUME Intact' PROVE Safe' /\ Sound' /\ Unknown'
    <3>1. Safe /\ Sound /\ Unknown
      BY <1>2, <2>1, <2>3, AbsorbWasIntact DEF AbsorbInv
    <3>2. ~misled'
      BY <2>1, <2>3 DEF TypeInv, Shape, Intact
    <3> QED BY <1>2, <2>1, <2>2, <2>3, <3>1, <3>2, AbsorbSafe, AbsorbSound, AbsorbUnknown
  <2> QED BY <2>1, <2>2, <2>3 DEF AbsorbInv
<1> QED BY <1>1, <1>2, PTL DEF AbsorbSpec

\* Another process writes to store.bin behind the back of the program that has
\* it open, and may fail to write a whole record or cut off what was written: from
\* every store that was intact when it was loaded, a memory that was reported as
\* remembered can be recalled, and no memory of a record in memory is hidden.
THEOREM AbsorbHarmless == AbsorbSpec => []AckedSurvivesAbsorb
<1>1. AbsorbInv => AckedSurvivesAbsorb
  BY SafeShows DEF AbsorbInv, AckedSurvivesAbsorb
<1> QED BY <1>1, AbsorbInvariance, PTL

\* However often absorb runs, ends early, or runs next to a server that merges
\* what it imported, a session that has not changed is imported once, unless
\* --force asks for more; the summaries of a session keep the time by which
\* existing_stamps knows it.
THEOREM ImportedOnce == AbsorbSpec => UnchangedOnce
<1>1. ASSUME AbsorbInv, [AbsorbNext]_absorbVars, Taken, Intact',
             NEW s \in Sessions, NEW t \in 0 .. MaxNow, Imports(s, t) # {}
      PROVE  Imports(s, t)' = Imports(s, t)
  <2>1. TypeInv /\ Discovered /\ Unknown
    BY <1>1, AbsorbWasIntact DEF AbsorbInv
  <2>2. todo' # todo /\ phase \in {"copy", "write"} /\ "force" \notin flags
    BY <1>1 DEF Taken
  <2>3. CASE Looking
    BY <2>3, LookingKeeps, ImportsSame DEF vars, disk
  <2>4. ASSUME NEW d \in todo, AppendRecord(d), cells' = Append(cells, SessionRecord(d))
        PROVE  Imports(s, t)' = Imports(s, t)
    <3>1. d[2] \notin seen
      BY <2>4 DEF AppendRecord, Takes
    <3>2. d # <<s, t>>
      BY <1>1, <2>1, <2>2, <3>1 DEF Unknown
    <3> QED BY <2>1, <2>4, <3>2, ImportsOthers
  <2>5. CASE Importing
    BY <1>1, <2>4, <2>5, IntactImport, ImportsSame
  <2>6. Looking \/ Importing
    BY <1>1, <2>2, AbsorbCases DEF Turn, absorbing
  <2> QED BY <2>3, <2>5, <2>6
<1>2. AbsorbInv /\ [AbsorbNext]_absorbVars
        => [Taken /\ Intact' => \A s \in Sessions, t \in 0 .. MaxNow :
              Imports(s, t) # {} => Imports(s, t)' = Imports(s, t)]_absorbVars
  BY <1>1
<1> QED BY <1>2, AbsorbInvariance, PTL DEF AbsorbSpec, UnchangedOnce
=============================================================================
