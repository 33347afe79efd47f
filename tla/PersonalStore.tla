--------------------------- MODULE PersonalStore ---------------------------
(***************************************************************************)
(* The project memory of leet-mcp: `.leet/store.bin` (append-only records) *)
(* and its sidecar `.leet/index.bin` (levels, consolidation flags and the  *)
(* recall cursor), used by one process at a time: the MCP server, or one   *)
(* of the commands `leet consolidate force` and `rebuild-index`.           *)
(*                                                                         *)
(* A memory is named by the nanosecond at which it was remembered, so a    *)
(* record is the set of memories its centroid and excerpt stand for and    *)
(* the unix_ns stored with it.  The process may die between any two steps  *)
(* (Crash), in the middle of a write (CrashInWrite), and its writes, fsyncs*)
(* and index flushes may fail without killing it, as far as Faults says.   *)
(***************************************************************************)
EXTENDS Integers, Sequences, FiniteSets, FiniteSetsExt, SequencesExt, Subsequences

CONSTANTS
  Threshold,  \* CONSOLIDATE_THRESHOLD (7)
  MaxLevel,   \* the last level the cascade and `force` look at (10)
  MaxPasses,  \* the passes `force` makes at most (20)
  Roles,      \* the programs that open the store: "server", "force", "rebuild"
  Faults,     \* what may go wrong: "crash", "write", "fsync", "flush"
  RecallLimit, \* the default limit of leet_recall (5)
  MaxNow,     \* bound: ticks of the clock (memories plus recalls)
  MaxOpens    \* bound: times the store is opened

ASSUME StoreAssumption ==
  /\ Threshold \in Nat /\ Threshold >= 2
  /\ MaxLevel \in Nat /\ MaxLevel >= 1
  /\ MaxPasses \in Nat /\ MaxPasses >= 1
  /\ Roles \subseteq {"server", "force", "rebuild"}
  /\ Faults \subseteq {"crash", "write", "fsync", "flush"}
  /\ RecallLimit \in Nat /\ MaxNow \in Nat /\ MaxOpens \in Nat

VARIABLES
  header,   \* of store.bin: "absent", "short" (created, not written), "ok"
  cells,    \* the whole 360-byte chunks of store.bin
  torn,     \* the part of a chunk that follows them, by what it will decode to
  index,    \* index.bin: whether it exists, its cursor, its entries
  pc, role, \* the program that has the store open, and where it is
  records, entries, cursor, \* its memory: PersonalStore.records and Index
  level,    \* the level the cascade or `force` is at
  force,    \* the state of the loop of `leet consolidate force`
  now,      \* the clock
  opens,    \* times the store was opened
  pending,  \* the memory whose leet_remember is under way, 0 for none
  acked,    \* history: memories whose leet_remember replied "Remembered"
  rebuilt,  \* history: an index was made afresh for a store with records
  spoiled,  \* history: store.bin has lost part of what was written to it
  misled    \* history: it had when the process that has it open loaded it

disk == <<header, cells, torn, index, spoiled>>
mem  == <<records, entries, cursor>>
loop == <<level, force>>
past == <<acked, rebuilt, misled>>
vars == <<disk, pc, role, mem, loop, now, opens, pending, past>>

(***************************************************************************)
(* Records, index entries, and what a reader makes of the files.           *)
(***************************************************************************)
Corrupt == [ids |-> {}, unix_ns |-> -1]
StoreRecord == [ids : SUBSET Nat, unix_ns : Nat]
IndexEntry == [level : Nat, consolidated : BOOLEAN, first : Nat, last : Nat]
DefaultEntry == [level |-> 0, consolidated |-> FALSE, first |-> 0, last |-> 0]

\* Mutant of Readable: the loop stops one chunk early.
ReadableButLast(chunks) ==
  Keeping(chunks, {i \in DOMAIN chunks : chunks[i] # Corrupt /\ i < Len(chunks)})

\* load_all: chunks that do not decode are skipped
Readable(chunks) == Keeping(chunks, {i \in DOMAIN chunks : chunks[i] # Corrupt})

\* decode_record checks nothing but the frame, the first 96 bytes of a chunk.
\* So part of a record decodes to that record whatever completes the chunk, if
\* its frame is there, and to nothing if it is not, or if the part begins in the
\* middle of a record.  (Of its time 8 bytes more are needed: a frame alone
\* would get the time of no record, and is taken for one with its time.)
NoTail == [ids |-> {}, unix_ns |-> -2]
Part(r) == {Corrupt, r}

\* The chunk that a complete write of r adds to store.bin, and the part of r
\* that is left of it behind that chunk.
Chunk(r) == IF torn = NoTail THEN r ELSE torn
Rest == IF torn = NoTail THEN NoTail ELSE Corrupt

\* live_indices_at_level, and its first n members
LiveAt(es, l) == {i \in DOMAIN es : es[i].level = l /\ ~es[i].consolidated}
\* Mutant of Oldest: the last n members.
OldestReversed(S, n) == {i \in S : Cardinality({j \in S : j > i}) < n}
Oldest(S, n) == {i \in S : Cardinality({j \in S : j < i}) < n}

\* blend_n_records: what the summary stands for, and the latest unix_ns
\* Mutants of Blend: the earliest unix_ns; one member too few.
BlendEarliest(batch) ==
  [ids |-> UNION {records[i].ids : i \in batch},
   unix_ns |-> Min({records[i].unix_ns : i \in batch})]
BlendOneShort(batch) ==
  [ids |-> UNION {records[i].ids : i \in batch \ {Max(batch)}},
   unix_ns |-> Max({records[i].unix_ns : i \in batch})]
Blend(batch) ==
  [ids |-> UNION {records[i].ids : i \in batch},
   unix_ns |-> Max({records[i].unix_ns : i \in batch})]

\* the entry of the record merged from batch, and the entries with the batch
\* marked as consolidated
\* Mutant of MergedEntry: an exclusive end.
MergedEntryOpen(batch, l) ==
  [level |-> l + 1, consolidated |-> FALSE, first |-> Min(batch), last |-> Max(batch) - 1]
MergedEntry(batch, l) ==
  [level |-> l + 1, consolidated |-> FALSE, first |-> Min(batch), last |-> Max(batch)]
\* Mutant of MarkConsolidated: everything as old as the batch is marked.
MarkUpTo(es, batch) ==
  [i \in DOMAIN es |-> [es[i] EXCEPT !.consolidated = @ \/ \E j \in batch : i <= j]]
MarkConsolidated(es, batch) ==
  [i \in DOMAIN es |-> [es[i] EXCEPT !.consolidated = @ \/ i \in batch]]

Flushed == [exists |-> TRUE, cursor |-> cursor, entries |-> entries]

NoIndex == [exists |-> FALSE, cursor |-> 0, entries |-> <<>>]

\* The loop of `force`: --min, whether --level was given, whether the current
\* pass merged anything, and the passes that did.
ForceLoop == [min : 2 .. Threshold, only : BOOLEAN, any : BOOLEAN, passes : Nat]
NoForce == [min |-> 2, only |-> FALSE, any |-> FALSE, passes |-> 0]

Init ==
  /\ header = "absent" /\ cells = <<>> /\ torn = NoTail /\ index = NoIndex
  /\ pc = "down" /\ role = "none"
  /\ records = <<>> /\ entries = <<>> /\ cursor = 0
  /\ level = 0 /\ force = NoForce
  /\ now = 0 /\ opens = 0 /\ pending = 0 /\ acked = {} /\ rebuilt = FALSE
  /\ spoiled = FALSE /\ misled = FALSE

\* The process ends, in whatever way: its memory is gone.
Gone ==
  /\ pc' = "down" /\ role' = "none"
  /\ records' = <<>> /\ entries' = <<>> /\ cursor' = 0
  /\ level' = 0 /\ force' = NoForce /\ pending' = 0

(***************************************************************************)
(* Writing one record at the end of store.bin.                             *)
(***************************************************************************)
WriteWhole(r) ==
  /\ cells' = Append(cells, Chunk(r)) /\ torn' = Rest
  /\ spoiled' = (spoiled \/ torn # NoTail)

\* Fewer bytes than a chunk reach the file: none, some, or enough to complete
\* the chunk that an earlier one left in part.
WritePart(r) ==
  \/ UNCHANGED <<cells, torn, spoiled>>
  \/ torn = NoTail /\ torn' \in Part(r) /\ UNCHANGED <<cells, spoiled>>
  \/ /\ torn # NoTail /\ cells' = Append(cells, torn) /\ torn' \in {NoTail, Corrupt}
     /\ spoiled' = TRUE

\* append_at_level: the record, then (in memory) its index entry; a merge
\* also marks its batch.
\* Mutant of AppendAtLevel: the entry is not pushed.
AppendWithoutPush(r, entry, batch) ==
  /\ WriteWhole(r)
  /\ records' = Append(records, r)
  /\ entries' = MarkConsolidated(entries, batch)
AppendAtLevel(r, entry, batch) ==
  /\ WriteWhole(r)
  /\ records' = Append(records, r)
  /\ entries' = Append(MarkConsolidated(entries, batch), entry)

\* append_at_level returns early: the write failed part way, or the fsync
\* after a complete write did.  Nothing is pushed in memory.
AppendFails(r) ==
  /\ \/ "write" \in Faults /\ WritePart(r)
     \/ "fsync" \in Faults /\ WriteWhole(r)
  /\ UNCHANGED <<records, entries>>

(***************************************************************************)
(* Opening: open_or_create, create_empty, load_all, Index::open_or_create. *)
(***************************************************************************)
OpenCreate ==
  /\ pc = "down" /\ opens < MaxOpens /\ header = "absent"
  /\ role' \in Roles \ {"rebuild"}
  /\ header' = "short" /\ pc' = "creating" /\ opens' = opens + 1
  /\ UNCHANGED <<cells, torn, index, spoiled, mem, loop, now, pending, past>>

CreateEmpty ==
  /\ pc = "creating" /\ header' = "ok" /\ pc' = "loaded"
  /\ misled' = spoiled
  /\ UNCHANGED <<cells, torn, index, spoiled, role, mem, loop, now, opens, pending,
                 acked, rebuilt>>

CreateEmptyFails ==
  /\ pc = "creating" /\ Faults \cap {"write", "fsync"} # {}
  /\ header' \in {header, "ok"}
  /\ Gone
  /\ UNCHANGED <<cells, torn, index, spoiled, now, opens, past>>

\* `rebuild-index` deletes index.bin and goes on to open the store.
RemoveIndex ==
  /\ pc = "down" /\ opens < MaxOpens
  /\ "rebuild" \in Roles /\ header # "absent"
  /\ index' = NoIndex
  /\ pc' = "removed" /\ role' = "rebuild"
  /\ UNCHANGED <<header, cells, torn, spoiled, mem, loop, now, opens, pending, past>>

Open(r) ==
  /\ opens < MaxOpens /\ opens' = opens + 1
  /\ \/ pc = "down" /\ header # "absent" /\ r \in Roles \ {"rebuild"}
     \/ pc = "removed" /\ r = "rebuild"

\* truncate_incomplete_tail, then load_all.
LoadAll(r) ==
  /\ Open(r) /\ header = "ok"
  /\ torn' = NoTail
  /\ records' = Readable(cells) /\ misled' = spoiled
  /\ pc' = "loaded" /\ role' = r
  /\ UNCHANGED <<header, cells, index, spoiled, entries, cursor, loop, now, pending,
                 acked, rebuilt>>

\* read_exact of the header fails; nothing has been truncated.
LoadAllFails(r) ==
  /\ Open(r) /\ header = "short"
  /\ Gone
  /\ UNCHANGED <<disk, now, past>>

\* Mutant of InSync: an index with entries missing is accepted.
InSyncAtMost == index.exists => Len(index.entries) <= Len(records)
InSync == index.exists => Len(index.entries) = Len(records)

\* What the program does once the store is open: `force` starts its loop.
Start ==
  IF role = "force"
    THEN /\ pc' = "force"
         /\ \E min \in 2..Threshold, only \in BOOLEAN :
              /\ force' = [min |-> min, only |-> only, any |-> FALSE, passes |-> 0]
              /\ level' \in IF only THEN 0..MaxLevel ELSE {0}
    ELSE pc' = "idle" /\ UNCHANGED loop

OpenIndex ==
  /\ pc = "loaded" /\ index.exists /\ InSync
  /\ entries' = index.entries /\ cursor' = index.cursor
  /\ Start
  /\ UNCHANGED <<disk, role, records, now, opens, pending, past>>

\* IndexOutOfSync: "refuse silent rebuild".
RefuseIndex ==
  /\ pc = "loaded" /\ ~InSync
  /\ Gone
  /\ UNCHANGED <<disk, now, opens, past>>

\* create_fresh: every record at level 0 and live.
CreateFresh ==
  /\ pc = "loaded" /\ ~index.exists
  /\ entries' = [i \in DOMAIN records |-> DefaultEntry] /\ cursor' = 0
  /\ index' = [exists |-> TRUE, cursor |-> cursor', entries |-> entries']
  /\ rebuilt' = (rebuilt \/ records # <<>>)
  /\ Start
  /\ UNCHANGED <<header, cells, torn, spoiled, role, records, now, opens, pending,
                 acked, misled>>

CreateFreshFails ==
  /\ pc = "loaded" /\ ~index.exists /\ "flush" \in Faults
  /\ Gone
  /\ UNCHANGED <<disk, now, opens, past>>

(***************************************************************************)
(* leet_remember: PersonalStore.append.                                    *)
(***************************************************************************)
Memory(id) == [ids |-> {id}, unix_ns |-> id]

Serving == pc = "idle" /\ role = "server" /\ now < MaxNow

\* append_at_level(record, 0, default)
Remember ==
  /\ Serving
  /\ now' = now + 1 /\ pending' = now'
  /\ AppendAtLevel(Memory(now'), DefaultEntry, {})
  /\ pc' = "cascade" /\ level' = 0
  /\ UNCHANGED <<header, index, role, cursor, force, opens, past>>

RememberFails ==
  /\ Serving
  /\ now' = now + 1
  /\ AppendFails(Memory(now'))
  /\ UNCHANGED <<header, index, pc, role, cursor, loop, opens, pending, past>>

\* maybe_consolidate(level): the oldest Threshold live records of the level
\* Mutant of Ripe: more than Threshold records.
RipeAbove == Cardinality(LiveAt(entries, level)) > Threshold
Ripe == Cardinality(LiveAt(entries, level)) >= Threshold
Batch(n) == Oldest(LiveAt(entries, level), n)

\* append tries level 0, then level 1 whatever came of level 0, then one level
\* up as long as a level was consolidated and was not the last.
Consolidate ==
  /\ pc = "cascade" /\ Ripe
  /\ LET batch == Batch(Threshold)
     IN  AppendAtLevel(Blend(batch), MergedEntry(batch, level), batch)
  /\ level' = level + 1
  /\ pc' = IF level' > MaxLevel THEN "flush" ELSE "cascade"
  /\ UNCHANGED <<header, index, role, cursor, force, now, opens, pending, past>>

ConsolidateFails ==
  /\ pc = "cascade" /\ Ripe
  /\ AppendFails(Blend(Batch(Threshold)))
  /\ pc' = "idle" /\ level' = 0 /\ pending' = 0
  /\ UNCHANGED <<header, index, role, cursor, force, now, opens, past>>

NothingToConsolidate ==
  /\ pc = "cascade" /\ ~Ripe
  /\ IF level = 0 THEN level' = 1 /\ pc' = pc ELSE level' = level /\ pc' = "flush"
  /\ UNCHANGED <<disk, role, mem, force, now, opens, pending, past>>

\* Index::flush writes a new file and renames it over the old one.
\* Mutant of AppendFlush: the index is left to the next flush.
AppendUnflushed ==
  /\ pc = "flush"
  /\ acked' = acked \cup {pending} /\ pending' = 0
  /\ pc' = "idle" /\ level' = 0
  /\ UNCHANGED <<disk, role, mem, force, now, opens, rebuilt, misled>>

AppendFlush ==
  /\ pc = "flush"
  /\ index' = Flushed
  /\ acked' = acked \cup {pending} /\ pending' = 0
  /\ pc' = "idle" /\ level' = 0
  /\ UNCHANGED <<header, cells, torn, spoiled, role, mem, force, now, opens, rebuilt,
                 misled>>

AppendFlushFails ==
  /\ pc = "flush" /\ "flush" \in Faults
  /\ pc' = "idle" /\ level' = 0 /\ pending' = 0
  /\ UNCHANGED <<disk, role, mem, force, now, opens, past>>

(***************************************************************************)
(* leet_recall and leet_recall_delta read the live records and move the    *)
(* recall cursor; they ignore a flush that fails.                          *)
(***************************************************************************)
TouchRecall ==
  /\ Serving
  /\ now' = now + 1 /\ cursor' = now'
  /\ \/ index' = [Flushed EXCEPT !.cursor = cursor']
     \/ "flush" \in Faults /\ UNCHANGED index
  /\ UNCHANGED <<header, cells, torn, spoiled, pc, role, records, entries, loop, opens,
                 pending, past>>

Live == {i \in DOMAIN entries : ~entries[i].consolidated}

\* live_records_after
LiveRecordsAfter(c) == {i \in Live : records[i].unix_ns > c}

\* group_live_records_by_tier: the newest live record of the highest live
\* level above 0, the other live records above level 0, the raw ones.
TopLevel == Max({entries[i].level : i \in Live} \cup {0})
Foundation == IF TopLevel = 0 THEN {} ELSE {Max(LiveAt(entries, TopLevel))}
Raw == LiveAt(entries, 0)
Mid == Live \ (Foundation \cup Raw)

\* fill_temporal with its default caps: foundation, mid and raw, each newest
\* first, cut at limit.max(1) picks.
Newest(S, n) == {i \in S : Cardinality({j \in S : j > i}) < n}
FillTemporal(limit) ==
  LET room == Max({limit, 1}) - Cardinality(Foundation)
  IN  Foundation \cup Newest(Mid, room)
                 \cup Newest(Raw, room - Cardinality(Mid))

(***************************************************************************)
(* `leet consolidate force`: passes of force_consolidate_at over one level *)
(* or over levels 0..MaxLevel, until a pass merges nothing.                *)
(***************************************************************************)
\* Mutant of ForceRipe: more than --min records.
ForceRipeAbove == Cardinality(LiveAt(entries, level)) > force.min
ForceRipe == Cardinality(LiveAt(entries, level)) >= force.min

ForceMerge ==
  /\ pc = "force" /\ ForceRipe
  /\ LET batch == Batch(Threshold)
     IN  AppendAtLevel(Blend(batch), MergedEntry(batch, level), batch)
  /\ pc' = "forceFlush"
  /\ UNCHANGED <<header, index, role, cursor, loop, now, opens, pending, past>>

\* Any error ends the command.
ForceMergeFails ==
  /\ pc = "force" /\ ForceRipe
  /\ \/ "write" \in Faults /\ WritePart(Blend(Batch(Threshold)))
     \/ "fsync" \in Faults /\ WriteWhole(Blend(Batch(Threshold)))
  /\ Gone
  /\ UNCHANGED <<header, index, now, opens, past>>

\* On to the next level of the pass, to the next pass, or to the end.
NextLevel(any) ==
  IF ~force.only /\ level < MaxLevel
    THEN /\ level' = level + 1 /\ force' = [force EXCEPT !.any = any]
         /\ pc' = "force" /\ UNCHANGED <<role, mem, pending>>
    ELSE IF any /\ force.passes + 1 < MaxPasses
    THEN /\ level' = (IF force.only THEN level ELSE 0)
         /\ force' = [force EXCEPT !.any = FALSE, !.passes = @ + 1]
         /\ pc' = "force" /\ UNCHANGED <<role, mem, pending>>
    ELSE Gone

ForceFlush ==
  /\ pc = "forceFlush"
  /\ index' = Flushed
  /\ NextLevel(TRUE)
  /\ UNCHANGED <<header, cells, torn, spoiled, now, opens, past>>

ForceFlushFails ==
  /\ pc = "forceFlush" /\ "flush" \in Faults
  /\ Gone
  /\ UNCHANGED <<disk, now, opens, past>>

ForceNothing ==
  /\ pc = "force" /\ ~ForceRipe
  /\ NextLevel(force.any)
  /\ UNCHANGED <<disk, now, opens, past>>

(***************************************************************************)
(* The end of the process: EOF on stdin, the end of rebuild-index, a crash *)
(* between two steps or in the middle of write_all.                        *)
(***************************************************************************)
Exit ==
  /\ pc = "idle"
  /\ Gone
  /\ UNCHANGED <<disk, now, opens, past>>

Crash ==
  /\ pc # "down" /\ "crash" \in Faults
  /\ Gone
  /\ UNCHANGED <<disk, now, opens, past>>

CrashInWrite ==
  /\ "crash" \in Faults
  /\ \/ Serving /\ now' = now + 1 /\ WritePart(Memory(now'))
     \/ /\ (pc = "cascade" /\ Ripe) \/ (pc = "force" /\ ForceRipe)
        /\ WritePart(Blend(Batch(Threshold))) /\ UNCHANGED now
  /\ Gone
  /\ UNCHANGED <<header, index, opens, past>>

Opening ==
  \/ OpenCreate \/ CreateEmpty \/ CreateEmptyFails \/ RemoveIndex
  \/ \E r \in Roles : LoadAll(r) \/ LoadAllFails(r)
  \/ OpenIndex \/ RefuseIndex \/ CreateFresh \/ CreateFreshFails
Remembering ==
  \/ Remember \/ RememberFails
  \/ Consolidate \/ ConsolidateFails \/ NothingToConsolidate
  \/ AppendFlush \/ AppendFlushFails
Forcing ==
  \/ ForceMerge \/ ForceMergeFails \/ ForceFlush \/ ForceFlushFails \/ ForceNothing
Ending == Exit \/ Crash \/ CrashInWrite

Next == Opening \/ Remembering \/ TouchRecall \/ Forcing \/ Ending

Spec == Init /\ [][Next]_vars

-----------------------------------------------------------------------------
(***************************************************************************)
(* Properties.                                                             *)
(***************************************************************************)
Up == pc \in {"idle", "cascade", "flush", "force", "forceFlush"}

\* Every variable has the shape the code gives it, and an open store has one
\* index entry per record in memory.
TypeOK ==
  /\ header \in {"absent", "short", "ok"}
  /\ cells \in Seq(StoreRecord \cup {Corrupt})
  /\ torn \in StoreRecord \cup {Corrupt, NoTail}
  /\ index \in [exists : BOOLEAN, cursor : Nat, entries : Seq(IndexEntry)]
  /\ pc \in {"down", "creating", "removed", "loaded", "idle", "cascade",
             "flush", "force", "forceFlush"}
  /\ role \in Roles \cup {"none"}
  /\ records \in Seq(StoreRecord) /\ entries \in Seq(IndexEntry) /\ cursor \in Nat
  /\ Up => Len(entries) = Len(records)
  /\ level \in Nat /\ force \in ForceLoop
  /\ now \in Nat /\ opens \in Nat /\ pending \in Nat
  /\ acked \subseteq Nat /\ rebuilt \in BOOLEAN
  /\ spoiled \in BOOLEAN /\ misled \in BOOLEAN

\* No record was written behind a part of one.  A server that lives on after a
\* write that failed part way, and remembers something else, ends this for good.
Intact == ~spoiled

\* The store is open, and was intact when it was loaded.  What its process told
\* or showed since then it still has, even if it has spoiled the file by now: the
\* memories it wrote behind a part of a record are lost when it ends.
Trusted == Up /\ ~misled

\* Whatever was merged, marked or rebuilt, cut short by a crash or left out by a
\* failed fsync: every memory of a record in memory is in a record that recall
\* still looks at.
NothingHidden ==
  Trusted => \A i \in DOMAIN records : \A id \in records[i].ids :
          \E j \in Live : id \in records[j].ids

\* A memory whose leet_remember replied, to this process or an earlier one, is in a
\* live record whenever the store is open, unless the file had been spoiled by the
\* time it was loaded.
AckedRecallable ==
  Trusted => \A id \in acked : \E j \in Live : id \in records[j].ids

\* a is entirely older than b.
Older(a, b) == \A x \in records[a].ids, y \in records[b].ids : x < y

\* Until an index is rebuilt, the live records cut the past into consecutive
\* periods, oldest first at each level and the higher levels before the lower
\* ones: merging the oldest records never leaves an older one behind.
Chronological ==
  Trusted /\ ~rebuilt =>
    \A i, j \in Live :
      \/ entries[i].level > entries[j].level
      \/ entries[i].level = entries[j].level /\ i < j
      => Older(i, j)

\* What a merged entry says it was merged from: the records of the level below
\* in its range.
Merged == {i \in DOMAIN entries : entries[i].level > 0}
Sources(i) == {k \in entries[i].first .. entries[i].last :
                 entries[k].level = entries[i].level - 1}

\* The range a merged entry carries holds, at the level below, its batch and
\* nothing else.
ProvenanceSound ==
  Trusted =>
    \A i \in Merged :
      /\ \A k \in Sources(i) : entries[k].consolidated
      /\ records[i].ids = UNION {records[k].ids : k \in Sources(i)}

\* leet_recall_delta reports every memory made after the cursor, even one that
\* was consolidated in between.
DeltaComplete ==
  Trusted => \A i \in DOMAIN records : \A id \in records[i].ids :
          id > cursor => \E j \in LiveRecordsAfter(cursor) : id \in records[j].ids

\* `force` merged fewer records than a full batch.
MergedEarly == \E i \in Merged : Cardinality(Sources(i)) < Threshold

\* Between two calls of an MCP server level 0 holds no full batch, and no level
\* does as long as every summary was made of a full one: one cascade per append
\* is enough.  (`force --level` adds to a level it does not look at.)
PyramidBounded ==
  pc = "idle" /\ ~rebuilt =>
    \A l \in 0..MaxLevel :
      l = 0 \/ ~MergedEarly => Cardinality(LiveAt(entries, l)) < Threshold

\* A store closed after any history opens again: its index has as many entries
\* as it has records.
AlwaysOpens == pc = "loaded" => InSync

\* index.rs: "Bit 0 set => this record was consolidated into a higher-level
\* record; recall must skip it."
MarkedIsMerged ==
  Up => \A i \in DOMAIN entries : entries[i].consolidated =>
          \E j \in DOMAIN entries :
            entries[j].level > entries[i].level /\ records[i].ids \subseteq records[j].ids

\* The pass that ends merged something and was the last one allowed.
OutOfPasses == (pc = "forceFlush" \/ force.any) /\ force.passes + 1 = MaxPasses

\* `force` without --level stops with fewer than --min live records on every
\* level, unless it has used up its passes.
ForceComplete ==
  [][pc' = "down" /\ pc \in {"force", "forceFlush"} /\ ~force.only =>
       \/ OutOfPasses
       \/ \A l \in 0..MaxLevel : Cardinality(LiveAt(entries, l)) < force.min]_vars

\* Recall without a query shows the most recent raw memory.
RecallShowsRecent ==
  pc = "idle" /\ Raw # {} => Max(Raw) \in FillTemporal(RecallLimit)
=============================================================================
