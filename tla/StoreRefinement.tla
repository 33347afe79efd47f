-------------------------- MODULE StoreRefinement --------------------------
(***************************************************************************)
(* PersonalStore implements MemoryCover.  While the store is open, what is *)
(* live is what the index in memory says; while it is not, it is what an   *)
(* opening would make of the two files: the live records of index.bin if   *)
(* it has an entry for each record, all the records if it does not, since  *)
(* only `rebuild-index` opens such a store.                                *)
(***************************************************************************)
EXTENDS PersonalStore

\* The sets of memories of the live records rs[i], es[i] being their entries.
LiveSets(rs, es) == {rs[i].ids : i \in {k \in DOMAIN es : ~es[k].consolidated}}

Written(rs) == {rs[i].ids : i \in DOMAIN rs}

LiveNow ==
  IF Up THEN LiveSets(records, entries)
  ELSE IF index.exists /\ Len(index.entries) = Len(cells)
  THEN LiveSets(cells, index.entries)
  ELSE Written(cells)

Cover == INSTANCE MemoryCover
           WITH Memories <- 0 .. MaxNow, live <- LiveNow, ever <- Written(cells),
                told <- acked

\* Every step of the store changes what a reader can find in one of the ways
\* MemoryCover allows, or not at all: no crash, failed flush or failed fsync
\* between the steps of a merge shows the merge half done.
ImplementsCover == Cover!Spec
=============================================================================
