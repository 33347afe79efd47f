---------------------------- MODULE MemoryCover ----------------------------
(***************************************************************************)
(* What the project memory promises its readers, whatever happens to the   *)
(* process that keeps it.  A summary is the set of the memories it stands  *)
(* for; live holds the summaries that leet_recall looks at, or would look  *)
(* at after the next successful open; ever holds all that were written.    *)
(* A summary leaves live only in the step that puts the union of its batch *)
(* there (Merge), or when all that was ever written is live again.         *)
(***************************************************************************)
CONSTANT Memories  \* what can be remembered

VARIABLES
  live, ever,
  told       \* the memories whose leet_remember was answered

vars == <<live, ever, told>>

Init == live = {} /\ ever = {} /\ told = {}

\* append_at_level(record, 0, ..): a new memory is live on its own.
Remember(m) ==
  /\ m \notin UNION ever
  /\ live' = live \cup {{m}} /\ ever' = ever \cup {{m}}
  /\ UNCHANGED told

\* Mutant of Union: one member of the batch is left out.
UnionButOne(S) == UNION (S \ {CHOOSE s \in S : TRUE})
\* blend_n_records
Union(S) == UNION S

\* maybe_consolidate, force_consolidate_at: the batch S gives way to its union
\* in one step.  Two records may be summaries of the same memories, so that
\* some of the batch, S \ D, stays live through another record.
Merge(S, D) ==
  /\ live' = (live \ D) \cup {Union(S)}
  /\ ever' = ever \cup {Union(S)}
  /\ UNCHANGED told

\* A record was written and its fsync failed: it stands in the file, unknown
\* to the process, which goes on or ends.
Orphan(s) ==
  /\ ever' = ever \cup {s}
  /\ live' \in {live, ever'}
  /\ UNCHANGED told

\* The index is lost, or no longer fits the records: all of them will be live.
Relapse == live' = ever /\ UNCHANGED <<ever, told>>

\* leet_remember replies.
Tell(m) ==
  /\ m \in UNION live
  /\ told' = told \cup {m} /\ UNCHANGED <<live, ever>>

Next ==
  \/ \E m \in Memories : Remember(m) \/ Tell(m)
  \/ \E m \in Memories : m \notin UNION ever /\ Orphan({m})
  \/ \E S \in (SUBSET live) \ {{}} :
       \/ \E D \in SUBSET S : Merge(S, D)
       \/ Orphan(Union(S))
  \/ Relapse

Spec == Init /\ [][Next]_vars

\* A memory that was reported as remembered is part of a live summary, however
\* often the summaries were merged and the index was lost.
ToldIsLive == told \subseteq UNION live
=============================================================================
