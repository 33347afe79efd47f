--------------------------- MODULE BatchProcessor ---------------------------
(***************************************************************************)
(* BatchProcessor and ProjectionBatcher of python/leet/batch.py.  process  *)
(* makes a task of every item, lets max_concurrency of them run, and hands *)
(* the results on as they complete; _processed and _errors belong to the   *)
(* processor and are shared by the calls that run at the same time.  A     *)
(* ProjectionBatcher makes a processor of its own for each call, looks the *)
(* texts up in the cache first, and turns a failed projection into None.   *)
(* A step is the code between two awaits.                                  *)
(***************************************************************************)
EXTENDS Naturals, Sequences, SequencesExt, FiniteSets, Subsequences

CONSTANTS
    Calls,           \* the calls of process on one processor
    BatchItems,      \* the number of items of each call
    Concurrency,     \* max_concurrency
    ErrorPercent,    \* error_threshold, in percent
    ContinueOnError  \* continue_on_error

ASSUME BatchAssumption ==
    /\ IsFiniteSet(Calls) /\ BatchItems \in Nat \ {0} /\ Concurrency \in Nat \ {0}
    /\ ErrorPercent \in 0..100 /\ ContinueOnError \in BOOLEAN

VARIABLES
    call,       \* of each call: "new", "running", "ended", "aborted"
    job,        \* the task of each item
    doneQueue,  \* the finished tasks that as_completed has not handed over
    collected,  \* the results the call has taken, with the outcome each one had
    errors,     \* _errors of each processor
    projecting, \* the calls are those of a ProjectionBatcher
    cached      \* project_with_cache: the items of each call that the cache answers

batchVars == <<call, job, doneQueue, collected, errors, projecting, cached>>

Items == 1..BatchItems
Jobs == Calls \X Items
Misses(c) == Items \ cached[c]

\* The processor of a call; a direct caller may use one for all its calls.
Processor(c) == IF projecting THEN c ELSE CHOOSE d \in Calls : TRUE

BatchTypeOK ==
    /\ call \in [Calls -> {"new", "running", "ended", "aborted"}]
    /\ job \in [Jobs -> {"none", "waiting", "running", "ok", "error", "cancelled"}]
    /\ \A c \in Calls : doneQueue[c] \in Seq(Items)
    /\ \A c \in Calls : collected[c] \in Seq([index : Items, ok : BOOLEAN])
    /\ errors \in [Calls -> 0..Cardinality(Jobs)]
    /\ projecting \in BOOLEAN
    /\ cached \in [Calls -> SUBSET Items]

BatchInit ==
    /\ call = [c \in Calls |-> "new"]
    /\ job = [j \in Jobs |-> "none"]
    /\ doneQueue = [c \in Calls |-> <<>>]
    /\ collected = [c \in Calls |-> <<>>]
    /\ errors = [c \in Calls |-> 0]
    /\ projecting \in BOOLEAN
    /\ cached \in [Calls -> IF projecting THEN SUBSET Items ELSE {{}}]

-----------------------------------------------------------------------------
\* The counters start again, for every call of the processor that is under way.
Begin(c) ==
    /\ call[c] = "new"
    /\ call' = [call EXCEPT ![c] = "running"]
    /\ job' = [j \in Jobs |-> IF j[1] = c /\ j[2] \in Misses(c) THEN "waiting" ELSE job[j]]
    /\ errors' = [errors EXCEPT ![Processor(c)] = 0]
    /\ UNCHANGED <<doneQueue, collected, projecting, cached>>

Permits(p) == Concurrency - Cardinality({j \in Jobs : job[j] = "running" /\ Processor(j[1]) = p})

\* The semaphore serves the tasks of a call in the order of its items.
Admit(c, i) ==
    /\ job[<<c, i>>] = "waiting" /\ Permits(Processor(c)) > 0
    /\ \A k \in 1..i - 1 : job[<<c, k>>] # "waiting"
    /\ job' = [job EXCEPT ![<<c, i>>] = "running"]
    /\ UNCHANGED <<call, doneQueue, collected, errors, projecting, cached>>

\* _process_one turns an exception into a result and counts it; project_one
\* has caught it before.
Finish(c, i, ok) ==
    /\ job[<<c, i>>] = "running"
    /\ job' = [job EXCEPT ![<<c, i>>] = IF ok THEN "ok" ELSE "error"]
    /\ errors' = IF ok \/ projecting THEN errors ELSE [errors EXCEPT ![Processor(c)] = @ + 1]
    /\ doneQueue' = [doneQueue EXCEPT ![c] = Append(@, i)]
    /\ UNCHANGED <<call, collected, projecting, cached>>

\* The errors of all finished items over the results this call has taken.
Exceeded(p, n) == errors[p] * 100 > ErrorPercent * n

CancelRest(c) ==
    [j \in Jobs |-> IF j[1] = c /\ job[j] \in {"waiting", "running"} THEN "cancelled" ELSE job[j]]

\* A result is taken; at the threshold the tasks that are left are cancelled
\* and the call raises, which loses this result too.
Collect(c) ==
    LET i == Head(doneQueue[c])
    IN  /\ call[c] = "running" /\ doneQueue[c] # <<>>
        /\ doneQueue' = [doneQueue EXCEPT ![c] = Tail(@)]
        /\ IF Exceeded(Processor(c), Len(collected[c]) + 1) /\ ~ContinueOnError
           THEN /\ call' = [call EXCEPT ![c] = "aborted"]
                /\ job' = CancelRest(c)
                /\ UNCHANGED collected
           ELSE /\ collected' = [collected EXCEPT ![c] =
                                   Append(@, [index |-> i, ok |-> job[<<c, i>>] = "ok"])]
                /\ UNCHANGED <<call, job>>
        /\ UNCHANGED <<errors, projecting, cached>>

\* process_to_list sorts by index when all are there.
Complete(c) == Len(collected[c]) = Cardinality(Misses(c))

Finished(c) ==
    /\ call[c] = "running" /\ Complete(c)
    /\ call' = [call EXCEPT ![c] = "ended"]
    /\ UNCHANGED <<job, doneQueue, collected, errors, projecting, cached>>

BatchNext ==
    \E c \in Calls :
        \/ Begin(c) \/ Collect(c) \/ Finished(c)
        \/ \E i \in Items : Admit(c, i) \/ \E ok \in BOOLEAN : Finish(c, i, ok)

BatchSpec == BatchInit /\ [][BatchNext]_batchVars

-----------------------------------------------------------------------------
\* Mutant of ByIndex: the results stay in the order of their completion.
AsCompleted(c) == collected[c]

\* process_to_list: the results sorted by index.
ByIndex(c) ==
    LET done == Range(collected[c])
    IN  [n \in DOMAIN collected[c] |->
           CHOOSE r \in done : Cardinality({q \in done : q.index <= r.index}) = n]

\* project_with_cache: the misses carry their position, and every item gets the
\* cached value, the one projected for it, or None when that failed.
Merged(c) ==
    [i \in Items |->
        IF i \in cached[c] THEN "hit"
        ELSE LET n == Cardinality({k \in Misses(c) : k <= i})
             IN  IF ByIndex(c)[n].ok THEN "projected" ELSE "none"]

\* batch_blend: the outputs of the items that did not fail.
Successes(c) == Keeping(ByIndex(c), {n \in DOMAIN ByIndex(c) : ByIndex(c)[n].ok})

(* Properties *)

\* The lists of two calls that share a processor, in whatever order their items
\* complete: a call that ends gives each item its own result (batch.py:207, :304).
OwnResults ==
    \A c \in Calls : call[c] = "ended" =>
      /\ Len(Successes(c)) = Cardinality({i \in Items : job[<<c, i>>] = "ok"})
      /\ \A i \in Items : Merged(c)[i] = IF i \in cached[c] THEN "hit"
                                        ELSE IF job[<<c, i>>] = "ok" THEN "projected" ELSE "none"

\* A batch is only aborted when more than error_threshold of the items that its
\* processor has finished failed (batch.py:52 and :159).
AbortsOnMajority ==
    [][\A c \in Calls : call[c] = "running" /\ call'[c] = "aborted" =>
         errors[Processor(c)] * 100
            > ErrorPercent * Cardinality({j \in Jobs : /\ Processor(j[1]) = Processor(c)
                                                       /\ job[j] \in {"ok", "error"}})]_batchVars
=============================================================================
