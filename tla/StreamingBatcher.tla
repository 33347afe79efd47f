-------------------------- MODULE StreamingBatcher --------------------------
(***************************************************************************)
(* StreamingBatcher of python/leet/batch.py: producers put items into a    *)
(* buffer, a full buffer is flushed by the put that filled it, close()     *)
(* flushes the rest and waits, results() yields what there is.             *)
(* A step is the code between two awaits.                                  *)
(***************************************************************************)
EXTENDS Naturals, Sequences, SequencesExt, FiniteSets, FiniteSetsExt

CONSTANTS
    Producers,    \* the tasks that put
    StreamItems,  \* bound: the items put in a behaviour, numbered in their order
    MaxBuffer,    \* max_buffer
    FlushLimit    \* max_concurrency: here a limit of flushes, not of items

ASSUME StreamAssumption ==
    /\ StreamItems \in Nat /\ MaxBuffer \in Nat \ {0} /\ FlushLimit \in Nat \ {0}
    /\ "close" \notin Producers   \* close() is not one of them

VARIABLES
    putCount,  \* the items put so far
    buffer,    \* _buffer
    flush,     \* of each producer, and of close(): the batch its flush holds and where it is
    task,      \* the task of each item
    results,   \* _results, each with the index it has in its batch
    tracked,   \* _tasks
    closer,    \* where close() is
    unheard,   \* the items whose tasks were not there yet when close() called gather
    returned,  \* the results close() returned; their order, by an index that starts again
               \* with each flush, is left out
    yielded    \* history: the items results() has yielded

streamVars == <<putCount, buffer, flush, task, results, tracked, closer, unheard, returned, yielded>>

StreamItem == 1..StreamItems
Closer == "close"
Flushers == Producers \cup {Closer}
NoFlush == [at |-> "none", batch |-> <<>>]

StreamTypeOK ==
    /\ putCount \in 0..StreamItems
    /\ buffer \in Seq(StreamItem) /\ Len(buffer) < MaxBuffer
    /\ \A p \in Flushers : flush[p].at \in {"none", "semaphore", "collect"} /\ flush[p].batch \in Seq(StreamItem)
    /\ task \in [StreamItem -> {"none", "running", "done", "collected"}]
    /\ results \in Seq([index : StreamItem, item : StreamItem])
    /\ tracked \subseteq StreamItem
    /\ closer \in {"open", "flush", "gather", "returned"}
    /\ unheard \subseteq StreamItem
    /\ returned \subseteq [index : StreamItem, item : StreamItem]
    /\ yielded \subseteq StreamItem

StreamInit ==
    /\ putCount = 0 /\ buffer = <<>>
    /\ flush = [p \in Flushers |-> NoFlush]
    /\ task = [i \in StreamItem |-> "none"]
    /\ results = <<>> /\ tracked = {} /\ closer = "open" /\ unheard = {}
    /\ returned = {} /\ yielded = {}

-----------------------------------------------------------------------------
\* _flush takes the whole buffer at once; it goes on to its tasks, or waits for
\* the semaphore with what it has taken.
InQueue == {p \in Flushers : flush[p].at = "semaphore"}
Collecting == {p \in Flushers : flush[p].at = "collect"}
Free == InQueue = {} /\ Cardinality(Collecting) < FlushLimit

\* Mutant of LeftIn: the buffer is not cleared.
LeftInAll(b) == IF Len(b) >= MaxBuffer THEN Tail(b) ELSE b

LeftIn(b) == IF Len(b) >= MaxBuffer THEN <<>> ELSE b

StartTasks(batch) ==
    /\ task' = [i \in StreamItem |-> IF i \in Range(batch) THEN "running" ELSE task[i]]
    /\ tracked' = tracked \cup Range(batch)

Flush(p, batch) ==
    IF batch = <<>> THEN UNCHANGED <<flush, task, tracked>>
    ELSE IF Free
         THEN flush' = [flush EXCEPT ![p] = [at |-> "collect", batch |-> batch]] /\ StartTasks(batch)
         ELSE flush' = [flush EXCEPT ![p] = [at |-> "semaphore", batch |-> batch]] /\ UNCHANGED <<task, tracked>>

\* put: the item that fills the buffer flushes it.
Put(p) ==
    LET b == Append(buffer, putCount + 1)
    IN  /\ closer = "open" /\ flush[p] = NoFlush /\ putCount < StreamItems
        /\ putCount' = putCount + 1
        /\ buffer' = LeftIn(b)
        /\ IF Len(b) >= MaxBuffer THEN Flush(p, b) ELSE UNCHANGED <<flush, task, tracked>>
        /\ UNCHANGED <<results, closer, unheard, returned, yielded>>

\* The semaphore serves its queue in turn; nobody puts after close(), which is
\* the last in it.
FlushStarts(p) ==
    /\ p \in InQueue /\ Cardinality(Collecting) < FlushLimit
    /\ p = Closer => InQueue = {Closer}
    /\ flush' = [flush EXCEPT ![p].at = "collect"]
    /\ StartTasks(flush[p].batch)
    /\ UNCHANGED <<putCount, buffer, results, closer, unheard, returned, yielded>>

TaskEnds(i) ==
    /\ task[i] = "running"
    /\ task' = [task EXCEPT ![i] = "done"]
    /\ UNCHANGED <<putCount, buffer, flush, results, tracked, closer, unheard, returned, yielded>>

\* as_completed yields coroutines of its own: the discard of one from _tasks
\* takes nothing out.
TrackedAfter(i) == tracked

FlushCollects(p, i) ==
    LET batch == flush[p].batch
        position == CHOOSE n \in DOMAIN batch : batch[n] = i
    IN  /\ flush[p].at = "collect" /\ i \in Range(batch) /\ task[i] = "done"
        /\ task' = [task EXCEPT ![i] = "collected"]
        /\ results' = Append(results, [index |-> position, item |-> i])
        /\ tracked' = TrackedAfter(i)
        /\ flush' = IF \A k \in Range(batch) : task'[k] = "collected"
                    THEN [flush EXCEPT ![p] = NoFlush] ELSE flush
        /\ UNCHANGED <<putCount, buffer, closer, unheard, returned, yielded>>

-----------------------------------------------------------------------------
\* close(): its own flush, when there is something to flush, and then gather,
\* which waits for the tasks there are.  A flush that is still in the queue
\* has none: its items are not waited for.
GatherCalled ==
    /\ closer' = "gather"
    /\ unheard' = UNION {Range(flush[p].batch) : p \in InQueue}

CloseStream ==
    /\ closer = "open"
    /\ Flush(Closer, buffer) /\ buffer' = <<>>
    /\ IF buffer = <<>> THEN GatherCalled ELSE closer' = "flush" /\ UNCHANGED unheard
    /\ UNCHANGED <<putCount, results, returned, yielded>>

CloseGathers ==
    /\ closer = "flush" /\ flush[Closer] = NoFlush
    /\ GatherCalled
    /\ UNCHANGED <<putCount, buffer, flush, task, results, tracked, returned, yielded>>

\* A flush is told of its tasks before gather is; it has collected their results
\* when close() goes on.
Gathered == \A i \in tracked \ unheard : task[i] = "collected"

StreamCloses ==
    /\ closer = "gather" /\ Gathered
    /\ closer' = "returned"
    /\ returned' = Range(results)
    /\ UNCHANGED <<putCount, buffer, flush, task, results, tracked, unheard, yielded>>

\* results() yields what there is; _tasks is never empty again, so that it goes
\* on to look after close() and does not end.
ReadResult ==
    /\ results # <<>>
    /\ results' = Tail(results)
    /\ yielded' = yielded \cup {Head(results).item}
    /\ UNCHANGED <<putCount, buffer, flush, task, tracked, closer, unheard, returned>>

StreamNext ==
    \/ \E p \in Producers : Put(p)
    \/ \E p \in Flushers : FlushStarts(p) \/ \E i \in StreamItem : FlushCollects(p, i)
    \/ \E i \in StreamItem : TaskEnds(i)
    \/ CloseStream \/ CloseGathers \/ StreamCloses \/ ReadResult

StreamSpec == StreamInit /\ [][StreamNext]_streamVars

-----------------------------------------------------------------------------
(* Properties *)

Times(s, i) == Cardinality({n \in DOMAIN s : s[n] = i})
Resulting == [n \in DOMAIN results |-> results[n].item]

\* However producers, flushes that wait for one another, close() and the reader
\* interleave, an item that was put is in exactly one place: the buffer, the batch
\* of a flush, the results, or it has been yielded (batch.py:340 to :424).
StreamKeeps ==
    \A i \in 1..putCount :
        LET held == {p \in Flushers : task[i] # "collected" /\ i \in Range(flush[p].batch)}
        IN  Times(buffer, i) + Cardinality(held) + Times(Resulting, i)
               + Cardinality(yielded \cap {i}) = 1

\* What close() returns includes every item that was put and not yielded before,
\* but for the items of a flush that still waited for the semaphore when close()
\* had nothing to flush itself (batch.py:403).
CloseReturnsAll ==
    closer = "returned" =>
        \A i \in 1..putCount \ unheard : i \in yielded \/ \E r \in returned : r.item = i
=============================================================================
