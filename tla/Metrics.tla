-------------------------------- MODULE Metrics --------------------------------
(***************************************************************************)
(* python/leet/metrics.py: a MetricsCollector that threads record to while *)
(* the Prometheus exporter's thread reads it.  Every counter and histogram *)
(* has a lock of its own, so a record is several steps and an export many. *)
(* Durations are short (1) or long (2); a histogram keeps the last         *)
(* KeptDurations of them.  The timed decorator is left out: it raises      *)
(* NameError where it is applied, for want of `import asyncio`.            *)
(***************************************************************************)
EXTENDS Naturals, FiniteSets, Sequences, SequencesExt, Functions

CONSTANTS
    Recorders,        \* threads, or tasks of a loop, that record
    KeptDurations,    \* maxlen of a histogram's deque (10000 in the code)
    MaxRecords,       \* bound on recorded calls
    MaxScrapes        \* bound on exports

ASSUME MetAssumption ==
    /\ IsFiniteSet(Recorders)
    /\ KeptDurations \in Nat \ {0} /\ MaxRecords \in Nat /\ MaxScrapes \in Nat

VARIABLES
    counters,     \* the counters
    durations,    \* the deque of the projections' histogram, oldest first
    recording,    \* the call each recorder is in: [kind, by, extra, at]
    happened,     \* what was to be recorded so far, per counter
    scraping,     \* the export under way: [at, saw]
    lastScrape,   \* what the export before it saw
    scrapes       \* number of exports begun

metVars == <<counters, durations, recording, happened, scraping, lastScrape, scrapes>>

Counters == {"projections", "cached", "operations", "hits", "misses", "requests", "failed"}

\* A kind of call, the counter of its calls, and the one of its special ones.
TotalOf == [projection |-> "projections", operation |-> "operations", request |-> "requests",
            hit |-> "hits", miss |-> "misses"]
ExtraOf == [projection |-> "cached", request |-> "failed"]
MetricKinds == DOMAIN TotalOf

\* export_prometheus reads in this order; the two rates read their counters again.
ReadOrder == <<"projections", "cached", "le", "inf", "count", "operations", "hits", "misses",
               "rateHits", "rateMisses", "requests", "failed", "rateTotal", "rateFailed">>
Read == [projections |-> "projections", cached |-> "cached", operations |-> "operations",
         hits |-> "hits", misses |-> "misses", rateHits |-> "hits", rateMisses |-> "misses",
         requests |-> "requests", failed |-> "failed", rateTotal |-> "requests",
         rateFailed |-> "failed"]

NothingRead == [r \in ToSet(ReadOrder) |-> 0]
NoCall == [kind |-> "hit", by |-> "direct", extra |-> FALSE, long |-> 1, at |-> "idle"]

MetTypeOK ==
    /\ counters \in [Counters -> 0..MaxRecords]
    /\ durations \in BoundedSeq(1..2, KeptDurations)
    /\ recording \in [Recorders -> [kind : MetricKinds, by : {"direct", "context"},
                                    extra : BOOLEAN, long : 1..2,
                                    at : {"idle", "run", "total", "observe", "extra"}]]
    /\ happened \in [Counters -> 0..MaxRecords]
    /\ scraping.at \in 0..Len(ReadOrder)
    /\ scraping.saw \in [ToSet(ReadOrder) -> 0..MaxRecords]
    /\ lastScrape \in [ToSet(ReadOrder) -> 0..MaxRecords]
    /\ scrapes \in 0..MaxScrapes

MetInit ==
    /\ counters = [c \in Counters |-> 0] /\ durations = <<>>
    /\ recording = [t \in Recorders |-> NoCall]
    /\ happened = [c \in Counters |-> 0]
    /\ scraping = [at |-> 0, saw |-> NothingRead] /\ lastScrape = NothingRead
    /\ scrapes = 0

---------------------------------------------------------------------------
ScrapeUnchanged == UNCHANGED <<scraping, lastScrape, scrapes>>

\* A call that is measured begins: recorded directly, or in a timed_context.
Measure(t, call) ==
    /\ recording[t].at = "idle"
    /\ FoldFunctionOnSet(+, 0, happened, {TotalOf[k] : k \in MetricKinds})
         + Cardinality({u \in Recorders : recording[u].at = "run"}) < MaxRecords
    /\ recording' = [recording EXCEPT ![t] = call]
    /\ UNCHANGED <<counters, durations, happened>> /\ ScrapeUnchanged

\* What is about to be recorded is noted.
Note(call) ==
    happened' = [c \in Counters |->
        happened[c] + (IF c = TotalOf[call.kind] THEN 1
                       ELSE IF call.extra /\ c = ExtraOf[call.kind] THEN 1 ELSE 0)]

\* timed_context: a cancelled block counts as one that succeeded.
ContextEnds(t, end) ==
    /\ recording[t].at = "run" /\ recording[t].by = "context"
    /\ LET call == [recording[t] EXCEPT !.extra = @ /\ end = "raises", !.at = "total"]
       IN recording' = [recording EXCEPT ![t] = call] /\ Note(call)
    /\ UNCHANGED <<counters, durations>> /\ ScrapeUnchanged

\* record_projection, record_request, record_operation, record_cache_hit or
\* _miss is called.
RecordBegins(t) ==
    /\ recording[t].at = "run" /\ recording[t].by = "direct"
    /\ recording' = [recording EXCEPT ![t].at = "total"]
    /\ Note(recording[t])
    /\ UNCHANGED <<counters, durations>> /\ ScrapeUnchanged

\* Counter.inc, under the counter's lock.
Inc(c) == counters' = [counters EXCEPT ![c] = @ + 1]

\* Mutant of Total: a failed request or a cached projection is counted as
\* such before it is counted at all.
TotalLate(t) ==
    LET call == recording[t]
    IN /\ call.at = "total"
       /\ Inc(IF call.extra THEN ExtraOf[call.kind] ELSE TotalOf[call.kind])
       /\ recording' = [recording EXCEPT ![t] =
              IF call.kind \in {"hit", "miss"} THEN NoCall ELSE [call EXCEPT !.at = "observe"]]
       /\ UNCHANGED <<durations, happened>> /\ ScrapeUnchanged

\* The first step of a record: the total.
Total(t) ==
    LET call == recording[t]
    IN /\ call.at = "total"
       /\ Inc(TotalOf[call.kind])
       /\ recording' = [recording EXCEPT ![t] =
              IF call.kind \in {"hit", "miss"} THEN NoCall ELSE [call EXCEPT !.at = "observe"]]
       /\ UNCHANGED <<durations, happened>> /\ ScrapeUnchanged

\* Histogram.observe: the deque drops its oldest duration.  (The histograms of
\* requests and operations are like that of projections, which is kept.)
Observe(t) ==
    LET call == recording[t]
    IN /\ call.at = "observe"
       /\ durations' = IF call.kind # "projection" THEN durations
                       ELSE IF Len(durations) < KeptDurations THEN Append(durations, call.long)
                       ELSE Append(Tail(durations), call.long)
       /\ recording' = [recording EXCEPT ![t] =
              IF call.extra THEN [call EXCEPT !.at = "extra"] ELSE NoCall]
       /\ UNCHANGED <<counters, happened>> /\ ScrapeUnchanged

\* The last step: the failures, the cached projections.
Extra(t) ==
    /\ recording[t].at = "extra"
    /\ Inc(ExtraOf[recording[t].kind])
    /\ recording' = [recording EXCEPT ![t] = NoCall]
    /\ UNCHANGED <<durations, happened>> /\ ScrapeUnchanged

---------------------------------------------------------------------------
\* Histogram.get_buckets: counted under one lock.
Le == Len(SelectSeq(durations, LAMBDA d : d = 1))

\* A GET of /metrics: export_prometheus reads one metric after the other, the
\* buckets of the histogram together.
BeginScrape ==
    /\ scraping.at = 0 /\ scrapes < MaxScrapes
    /\ scrapes' = scrapes + 1
    /\ scraping' = [at |-> 1, saw |-> NothingRead]
    /\ UNCHANGED <<counters, durations, recording, happened, lastScrape>>

ReadNext ==
    /\ scraping.at > 0
    /\ LET r == ReadOrder[scraping.at]
           saw == CASE r = "le" -> [scraping.saw EXCEPT !["le"] = Le, !["inf"] = Len(durations)]
                    [] r = "inf" -> scraping.saw
                    [] r = "count" -> [scraping.saw EXCEPT !["count"] = Len(durations)]
                    [] OTHER -> [scraping.saw EXCEPT ![r] = counters[Read[r]]]
       IN IF scraping.at = Len(ReadOrder)
          THEN scraping' = [at |-> 0, saw |-> NothingRead] /\ lastScrape' = saw
          ELSE scraping' = [at |-> scraping.at + 1, saw |-> saw] /\ UNCHANGED lastScrape
    /\ UNCHANGED <<counters, durations, recording, happened, scrapes>>

MeasuredCalls ==
    {[kind |-> k, by |-> "direct", extra |-> e, long |-> d, at |-> "run"] :
         k \in {"projection", "request"}, e \in BOOLEAN, d \in 1..2} \cup
    {[kind |-> k, by |-> "direct", extra |-> FALSE, long |-> 1, at |-> "run"] :
         k \in {"hit", "miss", "operation"}} \cup
    {[kind |-> "request", by |-> "context", extra |-> TRUE, long |-> 1, at |-> "run"]}

MetNext ==
    \/ \E t \in Recorders :
           \/ \E call \in MeasuredCalls : Measure(t, call)
           \/ \E end \in {"returns", "raises", "cancelled"} : ContextEnds(t, end)
           \/ RecordBegins(t) \/ Total(t) \/ Observe(t) \/ Extra(t)
    \/ BeginScrape \/ ReadNext

MetSpec == MetInit /\ [][MetNext]_metVars

---------------------------------------------------------------------------
\* At every moment no more requests have failed, and no more projections came
\* from the cache, than there were; and when nobody records, the counters say
\* what happened: no increment of two threads is lost.
CountersExact ==
    /\ counters["failed"] <= counters["requests"]
    /\ counters["cached"] <= counters["projections"]
    /\ (\A t \in Recorders : recording[t].at \in {"idle", "run"}) => counters = happened

\* Two scrapes in turn: no counter of the second is below that of the first,
\* and the total of a rate that is read again has not gone back.
ScrapesGrow ==
    scraping.at = 0 \/
        \A i \in 1..(scraping.at - 1) :
            ReadOrder[i] \in DOMAIN Read
                => scraping.saw[ReadOrder[i]] >= lastScrape[ReadOrder[i]]

MetricsSound == CountersExact /\ ScrapesGrow
===============================================================================
