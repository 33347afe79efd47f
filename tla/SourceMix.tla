------------------------------- MODULE SourceMix -------------------------------
(***************************************************************************)
(* calibration/sources: SourceAggregator.fetch draws training texts from    *)
(* several sources, balanced by weight or one after the other, and drops    *)
(* texts that come twice.  A file that does not parse makes its source      *)
(* raise; the sources behind a web API end instead.                         *)
(***************************************************************************)
EXTENDS Naturals, Sequences, SequencesExt, FiniteSetsExt, Subsequences

CONSTANTS
    SourceCount,   \* the sources of the aggregator
    SampleIds,     \* hashes of the texts they may give
    Weights,       \* the weights they may have
    Limits         \* the values of max_samples, of aggregator and sources

ASSUME MixAssumption ==
    SourceCount \in Nat \ {0} /\ Weights \subseteq Nat \ {0} /\ Limits \subseteq Nat

VARIABLES
    kinds,       \* each source: "file", "wikipedia" or "paged"
    weights, maxSamples, sourceLimit,
    balance, dedupe,
    at,          \* the source that is asked; behind the last one all is collected
    tries,       \* fetches of that source: how often it went round its loop
    taken,       \* its samples so far
    samples,   \* all_samples, and for a sequential fetch what was yielded
    raised,      \* history: the sources that raised
    offered      \* history: what the others gave within their share
mixVars == <<kinds, weights, maxSamples, sourceLimit, balance, dedupe, at, tries, taken,
             samples, raised, offered>>

SourceNumbers == 1..SourceCount

MixTypeOK ==
    /\ kinds \in [SourceNumbers -> {"file", "wikipedia", "paged"}] /\ weights \in [SourceNumbers -> Weights]
    /\ maxSamples \in Limits /\ sourceLimit \in Limits
    /\ balance \in BOOLEAN /\ dedupe \in BOOLEAN
    /\ at \in 1..(SourceCount + 1) /\ tries \in Nat
    /\ taken \in Seq(SampleIds) /\ samples \in Seq(SampleIds)
    /\ raised \subseteq SourceNumbers /\ offered \in Seq(SampleIds)

MixInit ==
    /\ kinds \in [SourceNumbers -> {"file", "wikipedia", "paged"}] /\ weights \in [SourceNumbers -> Weights]
    /\ maxSamples \in Limits /\ sourceLimit \in Limits
    /\ balance \in BOOLEAN /\ dedupe \in BOOLEAN
    /\ at = 1 /\ tries = 0 /\ taken = <<>> /\ samples = <<>> /\ raised = {} /\ offered = <<>>

Settings == UNCHANGED <<kinds, weights, maxSamples, sourceLimit, balance, dedupe>>

-----------------------------------------------------------------------------
(* SourceAggregator *)

\* What the first k sources have of f together.
Sums(f) == LET upTo[k \in 0..SourceCount] == IF k = 0 THEN 0 ELSE upTo[k - 1] + f[k] IN upTo

TotalWeight == Sums(weights)[SourceCount]
Share(i) == (maxSamples * weights[i]) \div TotalWeight

\* Mutant of Allocation: every share rounded up.
AllocationRoundedUp(i) == IF maxSamples * weights[i] % TotalWeight = 0 THEN Share(i) ELSE Share(i) + 1

\* _fetch_balanced: the shares rounded down, and what is left over goes to the
\* first source.  (Shares are exact here; in floating point one may come out
\* lower by one, and the difference goes the same way.)
Allocation(i) ==
    IF i # 1 THEN Share(i)
    ELSE Share(1) + (maxSamples - Sums([j \in SourceNumbers |-> Share(j)])[SourceCount])

\* Mutant of Unique: only a text that comes twice in a row.
UniqueNeighbours(s) == Keeping(s, {i \in DOMAIN s : i > 1 => s[i - 1] # s[i]})

\* deduplicate: the first of each.
Unique(s) == Keeping(s, {i \in DOMAIN s : \A j \in 1..(i - 1) : s[j] # s[i]})

\* What fetch yields, up to the order that shuffle gives it.
Yielded ==
    LET all == IF dedupe THEN Unique(samples) ELSE samples
    IN IF balance THEN SubSeq(all, 1, IF Len(all) < maxSamples THEN Len(all) ELSE maxSamples)
       ELSE samples

NextSource == at' = at + 1 /\ tries' = 0 /\ taken' = <<>>

\* The source has more to give: its n samples were taken, and the loop breaks
\* on the next one; a sequential fetch returns at max_samples.
Enough == IF balance THEN Len(taken) = Allocation(at) ELSE Len(samples) = maxSamples

-----------------------------------------------------------------------------
(* What the sources do when they are asked for a sample *)

\* The loop of fetch may go round once more.
MayGive ==
    CASE kinds[at] = "file"      -> TRUE
      [] kinds[at] = "wikipedia" -> tries < sourceLimit
      [] OTHER                   -> Len(taken) < sourceLimit

\* A sample that passes filter_sample is asked for, and is within the share.
Gives ==
    /\ at \in SourceNumbers /\ MayGive /\ ~Enough
    /\ Len(taken) < Max(Limits)          \* bound: samples of one source
    /\ tries' = tries + 1
    /\ \E x \in SampleIds :
        /\ taken' = Append(taken, x)
        /\ IF balance THEN UNCHANGED <<samples, offered>>
           ELSE IF dedupe /\ x \in ToSet(samples) THEN UNCHANGED <<samples, offered>>
           ELSE samples' = Append(samples, x) /\ offered' = Append(offered, x)
    /\ UNCHANGED <<at, raised>> /\ Settings

\* One sample too many makes the aggregator leave the source.
GivesOneMore ==
    /\ at \in SourceNumbers /\ MayGive /\ Enough
    /\ IF balance
       THEN NextSource /\ samples' = samples \o taken /\ offered' = offered \o taken
       ELSE at' = SourceCount + 1 /\ UNCHANGED <<tries, taken, samples, offered>>
    /\ UNCHANGED raised /\ Settings

\* Nothing comes of a page of Wikipedia: too short, ambiguous, or an error.
GivesNothing ==
    /\ at \in SourceNumbers /\ kinds[at] = "wikipedia" /\ MayGive
    /\ tries' = tries + 1
    /\ UNCHANGED <<at, taken, samples, raised, offered>> /\ Settings

\* The end of the file or of the pages, an error of the API included.
SourceEnds ==
    /\ at \in SourceNumbers /\ (kinds[at] = "wikipedia" => ~MayGive)
    /\ NextSource
    /\ samples' = (IF balance THEN samples \o taken ELSE samples)
    /\ offered' = (IF balance THEN offered \o taken ELSE offered)
    /\ UNCHANGED raised /\ Settings

\* A file is not what its suffix says, or a record is no object.  Nothing is
\* left of the source: all_samples is only extended once it ended, and what a
\* sequential fetch yielded is out.
SourceRaises ==
    /\ at \in SourceNumbers /\ kinds[at] = "file"
    /\ raised' = raised \cup {at} /\ NextSource
    /\ UNCHANGED <<samples, offered>> /\ Settings

MixNext == Gives \/ GivesOneMore \/ GivesNothing \/ SourceEnds \/ SourceRaises

MixSpec == MixInit /\ [][MixNext]_mixVars

-----------------------------------------------------------------------------
(* Properties *)

\* One source that fails takes nothing from the others, and no sample is cut
\* off that a source was asked for: whatever the rounding, the shares are
\* max_samples together (aggregator.py:74-85, 106).
OthersKept ==
    at \notin SourceNumbers => ToSet(Yielded) = ToSet(offered) /\ Len(Yielded) <= maxSamples

\* No text comes twice, within a source or from two of them.
OnceEach == dedupe => IsInjective(Yielded)

MixSound == OthersKept /\ OnceEach
=============================================================================
