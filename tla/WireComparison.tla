--------------------------- MODULE WireComparison ---------------------------
(***************************************************************************)
(* The experiment of comparison_1337_vs_english.py: in every round each of *)
(* the characters says something, which is sent as a COGON, as a sparse    *)
(* delta against the one before, or as an ACK when no axis moved enough.   *)
(* With the real API the characters of a round run in a thread pool; a     *)
(* thread is modelled as the call and the encoding after it.               *)
(*                                                                         *)
(* One axis stands for the vector.  What a receiver makes of the messages  *)
(* is not in the program: View computes it, for the properties.            *)
(***************************************************************************)
EXTENDS Integers, Sequences, FiniteSets, Subsequences

CONSTANTS
    Characters,    \* len(AGENTS_CONFIG)
    CmpRounds,     \* rounds
    CmpWorkers,    \* workers
    Positions,     \* bound: the values of the axis are 0..Positions
    CmpThreshold   \* delta_threshold

ASSUME ComparisonAssumption ==
    /\ Characters \in Nat \ {0} /\ CmpRounds \in Nat /\ CmpWorkers \in Nat \ {0}
    /\ Positions \in Nat /\ CmpThreshold \in Nat

VARIABLES
    useDeepseek,   \* use_deepseek
    cmpRound,      \* rnd, or CmpRounds when run has returned
    cmpPhase,      \* "round", "failing" while the pool drains, "failed"
    thread,        \* of each character: "queued", "calling" or "over"
    roundRecords,  \* records_this_round, "none" in an empty place
    prev,          \* _prev, Unsaid for None
    seq,           \* _seq
    wires,         \* the messages in the order of their seq
    records        \* metrics.records

cmpVars == <<useDeepseek, cmpRound, cmpPhase, thread, roundRecords, prev, seq, wires, records>>

Character == 1..Characters
Values == 0..Positions
Unsaid == -1
NoRecord == [agent |-> 0, round |-> 0, delta |-> FALSE]

ComparisonTypeOK ==
    /\ useDeepseek \in BOOLEAN /\ cmpRound \in 0..CmpRounds
    /\ cmpPhase \in {"round", "failing", "failed"}
    /\ thread \in [Character -> {"queued", "calling", "over"}]
    /\ \A c \in Character : roundRecords[c] \in
            [agent : 0..Characters, round : 0..CmpRounds, delta : BOOLEAN]
    /\ prev \in [Character -> Values \cup {Unsaid}]
    /\ seq = Len(wires)

ComparisonInit ==
    /\ useDeepseek \in BOOLEAN
    /\ cmpRound = 0 /\ cmpPhase = "round"
    /\ thread = [c \in Character |-> "queued"]
    /\ roundRecords = [c \in Character |-> NoRecord]
    /\ prev = [c \in Character |-> Unsaid]
    /\ seq = 0 /\ wires = <<>> /\ records = <<>>

-----------------------------------------------------------------------------

Distance(u, v) == IF u < v THEN v - u ELSE u - v

\* Mutant of SparseDelta: a change is sent from twice the threshold on.
SparseDeltaLate(u, v) == Distance(u, v) > 2 * CmpThreshold

\* sparse_delta: is the axis among the changes?
SparseDelta(u, v) == Distance(u, v) > CmpThreshold

\* _process from the projection on: the message, by what came before.
Encode(c, v) ==
    IF prev[c] = Unsaid \/ cmpRound = 0 THEN [from |-> c, kind |-> "COGON", value |-> v]
    ELSE IF SparseDelta(prev[c], v) THEN [from |-> c, kind |-> "DELTA", value |-> v]
    ELSE [from |-> c, kind |-> "ACK", value |-> 0]

\* The pool starts the characters in order, as many as it has workers; the
\* loop without it runs one after the other.
Calling == {c \in Character : thread[c] = "calling"}
Limit == IF useDeepseek THEN CmpWorkers ELSE 1

StartCall(c) ==
    /\ cmpPhase # "failed" /\ cmpRound < CmpRounds
    /\ thread[c] = "queued" /\ \A d \in 1..c - 1 : thread[d] # "queued"
    /\ Cardinality(Calling) < Limit
    /\ thread' = [thread EXCEPT ![c] = "calling"]
    /\ UNCHANGED <<useDeepseek, cmpRound, cmpPhase, roundRecords, prev, seq, wires, records>>

\* Mutant of PlaceOf: the records are collected as the threads end.
PlaceOfCompletion(c) ==
    IF \E d \in Character : roundRecords[d] = NoRecord
    THEN CHOOSE d \in Character :
            roundRecords[d] = NoRecord /\ \A e \in 1..d - 1 : roundRecords[e] # NoRecord
    ELSE c

\* futures[fut]: the place of a record is that of its character.
PlaceOf(c) == c

\* The answer arrives: projection, _next_seq, encoding, _prev, the record,
\* which nobody collects any more once a result has raised.
Process(c) ==
    /\ thread[c] = "calling"
    /\ \E v \in Values :
        LET wire == Encode(c, v) IN
        /\ wires' = Append(wires, wire)
        /\ prev' = [prev EXCEPT ![c] = v]
        /\ roundRecords' =
                IF cmpPhase # "round" THEN roundRecords
                ELSE [roundRecords EXCEPT ![PlaceOf(c)] =
                        [agent |-> c, round |-> cmpRound, delta |-> wire.kind = "DELTA"]]
    /\ seq' = seq + 1
    /\ thread' = [thread EXCEPT ![c] = "over"]
    /\ UNCHANGED <<useDeepseek, cmpRound, cmpPhase, records>>

\* The API raises: result() raises it again, after which leaving the pool
\* waits for the other threads, the queued ones too.
CallFails(c) ==
    /\ useDeepseek /\ thread[c] = "calling"
    /\ thread' = [thread EXCEPT ![c] = "over"]
    /\ cmpPhase' = "failing"
    /\ UNCHANGED <<useDeepseek, cmpRound, roundRecords, prev, seq, wires, records>>

AllOver == \A c \in Character : thread[c] = "over"

PoolDrained ==
    /\ cmpPhase = "failing" /\ AllOver
    /\ cmpPhase' = "failed"
    /\ UNCHANGED <<useDeepseek, cmpRound, thread, roundRecords, prev, seq, wires, records>>

\* The end of a round of run: the records, in the order of the characters.
EndRound ==
    /\ cmpPhase = "round" /\ AllOver /\ cmpRound < CmpRounds
    /\ records' = records \o roundRecords
    /\ roundRecords' = [c \in Character |-> NoRecord]
    /\ thread' = [c \in Character |-> "queued"]
    /\ cmpRound' = cmpRound + 1
    /\ UNCHANGED <<useDeepseek, cmpPhase, prev, seq, wires>>

ComparisonNext ==
    \/ \E c \in Character : StartCall(c) \/ Process(c) \/ CallFails(c)
    \/ PoolDrained
    \/ EndRound

ComparisonSpec == ComparisonInit /\ [][ComparisonNext]_cmpVars

-----------------------------------------------------------------------------
(* Reports *)

\* per_agent, per_round and the totals over metrics.records.
PerAgent(c) == Cardinality({i \in DOMAIN records : records[i].agent = c})
PerRound(n) == Cardinality({i \in DOMAIN records : records[i].round = n})
DeltaMsgs == Cardinality({i \in DOMAIN records : records[i].delta})

(* Properties *)

WiresOf(c) == {i \in DOMAIN wires : wires[i].from = c}
FromCharacter(c) == Keeping(wires, WiresOf(c))

\* The messages of a character that carried a value.
Carriers(c) == {i \in WiresOf(c) : wires[i].kind # "ACK"}

\* What a receiver that got every message has of a character.
View(c) ==
    IF Carriers(c) = {} THEN Unsaid
    ELSE wires[CHOOSE i \in Carriers(c) : \A j \in Carriers(c) : j <= i].value

\* The ACKs since the last value that was sent.
Unsent(c) == Cardinality({i \in WiresOf(c) : \A j \in Carriers(c) : j < i})

\* A receiver is behind a character by at most the threshold for every
\* message that carried nothing: the changes are taken against the vector
\* before, not against the one sent last, so small ones add up.
DriftBounded ==
    \A c \in Character : prev[c] # Unsaid => Distance(View(c), prev[c]) <= Unsent(c) * CmpThreshold

\* However the threads end, the records of the rounds that are through are
\* those of every character, once each and in order, and agree with the
\* messages; a failed call loses the experiment.
RecordsExact ==
    /\ Len(records) = cmpRound * Characters
    /\ \A i \in DOMAIN records :
        /\ records[i].agent = ((i - 1) % Characters) + 1
        /\ records[i].round = (i - 1) \div Characters
        /\ records[i].delta <=>
            FromCharacter(records[i].agent)[records[i].round + 1].kind = "DELTA"

\* The reports add up: a record for each character and round.
ReportsExact ==
    /\ \A c \in Character : PerAgent(c) = cmpRound
    /\ \A n \in 0..cmpRound - 1 : PerRound(n) = Characters
    /\ DeltaMsgs <= Len(records)

\* The comparison: bounded drift at a receiver, and records that do not
\* depend on the order in which the threads of a round end.
ComparisonSound == DriftBounded /\ RecordsExact /\ ReportsExact
=============================================================================
