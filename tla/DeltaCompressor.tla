--------------------------- MODULE DeltaCompressor ---------------------------
(***************************************************************************)
(* delta_compression.py: a DeltaCompressor sends the COGONs of an agent as *)
(* DELTAs against the last one it sent FULL, and SmartDeltaNetwork logs    *)
(* what was sent.  Here two networks talk over a channel that keeps the    *)
(* order, one sending and one receiving, each with a compressor of its     *)
(* own; the programs that use the class compress and never decompress.     *)
(*                                                                         *)
(* One axis stands for the vector.  A COGON is a pair of its value on the  *)
(* axis and of its uncertainty.                                            *)
(***************************************************************************)
EXTENDS Integers, Sequences, Subsequences

CONSTANTS
    DeltaAgents,    \* the agents that send
    Axis,           \* bound: the values of the axis are 0..Axis
    DeltaThreshold, \* threshold
    MaxDeltaChain,  \* max_delta_chain
    MaxCompressed   \* bound: messages sent

ASSUME CompressorAssumption ==
    /\ Axis \in Nat /\ DeltaThreshold \in Nat /\ MaxDeltaChain \in Nat /\ MaxCompressed \in Nat

VARIABLES
    senderBaselines,    \* baselines of the sending compressor
    receiverBaselines,  \* baselines of the receiving compressor
    deltaChains,        \* delta_chains
    channel,            \* what is on its way
    messageLog,         \* message_log: agent and type of every message
    deltaMetrics,       \* metrics
    decompressed        \* the last COGON received and the one that was sent

deltaVars == <<senderBaselines, receiverBaselines, deltaChains, channel, messageLog,
               deltaMetrics, decompressed>>

DeltaCogons == [sem : 0..Axis, unc : {0, 1}]
NoBaseline == [sem |-> -1, unc |-> 0]

DeltaTypeOK ==
    /\ senderBaselines \in [DeltaAgents -> DeltaCogons \cup {NoBaseline}]
    /\ receiverBaselines \in [DeltaAgents -> DeltaCogons \cup {NoBaseline}]
    /\ deltaChains \in [DeltaAgents -> 0..MaxDeltaChain]
    /\ messageLog \in Seq([agent : DeltaAgents, type : {"FULL", "DELTA"}])
    /\ deltaMetrics \in [total : Nat, delta : Nat, full : Nat]
    /\ decompressed.got \in DeltaCogons

DeltaInit ==
    /\ senderBaselines = [a \in DeltaAgents |-> NoBaseline]
    /\ receiverBaselines = [a \in DeltaAgents |-> NoBaseline]
    /\ deltaChains = [a \in DeltaAgents |-> 0]
    /\ channel = <<>> /\ messageLog = <<>>
    /\ deltaMetrics = [total |-> 0, delta |-> 0, full |-> 0]
    /\ decompressed = [sent |-> [sem |-> 0, unc |-> 0], got |-> [sem |-> 0, unc |-> 0]]

-----------------------------------------------------------------------------

\* DeltaMetrics.update; of the bytes only that a message has some.
Updated(isDelta) ==
    [deltaMetrics EXCEPT
        !.total = @ + 1,
        !.delta = IF isDelta THEN @ + 1 ELSE @,
        !.full = IF isDelta THEN @ ELSE @ + 1]

\* get_savings: with nothing sent yet, other keys than the report reads.
Savings ==
    IF deltaMetrics.total = 0 THEN {"percent", "bytes"}
    ELSE {"bytes_saved", "percent_saved", "delta_ratio", "efficiency"}

\* simulate_conversation and the script with both books print bytes_saved.
ReportRaises == "bytes_saved" \notin Savings

\* compute_delta, and apply_delta with its clamp: the uncertainty is that of
\* the reference.
ComputeDelta(current, reference) == current.sem - reference.sem

Clamped(v) == IF v < 0 THEN 0 ELSE IF v > Axis THEN Axis ELSE v

ApplyDelta(reference, d) == [sem |-> Clamped(reference.sem + d), unc |-> reference.unc]

\* Mutant of ShouldUseDelta: the chain is not looked at.
ShouldUseDeltaAnyChain(a, current) ==
    LET d == ComputeDelta(current, senderBaselines[a])
    IN IF d < 0 THEN -d < DeltaThreshold ELSE d < DeltaThreshold

\* should_use_delta
ShouldUseDelta(a, current) ==
    /\ ComputeDelta(current, senderBaselines[a]) \in -DeltaThreshold + 1 .. DeltaThreshold - 1
    /\ deltaChains[a] < MaxDeltaChain

Post(a, type, current, payload) ==
    /\ channel' = Append(channel, [agent |-> a, type |-> type, payload |-> payload, sent |-> current])
    /\ messageLog' = Append(messageLog, [agent |-> a, type |-> type])

\* Mutant of BaselineAfterDelta: every message is a baseline.
BaselineAfterDeltaMoved(a, current) == [senderBaselines EXCEPT ![a] = current]

BaselineAfterDelta(a, current) == senderBaselines

\* compress when there is no baseline, or it says FULL: the baseline moves.
SendFull(a, current) ==
    /\ senderBaselines[a] = NoBaseline \/ ~ShouldUseDelta(a, current)
    /\ senderBaselines' = [senderBaselines EXCEPT ![a] = current]
    /\ deltaChains' = [deltaChains EXCEPT ![a] = 0]
    /\ deltaMetrics' = Updated(FALSE)
    /\ Post(a, "FULL", current, current)
    /\ UNCHANGED <<receiverBaselines, decompressed>>

\* compress when it says DELTA: the baseline stays.
SendDelta1337(a, current) ==
    /\ senderBaselines[a] # NoBaseline /\ ShouldUseDelta(a, current)
    /\ deltaChains' = [deltaChains EXCEPT ![a] = @ + 1]
    /\ deltaMetrics' = Updated(TRUE)
    /\ Post(a, "DELTA", current, ComputeDelta(current, senderBaselines[a]))
    /\ senderBaselines' = BaselineAfterDelta(a, current)
    /\ UNCHANGED <<receiverBaselines, decompressed>>

SendMessage ==
    /\ Len(messageLog) < MaxCompressed
    /\ \E a \in DeltaAgents, current \in DeltaCogons : SendFull(a, current) \/ SendDelta1337(a, current)

\* decompress; a DELTA before any FULL would raise.
Decompress(m) ==
    IF m.type = "FULL" THEN m.payload ELSE ApplyDelta(receiverBaselines[m.agent], m.payload)

ReceiveMessage ==
    /\ channel # <<>>
    /\ LET m == Head(channel) IN
        /\ m.type = "DELTA" => receiverBaselines[m.agent] # NoBaseline
        /\ decompressed' = [sent |-> m.sent, got |-> Decompress(m)]
        /\ receiverBaselines' =
                IF m.type = "FULL" THEN [receiverBaselines EXCEPT ![m.agent] = m.payload]
                ELSE receiverBaselines
    /\ channel' = Tail(channel)
    /\ UNCHANGED <<senderBaselines, deltaChains, messageLog, deltaMetrics>>

DeltaNext == SendMessage \/ ReceiveMessage

DeltaSpec == DeltaInit /\ [][DeltaNext]_deltaVars

-----------------------------------------------------------------------------
(* Properties *)

\* On a channel that keeps the order a DELTA never arrives without its
\* baseline, and every vector comes out as it was sent.
Decodes ==
    /\ decompressed.got.sem = decompressed.sent.sem
    /\ \A i \in DOMAIN channel :
        channel[i].type = "DELTA" /\ (\A j \in 1..i - 1 : channel[j].agent # channel[i].agent)
            => receiverBaselines[channel[i].agent] # NoBaseline

\* No agent sends more than max_delta_chain DELTAs in a row, so a receiver
\* that missed a baseline has one again after that many messages.
ChainBounded ==
    \A a \in DeltaAgents :
        LET of == Keeping(messageLog, {k \in DOMAIN messageLog : messageLog[k].agent = a})
        IN \A i \in 1..Len(of) - MaxDeltaChain :
            \E j \in i..i + MaxDeltaChain : of[j].type = "FULL"

\* The metrics agree with the log, and the report fails before the first
\* message and never after it.
MetricsExact ==
    /\ deltaMetrics.total = Len(messageLog)
    /\ deltaMetrics.delta + deltaMetrics.full = deltaMetrics.total
    /\ deltaMetrics.full = Cardinality({k \in DOMAIN messageLog : messageLog[k].type = "FULL"})
    /\ ReportRaises <=> messageLog = <<>>

\* Delta compression loses no vector.
DeltaSound == Decodes /\ ChainBounded /\ MetricsExact

\* decompress: "Reconstructs a COGON from a compressed payload."
Reconstructs == decompressed.got = decompressed.sent
=============================================================================
