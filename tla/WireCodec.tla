------------------------------- MODULE WireCodec -------------------------------
(***************************************************************************)
(* python/leet/codec.py: the compact binary form of a COGON and of a       *)
(* MSG_1337, passed on from agent to agent.                                *)
(*                                                                         *)
(* A COGON is its id and one value in 0..Grain (0.0 to 1.0); its 92 bytes  *)
(* of header and payload are kept as a record, and the rest of a frame,    *)
(* the 4 bytes of the checksum and the extension of a message, as a        *)
(* sequence of bytes.  A name is a sequence of bytes.                      *)
(***************************************************************************)
EXTENDS Integers, Sequences, SequencesExt

CONSTANTS
    Grain,       \* steps between 0.0 and 1.0
    FrameIds,    \* ids of cogons
    AgentNames,  \* names of agents: sequences of bytes; <<>> is broadcast
    CrcBytes,    \* the checksums that may come out: sequences of 4 bytes
    Patches,     \* patch values, in grains; they may be negative
    MaxHops      \* bound on hops

ASSUME CodecAssumption ==
    Grain \in Nat \ {0} /\ MaxHops \in Nat /\ \A c \in CrcBytes : Len(c) = 4

VARIABLES
    held,      \* the message an agent holds, or NoMessage
    first,     \* the message that was first sent
    frame,     \* the bytes on the way, or NoFrame
    hops       \* number of frames sent

codecVars == <<held, first, frame, hops>>

FrameIntents == <<"ASSERT", "QUERY", "DELTA", "SYNC", "ANOMALY", "ACK">>
Headers == {"good", "bad magic", "bad version"}

\* NoPatch stands for None; a patch is PatchBytes values, here the same one.
NoPatch == -1000
PatchBytes == 32

NoMessage == [id |-> 0, value |-> 0, sender |-> <<>>, receiver |-> <<>>, intent |-> "none",
              patch |-> NoPatch]
NoFrame == [header |-> "good", id |-> 0, sem |-> 0, crcOf |-> <<>>, tail |-> <<>>]

CodecTypeOK ==
    /\ held.value \in 0..Grain /\ held.intent \in ToSet(FrameIntents) \cup {"none"}
    /\ first.value \in 0..Grain
    /\ frame.header \in Headers /\ frame.sem \in 0..255
    /\ \A i \in DOMAIN frame.tail : frame.tail[i] \in 0..255
    /\ hops \in 0..MaxHops

CodecInit == held = NoMessage /\ first = NoMessage /\ frame = NoFrame /\ hops = 0

---------------------------------------------------------------------------
\* Mutant of ToUint8: the value is quantized against 256.
ToUint8Wide(value) == LET q == (value * 256) \div Grain
                      IN IF q < 0 THEN 0 ELSE IF q > 254 THEN 254 ELSE q

\* _float_to_uint8: int(value * 255), held in 0..255.
ToUint8(value) == LET q == (value * 255) \div Grain
                  IN IF q < 0 THEN 0 ELSE IF q > 255 THEN 255 ELSE q

\* _uint8_to_float: the fraction q / 255, here the least value that gives q.
ToFloat(q) == (q * Grain + 254) \div 255

\* encode_cogon: header, payload, and the checksum of both.
EncodeCogon(m, crc) ==
    LET q == ToUint8(m.value)
    IN [header |-> "good", id |-> m.id, sem |-> q, crcOf |-> <<"good", m.id, q>>, tail |-> crc]

\* The checks of decode_cogon: magic, version, checksum (of which it is assumed
\* that it differs when what it covers does).
Decodable(f) == /\ f.header = "good" /\ Len(f.tail) >= 4
                /\ f.crcOf = <<f.header, f.id, f.sem>>

IntentCode(i) == (CHOOSE k \in DOMAIN FrameIntents : FrameIntents[k] = i) - 1

\* The extension encode_msg puts after the checksum.
Extension(m) ==
    <<Len(m.sender)>> \o m.sender \o <<Len(m.receiver)>> \o m.receiver
        \o <<IntentCode(m.intent), IF m.patch = NoPatch THEN 0 ELSE 1>>
        \o (IF m.patch = NoPatch THEN <<>> ELSE [i \in 1..PatchBytes |-> ToUint8(m.patch)])

\* encode_msg: the cogon (of a DAG the first node), then the extension.
EncodeMsg(m, crc) == LET base == EncodeCogon(m, crc)
                     IN [base EXCEPT !.tail = @ \o Extension(m)]

\* data[offset:offset + n]
Slice(s, a, n) == SubSeq(s, a, a + n - 1)

\* decode_msg: the cogon, and the extension read from where the payload ends,
\* which is where the checksum begins.  Fields that lie outside the frame
\* raise (a slice past the end is short, and its struct does not unpack), and
\* so do names that are not UTF-8, here ASCII.  Of a patch the first value is
\* kept.
Parsed(f) ==
    LET t == f.tail
        byte(i) == IF i \in DOMAIN t THEN t[i] ELSE -1
        sLen == byte(1)
        rAt == 2 + sLen
        rLen == byte(rAt)
        iAt == rAt + 1 + rLen
        patched == byte(iAt + 1)
        ok == /\ Len(t) >= 1 /\ rAt \in DOMAIN t /\ {iAt, iAt + 1} \subseteq DOMAIN t
              /\ patched # 0 => iAt + 1 + PatchBytes \in DOMAIN t
              /\ \A i \in (2..1 + sLen) \cup (rAt + 1..rAt + rLen) : t[i] < 128
    IN [ok |-> ok,
        msg |-> IF ~ok THEN NoMessage
                ELSE [id |-> f.id, value |-> ToFloat(f.sem),
                      sender |-> Slice(t, 2, sLen), receiver |-> Slice(t, rAt + 1, rLen),
                      intent |-> IF byte(iAt) \in 0..5 THEN FrameIntents[byte(iAt) + 1] ELSE "ASSERT",
                      patch |-> IF patched = 0 THEN NoPatch ELSE ToFloat(byte(iAt + 2))]]

---------------------------------------------------------------------------
\* An agent makes a message.
Make(m) ==
    /\ held = NoMessage /\ first = NoMessage
    /\ held' = m /\ first' = m
    /\ UNCHANGED <<frame, hops>>

\* It sends the cogon, or the message, it holds.
SendFrame ==
    /\ held # NoMessage /\ frame = NoFrame /\ hops < MaxHops
    /\ hops' = hops + 1
    /\ \E crc \in CrcBytes : frame' = EncodeCogon(held, crc) \/ frame' = EncodeMsg(held, crc)
    /\ UNCHANGED <<held, first>>

\* The channel changes a byte.
CorruptFrame ==
    /\ frame # NoFrame /\ Decodable(frame) /\ hops = 1
    /\ \/ \E h \in Headers \ {"good"} : frame' = [frame EXCEPT !.header = h]
       \/ \E q \in {0, 255} : q # frame.sem /\ frame' = [frame EXCEPT !.sem = q]
       \/ Len(frame.tail) > 4 /\ \E b \in {0, 5} : frame' = [frame EXCEPT !.tail[5] = b]
    /\ UNCHANGED <<held, first, hops>>

\* decode_cogon: the receiver holds a cogon, with the names it knows from
\* elsewhere; a bad frame raises.
DecodeCogon ==
    /\ frame # NoFrame
    /\ held' = IF Decodable(frame) THEN [held EXCEPT !.id = frame.id, !.value = ToFloat(frame.sem)]
               ELSE held
    /\ frame' = NoFrame
    /\ UNCHANGED <<first, hops>>

\* decode_msg: the receiver holds what was parsed.
DecodeMsg ==
    /\ frame # NoFrame /\ Len(frame.tail) > 4
    /\ held' = IF Decodable(frame) /\ Parsed(frame).ok THEN Parsed(frame).msg ELSE held
    /\ frame' = NoFrame
    /\ UNCHANGED <<first, hops>>

CodecMessages ==
    {[id |-> i, value |-> v, sender |-> s, receiver |-> r, intent |-> n, patch |-> p] :
        i \in FrameIds, v \in {0, 1, Grain \div 2, Grain}, s \in AgentNames \ {<<>>},
        r \in AgentNames, n \in {"ASSERT", "ACK"}, p \in Patches \cup {NoPatch}}

CodecNext == (\E m \in CodecMessages : Make(m)) \/ SendFrame \/ CorruptFrame
                \/ DecodeCogon \/ DecodeMsg

CodecSpec == CodecInit /\ [][CodecNext]_codecVars

---------------------------------------------------------------------------
\* However often a cogon is passed on, the receiver holds its id and a value
\* at most one step of 1/255 below the first: the loss of the quantization
\* does not add up, and a frame with a changed cogon is refused.
CogonKept ==
    held # NoMessage => /\ held.id = first.id
                        /\ held.value <= first.value
                        /\ (first.value - held.value) * 255 <= Grain

\* codec.py:213: "Decodes bytes to a MSG_1337."  What decode_msg gives for a
\* frame that encode_msg made is the message, but for the quantization.
MessageKept ==
    held # NoMessage => /\ held.sender = first.sender /\ held.receiver = first.receiver
                        /\ held.intent = first.intent
===============================================================================
